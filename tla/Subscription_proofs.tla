------------------------- MODULE Subscription_proofs -------------------------
(***************************************************************************)
(* Proofs about what a subscription leads to: the subscription row that    *)
(* BillingSync keeps, and the retention that RetentionGrace makes of the   *)
(* tier.                                                                   *)
(***************************************************************************)
EXTENDS BillingSync, RetentionGrace, FiniteSetTheorems, WellFoundedInduction, TLAPS

-----------------------------------------------------------------------------
(* The subscription row: BillingSync.                                      *)

StripeRecord == [status : Statuses, tier : Tier]

\* The steps of a run, by the kind of its event.
StepsOf(kind) ==
  CASE kind = "checkout" -> {"retrieve", "list", "cancel", "refund", "upsert", "retention"}
    [] kind = "updated" -> {"read", "retrieve", "upsert", "revoke", "retention"}
    [] kind = "deleted" -> {"read", "revoke", "retention"}
    [] kind = "payment_failed" -> {"read", "retrieve", "setStatus"}
    [] OTHER -> {"none"}

AllSteps == {"none", "read", "retrieve", "list", "cancel", "refund", "upsert", "setStatus", "revoke", "retention"}

JobRecord == [kind : Kinds \cup {"none"}, sub : 0 .. MaxSubs, step : AllSteps, own : BOOLEAN,
              tier : Tier, fresh : StripeRecord, duplicates : SUBSET Sub, won : BOOLEAN]

BillingTypes ==
  /\ stripe \in [Sub -> StripeRecord]
  /\ events \in SUBSET (Kinds \X Sub)
  /\ row \in Row /\ (row.sub = 0 => row.tier = "growth")
  /\ retention \in Tier
  /\ job \in [Handlers -> JobRecord]
  /\ refunded \in SUBSET Sub
  /\ twists \in 0 .. MaxTwists
  /\ faults \in SUBSET {"run", "cancel", "dead"}
  /\ unread \in SUBSET Sub
  /\ overlap \in {"none", "syncs", "runs"}

\* A run is of a subscription and at a step of its kind; no run is no run, and a
\* refund is of a duplicate.
JobShape(j) ==
  /\ j.kind = "none" => j = NoJob
  /\ j.kind # "none" => j.sub \in Sub /\ j.step \in StepsOf(j.kind)
  /\ j.step = "refund" => j.duplicates # {}

JobShapes == \A h \in Handlers : JobShape(job[h])

\* Subscriptions are created in order, everything is about one that was, and a
\* deletion about one that ended.
SubsExist ==
  /\ \A t \in Sub : stripe[t].status # "none" => \A s \in 1 .. t - 1 : stripe[s].status # "none"
  /\ \A e \in events : /\ stripe[e[2]].status # "none"
                       /\ e[1] = "deleted" => stripe[e[2]].status = "canceled"
  /\ \A h \in Handlers :
       /\ job[h].kind # "none" => stripe[job[h].sub].status # "none"
       /\ job[h].kind = "deleted" => stripe[job[h].sub].status = "canceled"
       /\ \A s \in job[h].duplicates : stripe[s].status # "none"
  /\ row.sub # 0 => stripe[row.sub].status # "none"

\* The run of a checkout that is still to cancel subscription t.
Resolving(h, t) ==
  /\ job[h].kind = "checkout" /\ job[h].sub = t /\ ~job[h].own
  /\ \/ job[h].step \in {"retrieve", "list"}
     \/ job[h].step = "cancel" /\ t \in job[h].duplicates
     \/ job[h].step = "refund" /\ t \in job[h].duplicates \ {Min(job[h].duplicates)}

\* While two subscriptions are live the checkout of the younger is to be handled.
DuplicatesAreResolved ==
  \A t \in Sub : \A s \in 1 .. t - 1 :
    "cancel" \notin faults /\ stripe[s].status \in Live /\ stripe[t].status \in Live
      => <<"checkout", t>> \in events \/ \E h \in Handlers : Resolving(h, t)

OneAtATime == \A g, h \in Handlers : job[g].kind # "none" /\ job[h].kind # "none" => g = h

Announced(s) == <<"updated", s>> \in events \/ <<"deleted", s>> \in events

\* What a run that is about to write read of Stripe is so, or a change is announced.
FreshIsKnown(h) ==
  \/ job[h].step \in {"list", "cancel", "refund", "upsert", "setStatus"}
  \/ job[h].kind = "updated" /\ job[h].step = "revoke"
  => job[h].fresh = stripe[job[h].sub] \/ Announced(job[h].sub)

\* What a run has seen when it comes to these steps.
SeenOfStripe(h) ==
  /\ job[h].step = "setStatus" => job[h].fresh.status \in {"past_due", "unpaid"}
  /\ job[h].kind = "updated" /\ job[h].step = "revoke" => job[h].fresh.status \notin TierRetaining

\* The row is still that of the run's subscription.
RowIsOfRun(h) ==
  job[h].kind # "checkout" /\ job[h].step \in {"retrieve", "upsert", "setStatus", "revoke"} =>
    row.sub = job[h].sub

\* A run that Stripe waits for is about to bring the row up to date.
Updating(h, s) ==
  /\ job[h].sub = s /\ ~job[h].own
  /\ \/ job[h].kind = "updated" /\ job[h].step \in {"read", "retrieve", "upsert", "revoke"}
     \/ job[h].kind = "deleted" /\ job[h].step \in {"read", "revoke"}

RowIsFollowed ==
  row.sub # 0 => \/ row.sub \in unread
                 \/ EntitledTier = PaidTier(row.sub)
                 \/ Announced(row.sub)
                 \/ \E h \in Handlers : Updating(h, row.sub)

\* The retention is that of the row's tier, or a run is about to make it so.
RetentionIsFollowed ==
  /\ \A h \in Handlers : job[h].step = "retention" => job[h].fresh.tier = row.tier
  /\ (\A h \in Handlers : job[h].step # "retention") => retention = row.tier
  /\ \A h \in Handlers :
       job[h].kind \in {"updated", "deleted"} /\ job[h].step \in {"retrieve", "upsert", "revoke"} =>
         job[h].tier = row.tier

\* What holds while runs do not overlap.
RunIsKnown(h) == FreshIsKnown(h) /\ SeenOfStripe(h) /\ RowIsOfRun(h)

HandledAlone ==
  /\ OneAtATime
  /\ \A h \in Handlers : RunIsKnown(h)
  /\ RowIsFollowed
  /\ "run" \notin faults => RetentionIsFollowed

BillingInvariant ==
  /\ BillingTypes /\ JobShapes /\ SubsExist
  /\ DuplicatesAreResolved
  /\ overlap = "none" => HandledAlone

-----------------------------------------------------------------------------
(* What the steps do to the runs.                                          *)

\* A set of numbers has a smallest one.
LEMMA MinOfNumbers ==
  ASSUME NEW S, S \subseteq Nat, S # {}
  PROVE  Min(S) \in S /\ \A x \in S : Min(S) <= x
<1> DEFINE R == OpToRel(<, Nat)
<1>1. IsWellFoundedOn(R, Nat)
  BY NatLessThanWellFounded
<1>2. \A a, b \in Nat : a < b => <<a, b>> \in R
  BY DEF R, OpToRel
<1> HIDE DEF R
<1>3. PICK m \in S : \A x \in S : <<x, m>> \notin R
  BY <1>1, WFMin
<1>4. ASSUME NEW x \in S PROVE m <= x
  <2>1. x \in Nat /\ m \in Nat
    OBVIOUS
  <2>2. ~(x < m)
    BY <1>2, <1>3, <2>1
  <2> QED
    BY <2>1, <2>2
<1>5. \E n \in S : \A x \in S : n =< x
  BY <1>4
<1> QED
  BY <1>5 DEF Min

OthersStay(h) == \A g \in Handlers \ {h} : job'[g] = job[g]

Ends(h) == job'[h] = NoJob

\* The run goes on at a step.
Goes(h, step) ==
  /\ job'[h].kind = job[h].kind /\ job'[h].sub = job[h].sub /\ job'[h].own = job[h].own
  /\ job'[h].step = step

Runs == job' \in [Handlers -> JobRecord]

LEMMA JobFields ==
  ASSUME BillingTypes, NEW h \in Handlers
  PROVE  /\ job[h] \in JobRecord /\ job[h].kind \in Kinds \cup {"none"} /\ job[h].sub \in 0 .. MaxSubs
         /\ job[h].step \in AllSteps /\ job[h].own \in BOOLEAN /\ job[h].tier \in Tier
         /\ job[h].fresh \in StripeRecord /\ job[h].duplicates \in SUBSET Sub /\ job[h].won \in BOOLEAN
<1>1. job[h] \in JobRecord
  BY DEF BillingTypes
<1> QED
  BY <1>1 DEF JobRecord

LEMMA NoJobFields ==
  ASSUME BillingAssumption
  PROVE  /\ NoJob \in JobRecord /\ NoJob.kind = "none" /\ NoJob.sub = 0 /\ NoJob.step = "none"
         /\ NoJob.duplicates = {} /\ JobShape(NoJob)
<1>1. Absent \in StripeRecord
  BY DEF Absent, StripeRecord, Statuses, Tier
<1>2. 0 \in 0 .. MaxSubs
  BY DEF BillingAssumption
<1>3. NoJob \in JobRecord
  BY <1>1, <1>2 DEF NoJob, JobRecord, AllSteps, Tier
<1>4. /\ NoJob.kind = "none" /\ NoJob.sub = 0 /\ NoJob.step = "none" /\ NoJob.duplicates = {}
  BY DEF NoJob
<1> QED
  BY <1>3, <1>4 DEF JobShape

LEMMA JobEnds ==
  ASSUME BillingAssumption, BillingTypes, NEW h \in Handlers, Done(h)
  PROVE  Runs /\ OthersStay(h) /\ Ends(h)
<1>1. job' = [job EXCEPT ![h] = NoJob] /\ NoJob \in JobRecord
  BY NoJobFields DEF Done
<1> QED
  BY <1>1 DEF BillingTypes, Runs, OthersStay, Ends

LEMMA GotoMoves ==
  ASSUME BillingTypes, NEW h \in Handlers, NEW step \in AllSteps, Goto(h, step)
  PROVE  /\ Runs /\ OthersStay(h) /\ Goes(h, step)
         /\ job'[h].tier = job[h].tier /\ job'[h].fresh = job[h].fresh /\ job'[h].duplicates = job[h].duplicates
<1> DEFINE y == [job[h] EXCEPT !.step = step]
<1>1. job[h] \in JobRecord /\ job' = [job EXCEPT ![h] = y]
  BY JobFields DEF Goto
<1>2. /\ y \in JobRecord /\ y.kind = job[h].kind /\ y.sub = job[h].sub /\ y.own = job[h].own
      /\ y.step = step /\ y.tier = job[h].tier /\ y.fresh = job[h].fresh /\ y.duplicates = job[h].duplicates
  BY <1>1 DEF JobRecord
<1> HIDE DEF y
<1> QED
  BY <1>1, <1>2 DEF BillingTypes, Runs, OthersStay, Goes

LEMMA ReadLocalMoves ==
  ASSUME BillingAssumption, BillingTypes, NEW h \in Handlers, ReadLocal(h)
  PROVE  /\ Runs /\ OthersStay(h)
         /\ \/ Ends(h) /\ (row.sub # job[h].sub \/ job[h].kind = "payment_failed")
            \/ /\ Goes(h, IF job[h].kind = "deleted" THEN "revoke" ELSE "retrieve")
               /\ row.sub = job[h].sub /\ job'[h].tier = row.tier
               /\ job'[h].fresh = job[h].fresh /\ job'[h].duplicates = job[h].duplicates
<1> DEFINE next == IF job[h].kind = "deleted" THEN "revoke" ELSE "retrieve"
           y == [job[h] EXCEPT !.step = next, !.tier = row.tier]
           quit == \/ row.sub # job[h].sub
                   \/ job[h].kind = "payment_failed" /\ row.status \in {"past_due", "unpaid"}
<1>1. CASE quit
  <2>1. Done(h)
    BY <1>1 DEF ReadLocal
  <2> QED
    BY <1>1, <2>1, JobEnds
<1>2. CASE ~quit
  <2>1. job' = [job EXCEPT ![h].step = next, ![h].tier = row.tier] /\ row.sub = job[h].sub
    BY <1>2 DEF ReadLocal
  <2>2. job[h] \in JobRecord /\ row.tier \in Tier /\ next \in AllSteps
    BY JobFields DEF BillingTypes, Row, AllSteps
  <2> HIDE DEF next
  <2>3. job' = [job EXCEPT ![h] = y]
    BY <2>1 DEF BillingTypes
  <2>4. /\ y \in JobRecord /\ y.kind = job[h].kind /\ y.sub = job[h].sub /\ y.own = job[h].own
        /\ y.step = next /\ y.tier = row.tier /\ y.fresh = job[h].fresh /\ y.duplicates = job[h].duplicates
    BY <2>2 DEF JobRecord
  <2> HIDE DEF y
  <2>5. /\ Runs /\ OthersStay(h) /\ Goes(h, next) /\ job'[h].tier = row.tier
        /\ job'[h].fresh = job[h].fresh /\ job'[h].duplicates = job[h].duplicates
    BY <2>3, <2>4 DEF BillingTypes, Runs, OthersStay, Goes
  <2> QED
    BY <2>1, <2>5 DEF next
<1> QED
  BY <1>1, <1>2

\* Where a run goes with what it retrieved.
AfterRetrieve(h) ==
  CASE job[h].kind = "checkout" -> "list"
    [] job[h].kind = "payment_failed" -> "setStatus"
    [] OTHER -> IF stripe[job[h].sub].status \in TierRetaining THEN "upsert" ELSE "revoke"

LEMMA RetrieveMoves ==
  ASSUME BillingAssumption, BillingTypes, NEW h \in Handlers, job[h].sub \in Sub, Retrieve(h)
  PROVE  /\ Runs /\ OthersStay(h)
         /\ \/ Ends(h) /\ job[h].kind = "payment_failed"
            \/ /\ Goes(h, AfterRetrieve(h))
               /\ job'[h].fresh = stripe[job[h].sub] /\ job'[h].tier = job[h].tier
               /\ job'[h].duplicates = job[h].duplicates
               /\ job[h].kind = "payment_failed" => job'[h].fresh.status \in {"past_due", "unpaid"}
<1> DEFINE s == stripe[job[h].sub]
           next == AfterRetrieve(h)
           y == [job[h] EXCEPT !.step = next, !.fresh = s]
           quit == job[h].kind = "payment_failed" /\ s.status \notin {"past_due", "unpaid"}
<1>1. CASE quit
  <2>1. Done(h)
    BY <1>1 DEF Retrieve
  <2> QED
    BY <1>1, <2>1, JobEnds
<1>2. CASE ~quit
  <2>1. job' = [job EXCEPT ![h].step = next, ![h].fresh = s]
    BY <1>2 DEF Retrieve, AfterRetrieve
  <2>2. job[h] \in JobRecord /\ s \in StripeRecord /\ next \in AllSteps
    BY JobFields DEF BillingTypes, AllSteps, AfterRetrieve
  <2>3. job[h].kind = "payment_failed" => s.status \in {"past_due", "unpaid"}
    BY <1>2
  <2> HIDE DEF next, s
  <2>4. job' = [job EXCEPT ![h] = y]
    BY <2>1 DEF BillingTypes
  <2>5. /\ y \in JobRecord /\ y.kind = job[h].kind /\ y.sub = job[h].sub /\ y.own = job[h].own
        /\ y.step = next /\ y.tier = job[h].tier /\ y.fresh = s /\ y.duplicates = job[h].duplicates
    BY <2>2 DEF JobRecord
  <2> HIDE DEF y
  <2>6. /\ Runs /\ OthersStay(h) /\ Goes(h, next) /\ job'[h].tier = job[h].tier
        /\ job'[h].fresh = s /\ job'[h].duplicates = job[h].duplicates
    BY <2>4, <2>5 DEF BillingTypes, Runs, OthersStay, Goes
  <2> QED
    BY <2>3, <2>6 DEF next, s
<1> QED
  BY <1>1, <1>2

\* Every live subscription with an older live one is a duplicate.
LEMMA ListDuplicatesMoves ==
  ASSUME BillingAssumption, BillingTypes, NEW h \in Handlers, ListDuplicates(h)
  PROVE  /\ Runs /\ OthersStay(h) /\ Goes(h, "cancel")
         /\ job'[h].fresh = job[h].fresh /\ job'[h].tier = job[h].tier
         /\ \A s \in job'[h].duplicates : s \in Sub /\ stripe[s].status \in Live
         /\ \A t \in Sub : \A s \in 1 .. t - 1 :
              stripe[s].status \in Live /\ stripe[t].status \in Live => t \in job'[h].duplicates
<1> DEFINE live == {s \in Sub : stripe[s].status \in Live}
           least == {s \in live : \A t \in live : s <= t}
           duplicates == live \ least
           won == duplicates = {} \/ job[h].sub \in live \ duplicates
           y == [job[h] EXCEPT !.step = "cancel", !.duplicates = duplicates, !.won = won]
<1>1. job' = [job EXCEPT ![h].step = "cancel", ![h].duplicates = duplicates, ![h].won = won]
  BY DEF ListDuplicates
<1>2. \A t \in Sub : \A s \in 1 .. t - 1 :
        stripe[s].status \in Live /\ stripe[t].status \in Live => t \in duplicates
  <2> SUFFICES ASSUME NEW t \in Sub, NEW s \in 1 .. t - 1,
                      stripe[s].status \in Live, stripe[t].status \in Live
               PROVE  t \in duplicates
    OBVIOUS
  <2>1. MaxSubs \in Nat
    BY DEF BillingAssumption
  <2>2. s \in live /\ t \in live /\ ~(t <= s)
    BY <2>1 DEF Sub
  <2> QED
    BY <2>2
<1>3. duplicates \subseteq live /\ live \subseteq Sub /\ \A s \in live : stripe[s].status \in Live
  OBVIOUS
<1>4. won \in BOOLEAN
  OBVIOUS
<1>5. job[h] \in JobRecord /\ "cancel" \in AllSteps
  BY JobFields DEF AllSteps
<1> HIDE DEF won, duplicates, live
<1>6. job' = [job EXCEPT ![h] = y]
  BY <1>1 DEF BillingTypes
<1>7. duplicates \in SUBSET Sub
  BY <1>3
<1>8. /\ y \in JobRecord /\ y.kind = job[h].kind /\ y.sub = job[h].sub /\ y.own = job[h].own
      /\ y.step = "cancel" /\ y.tier = job[h].tier /\ y.fresh = job[h].fresh /\ y.duplicates = duplicates
  BY <1>4, <1>5, <1>7 DEF JobRecord
<1> HIDE DEF y
<1>9. /\ Runs /\ OthersStay(h) /\ Goes(h, "cancel") /\ job'[h].tier = job[h].tier
      /\ job'[h].fresh = job[h].fresh /\ job'[h].duplicates = duplicates
  BY <1>6, <1>8 DEF BillingTypes, Runs, OthersStay, Goes
<1> QED
  BY <1>2, <1>3, <1>9

\* What Stripe and the events become when a cancel of subscription m is tried.
Cancels(m) ==
  \/ stripe[m].status = "canceled" /\ UNCHANGED <<stripe, events, twists, faults>>
  \/ /\ stripe' = [stripe EXCEPT ![m].status = "canceled"]
     /\ events' = events \cup {<<"deleted", m>>}
     /\ UNCHANGED <<twists, faults>>
  \/ Twist /\ faults' = faults \cup {"cancel"} /\ UNCHANGED <<stripe, events>>

LEMMA CancelMoves ==
  ASSUME BillingAssumption, BillingTypes, NEW h \in Handlers, CancelDuplicate(h)
  PROVE  /\ Runs /\ OthersStay(h) /\ Goes(h, "refund")
         /\ job'[h].fresh = job[h].fresh /\ job'[h].tier = job[h].tier
         /\ job'[h].duplicates = job[h].duplicates
         /\ \E m \in job[h].duplicates : m = Min(job[h].duplicates) /\ m \in Sub /\ Cancels(m)
<1> DEFINE m == Min(job[h].duplicates)
<1>1. job[h].duplicates \subseteq Sub /\ job[h].duplicates # {}
  BY JobFields DEF CancelDuplicate
<1>2. Sub \subseteq Nat
  BY DEF Sub
<1>3. m \in job[h].duplicates /\ m \in Sub
  BY <1>1, <1>2, MinOfNumbers
<1>4. Cancels(m)
  BY DEF CancelDuplicate, Cancels
<1>5. Goto(h, "refund") /\ "refund" \in AllSteps
  BY DEF CancelDuplicate, AllSteps
<1> HIDE DEF m
<1> QED
  BY <1>3, <1>4, <1>5, GotoMoves DEF m

LEMMA RefundMoves ==
  ASSUME BillingAssumption, BillingTypes, NEW h \in Handlers, RefundDuplicate(h)
  PROVE  /\ Runs /\ OthersStay(h) /\ Goes(h, "cancel")
         /\ job'[h].fresh = job[h].fresh /\ job'[h].tier = job[h].tier
         /\ job'[h].duplicates = job[h].duplicates \ {Min(job[h].duplicates)}
<1> DEFINE m == Min(job[h].duplicates)
           y == [job[h] EXCEPT !.step = "cancel", !.duplicates = @ \ {m}]
<1>1. job' = [job EXCEPT ![h].step = "cancel", ![h].duplicates = @ \ {m}]
  BY DEF RefundDuplicate
<1>2. job[h] \in JobRecord /\ "cancel" \in AllSteps
  BY JobFields DEF AllSteps
<1> HIDE DEF m
<1>3. job' = [job EXCEPT ![h] = y]
  BY <1>1 DEF BillingTypes
<1>4. /\ y \in JobRecord /\ y.kind = job[h].kind /\ y.sub = job[h].sub /\ y.own = job[h].own
      /\ y.step = "cancel" /\ y.tier = job[h].tier /\ y.fresh = job[h].fresh
      /\ y.duplicates = job[h].duplicates \ {m}
  BY <1>2 DEF JobRecord
<1> HIDE DEF y
<1>5. /\ Runs /\ OthersStay(h) /\ Goes(h, "cancel") /\ job'[h].tier = job[h].tier
      /\ job'[h].fresh = job[h].fresh /\ job'[h].duplicates = job[h].duplicates \ {m}
  BY <1>3, <1>4 DEF BillingTypes, Runs, OthersStay, Goes
<1> QED
  BY <1>5 DEF m

LEMMA SwallowedMoves ==
  ASSUME BillingAssumption, BillingTypes, NEW h \in Handlers, Swallowed(h)
  PROVE  /\ Runs /\ OthersStay(h) /\ Ends(h) /\ Twist
         /\ UNCHANGED <<stripe, events, row, retention, refunded, faults, overlap>>
         /\ \/ job[h].step = "setStatus" /\ unread' = unread
            \/ /\ job[h].step = "read"
               /\ unread' = IF job[h].own \/ job[h].kind = "payment_failed" THEN unread
                            ELSE unread \cup {job[h].sub}
<1>1. Done(h)
  BY DEF Swallowed, ReadSwallowed, StatusSwallowed
<1> QED
  BY <1>1, JobEnds DEF Swallowed, ReadSwallowed, StatusSwallowed

LEMMA VerdictMoves ==
  ASSUME BillingAssumption, BillingTypes, NEW h \in Handlers, Verdict(h)
  PROVE  /\ Runs /\ OthersStay(h)
         /\ \/ Ends(h)
            \/ /\ Goes(h, "upsert") /\ job'[h].fresh = job[h].fresh /\ job'[h].tier = job[h].tier
               /\ job'[h].duplicates = job[h].duplicates
<1>1. "upsert" \in AllSteps
  BY DEF AllSteps
<1>2. Done(h) \/ Goto(h, "upsert")
  BY DEF Verdict
<1> QED
  BY <1>1, <1>2, JobEnds, GotoMoves

LEMMA UpsertMoves ==
  ASSUME BillingAssumption, BillingTypes, NEW h \in Handlers, Upsert(h)
  PROVE  /\ Runs /\ OthersStay(h)
         /\ \/ Ends(h) /\ ~RetentionDue(h)
            \/ /\ Goes(h, "retention") /\ job'[h].fresh = job[h].fresh
               /\ job'[h].duplicates = job[h].duplicates
<1>1. "retention" \in AllSteps
  BY DEF AllSteps
<1>2. (Done(h) /\ ~RetentionDue(h)) \/ Goto(h, "retention")
  BY DEF Upsert
<1> QED
  BY <1>1, <1>2, JobEnds, GotoMoves

LEMMA RevokeMoves ==
  ASSUME BillingAssumption, BillingTypes, NEW h \in Handlers, Revoke(h)
  PROVE  /\ Runs /\ OthersStay(h)
         /\ \/ Ends(h) /\ job[h].tier = "growth"
            \/ /\ Goes(h, "retention") /\ job'[h].fresh.tier = "growth"
               /\ job'[h].duplicates = job[h].duplicates
<1>1. CASE job[h].tier = "growth"
  <2>1. Done(h)
    BY <1>1 DEF Revoke
  <2> QED
    BY <1>1, <2>1, JobEnds
<1>2. CASE job[h].tier # "growth"
  <2> DEFINE f == [job[h].fresh EXCEPT !.tier = "growth"]
             y == [job[h] EXCEPT !.step = "retention", !.fresh = f]
  <2>1. job' = [job EXCEPT ![h].step = "retention", ![h].fresh.tier = "growth"]
    BY <1>2 DEF Revoke
  <2>2. job[h] \in JobRecord /\ job[h].fresh \in StripeRecord /\ "retention" \in AllSteps /\ "growth" \in Tier
    BY JobFields DEF AllSteps, Tier
  <2>3. f \in StripeRecord /\ f.tier = "growth"
    BY <2>2 DEF StripeRecord
  <2>4. job' = [job EXCEPT ![h] = y]
    BY <2>1, <2>2 DEF BillingTypes, JobRecord
  <2> HIDE DEF f
  <2>5. /\ y \in JobRecord /\ y.kind = job[h].kind /\ y.sub = job[h].sub /\ y.own = job[h].own
        /\ y.step = "retention" /\ y.fresh = f /\ y.duplicates = job[h].duplicates
    BY <2>2, <2>3 DEF JobRecord
  <2> HIDE DEF y
  <2>6. /\ Runs /\ OthersStay(h) /\ Goes(h, "retention") /\ job'[h].fresh = f
        /\ job'[h].duplicates = job[h].duplicates
    BY <2>4, <2>5 DEF BillingTypes, Runs, OthersStay, Goes
  <2> QED
    BY <2>3, <2>6
<1> QED
  BY <1>1, <1>2

\* A run starts on its own, or runs overlap from then on.
LEMMA StartMoves ==
  ASSUME BillingAssumption, BillingTypes, JobShapes, NEW h \in Handlers, NEW kind \in Kinds, NEW s \in Sub,
         NEW own \in BOOLEAN, Start(h, kind, s, own)
  PROVE  /\ Runs /\ OthersStay(h) /\ job[h].kind = "none" /\ job[h].step = "none"
         /\ job'[h].kind = kind /\ job'[h].sub = s /\ job'[h].own = own
         /\ job'[h].step = FirstStep(kind) /\ job'[h].duplicates = {}
         /\ overlap' \in {"none", "syncs", "runs"}
         /\ overlap' = "none" => overlap = "none" /\ \A g \in Handlers : job[g].kind = "none"
<1> DEFINE y == [NoJob EXCEPT !.kind = kind, !.sub = s, !.own = own, !.step = FirstStep(kind)]
<1>1. NoJob \in JobRecord /\ NoJob.step = "none" /\ NoJob.duplicates = {}
  BY NoJobFields
<1>2. job[h].kind = "none" /\ job[h].step = "none"
  BY <1>1 DEF Start, JobShapes, JobShape
<1>3. FirstStep(kind) \in AllSteps /\ s \in 0 .. MaxSubs
  BY DEF FirstStep, AllSteps, Sub, BillingAssumption
<1>4. /\ y \in JobRecord /\ y.kind = kind /\ y.sub = s /\ y.own = own
      /\ y.step = FirstStep(kind) /\ y.duplicates = {}
  BY <1>1, <1>3 DEF JobRecord
<1>5. job' = [job EXCEPT ![h] = y]
  BY DEF Start
<1> HIDE DEF y
<1>6. /\ Runs /\ OthersStay(h) /\ job'[h] = y
  BY <1>4, <1>5 DEF BillingTypes, Runs, OthersStay
<1>7. \/ Running = {} /\ overlap' = overlap
      \/ overlap' \in {"syncs", "runs"}
  BY DEF Start
<1>8. Running = {} => \A g \in Handlers : job[g].kind = "none"
  BY DEF Running
<1> QED
  BY <1>2, <1>4, <1>6, <1>7, <1>8 DEF BillingTypes

-----------------------------------------------------------------------------
(* The types, and that everything is about a subscription there is.        *)

\* A subscription changes at Stripe, which announces it.
StripeMoves(s) ==
  \E status \in Live \cup {"canceled"}, tier \in Tier, kinds \in SUBSET {"updated", "payment_failed", "deleted"} :
    /\ stripe[s].status \in Live
    /\ stripe' = [stripe EXCEPT ![s] = [status |-> status, tier |-> tier]]
    /\ events' = events \cup (kinds \X {s})
    /\ "updated" \in kinds \/ "deleted" \in kinds
    /\ "deleted" \in kinds => status = "canceled"
    /\ UNCHANGED <<row, retention, job, refunded, faults, unread, overlap>>
    /\ Twist

LEMMA StripeMovesBy ==
  ASSUME BillingTypes, NEW s \in Sub, Twist,
         PlanChanges(s) \/ PaymentFails(s) \/ RetriesExhausted(s) \/ PaymentRecovers(s) \/ SubscriptionEnds(s)
  PROVE  StripeMoves(s)
<1>1. stripe[s].tier \in Tier
  BY DEF BillingTypes, StripeRecord
<1>2. ASSUME NEW status \in Live \cup {"canceled"}, NEW tier \in Tier,
             NEW kinds \in SUBSET {"updated", "payment_failed", "deleted"},
             stripe[s].status \in Live, StripeSends(s, status, tier, kinds),
             "updated" \in kinds \/ "deleted" \in kinds, "deleted" \in kinds => status = "canceled"
      PROVE  StripeMoves(s)
  BY <1>2 DEF StripeMoves, StripeSends
<1>3. CASE PlanChanges(s)
  <2> DEFINE tier == CHOOSE t \in Tier : t # stripe[s].tier
  <2>1. \E t \in Tier : t # stripe[s].tier
    BY DEF Tier
  <2>2. tier \in Tier
    BY <2>1
  <2>3. StripeSends(s, "active", tier, {"updated"}) /\ stripe[s].status = "active"
    BY <1>3 DEF PlanChanges
  <2> HIDE DEF tier
  <2> QED
    BY <1>2, <2>2, <2>3 DEF Live
<1>4. CASE PaymentFails(s)
  BY <1>1, <1>2, <1>4 DEF PaymentFails, Live
<1>5. CASE RetriesExhausted(s)
  BY <1>1, <1>2, <1>5 DEF RetriesExhausted, Live
<1>6. CASE PaymentRecovers(s)
  BY <1>1, <1>2, <1>6 DEF PaymentRecovers, Live
<1>7. CASE SubscriptionEnds(s)
  BY <1>1, <1>2, <1>7 DEF SubscriptionEnds, Live
<1> QED
  BY <1>3, <1>4, <1>5, <1>6, <1>7

UserRuns == \E h \in Handlers, s \in Sub, kind \in {"checkout", "updated"} : UserSyncs(h, s, kind)
EventsAgain == \E s \in Sub, kind \in {"checkout", "updated", "deleted"} : Redelivered(s, kind)

\* A step by what it does: the one list of the actions that the lemmas go through.
LEMMA BillingSteps ==
  ASSUME BillingTypes, [Next]_vars
  PROVE  \/ \E s \in Sub, tier \in Tier : CheckoutCompletes(s, tier)
         \/ \E s \in Sub : StripeMoves(s)
         \/ \E h \in Handlers : \E e \in events : Deliver(h, e)
         \/ \E h \in Handlers : Step(h)
         \/ \E h \in Handlers : RunFails(h)
         \/ \E h \in Handlers : Swallowed(h)
         \/ UserRuns
         \/ EventsAgain
         \/ UNCHANGED vars
<1>1. CASE Twist /\ \E s \in Sub : \/ PlanChanges(s) \/ PaymentFails(s) \/ RetriesExhausted(s)
                                   \/ PaymentRecovers(s) \/ SubscriptionEnds(s)
  BY <1>1, StripeMovesBy
<1> QED
  BY <1>1 DEF Next, StripeChanges, UserRuns, EventsAgain

LEMMA StepsOfKinds ==
  /\ StepsOf("checkout") = {"retrieve", "list", "cancel", "refund", "upsert", "retention"}
  /\ StepsOf("updated") = {"read", "retrieve", "upsert", "revoke", "retention"}
  /\ StepsOf("deleted") = {"read", "revoke", "retention"}
  /\ StepsOf("payment_failed") = {"read", "retrieve", "setStatus"}
BY DEF StepsOf

LEMMA TwistCounts ==
  ASSUME BillingAssumption, BillingTypes, Twist
  PROVE  twists' \in 0 .. MaxTwists
BY DEF BillingAssumption, BillingTypes, Twist

BillingForms == BillingTypes /\ JobShapes /\ SubsExist

\* One run changes: the others keep their shape and their subscriptions.
LEMMA FormsOfRun ==
  ASSUME BillingForms, NEW h \in Handlers, Runs, OthersStay(h), JobShape(job'[h]),
         \A s \in Sub : stripe[s].status # "none" => stripe'[s].status # "none",
         \A s \in Sub : stripe[s].status = "canceled" => stripe'[s].status = "canceled",
         job'[h].kind # "none" => stripe'[job'[h].sub].status # "none",
         job'[h].kind = "deleted" => stripe'[job'[h].sub].status = "canceled",
         \A s \in job'[h].duplicates : stripe'[s].status # "none"
  PROVE  /\ JobShapes'
         /\ \A g \in Handlers :
              /\ job'[g].kind # "none" => stripe'[job'[g].sub].status # "none"
              /\ job'[g].kind = "deleted" => stripe'[job'[g].sub].status = "canceled"
              /\ \A s \in job'[g].duplicates : stripe'[s].status # "none"
<1>1. \A g \in Handlers : g # h => job'[g] = job[g]
  BY DEF OthersStay
<1>2. \A g \in Handlers : job[g].kind # "none" => job[g].sub \in Sub
  BY DEF BillingForms, JobShapes, JobShape
<1>3. \A g \in Handlers : job[g].duplicates \subseteq Sub
  BY JobFields DEF BillingForms
<1>4. JobShapes'
  BY <1>1 DEF BillingForms, JobShapes, JobShape, StepsOf, NoJob, Absent, Sub
<1>5. ASSUME NEW g \in Handlers
      PROVE  /\ job'[g].kind # "none" => stripe'[job'[g].sub].status # "none"
             /\ job'[g].kind = "deleted" => stripe'[job'[g].sub].status = "canceled"
             /\ \A s \in job'[g].duplicates : stripe'[s].status # "none"
  <2>1. CASE g = h
    BY <2>1
  <2>2. CASE g # h
    BY <1>1, <1>2, <1>3, <2>2 DEF BillingForms, SubsExist
  <2> QED
    BY <2>1, <2>2
<1> QED
  BY <1>4, <1>5

\* The kinds of run that come to a step.
LEMMA KindsOfSteps ==
  ASSUME BillingAssumption, BillingTypes, JobShapes, NEW h \in Handlers
  PROVE  /\ job[h].step # "none" => job[h].kind # "none"
         /\ job[h].kind # "none" => job[h].sub \in Sub /\ job[h].step \in StepsOf(job[h].kind) /\ job[h].step # "none"
         /\ job[h].kind = "none" => job[h] = NoJob
         /\ job[h].step = "read" => job[h].kind \in {"updated", "deleted", "payment_failed"}
         /\ job[h].step = "retrieve" => job[h].kind \in {"checkout", "updated", "payment_failed"}
         /\ job[h].step \in {"list", "cancel", "refund"} => job[h].kind = "checkout"
         /\ job[h].step = "refund" => job[h].duplicates # {}
         /\ job[h].step = "upsert" => job[h].kind \in {"checkout", "updated"}
         /\ job[h].step = "revoke" => job[h].kind \in {"updated", "deleted"}
         /\ job[h].step = "setStatus" => job[h].kind = "payment_failed"
         /\ job[h].step = "retention" => job[h].kind \in {"checkout", "updated", "deleted"}
<1>1. job[h].kind = "none" => job[h] = NoJob /\ job[h].step = "none"
  BY NoJobFields DEF JobShapes, JobShape
<1>2. job[h].kind # "none" => job[h].sub \in Sub /\ job[h].step \in StepsOf(job[h].kind)
  BY DEF JobShapes, JobShape
<1>3. job[h].kind \in {"none", "checkout", "updated", "deleted", "payment_failed"}
  BY JobFields DEF Kinds
<1>9. job[h].step = "refund" => job[h].duplicates # {}
  BY DEF JobShapes, JobShape
<1>4. CASE job[h].kind = "none"
  BY <1>1, <1>4, <1>9
<1>5. CASE job[h].kind = "checkout"
  BY <1>2, <1>5, <1>9, StepsOfKinds
<1>6. CASE job[h].kind = "updated"
  BY <1>2, <1>6, <1>9, StepsOfKinds
<1>7. CASE job[h].kind = "deleted"
  BY <1>2, <1>7, <1>9, StepsOfKinds
<1>8. CASE job[h].kind = "payment_failed"
  BY <1>2, <1>8, <1>9, StepsOfKinds
<1> QED
  BY <1>3, <1>4, <1>5, <1>6, <1>7, <1>8

\* What any step of a run does to the run: it ends, or goes on at one of its steps.
RunMoves(h) ==
  /\ Runs /\ OthersStay(h)
  /\ job[h].kind # "none" /\ job[h].sub \in Sub
  /\ \/ Ends(h)
     \/ \E step \in StepsOf(job[h].kind) :
          /\ Goes(h, step)
          /\ step = "refund" => job'[h].duplicates # {}
          /\ \A s \in job'[h].duplicates : s \in Sub /\ stripe[s].status # "none"

\* What any step does to Stripe.
StripeFollows ==
  \/ UNCHANGED <<stripe, events, twists, faults>>
  \/ UNCHANGED <<stripe, events, twists>> /\ faults' = faults \cup {"dead"}
  \/ \E m \in Sub : stripe[m].status # "none" /\ Cancels(m)

LEMMA StepMoves ==
  ASSUME BillingAssumption, BillingForms, NEW h \in Handlers, Step(h)
  PROVE  RunMoves(h) /\ StripeFollows
<1> USE DEF BillingForms
<1>1. \A s \in job[h].duplicates : s \in Sub /\ stripe[s].status # "none"
  BY JobFields DEF SubsExist
<1>2. CASE ReadLocal(h)
  <2>1. UNCHANGED <<stripe, events, twists, faults>> /\ job[h].step = "read"
    BY <1>2 DEF ReadLocal, OnlyJob
  <2>2. job[h].kind \in {"updated", "deleted", "payment_failed"} /\ job[h].sub \in Sub
    BY <2>1, KindsOfSteps
  <2>3. (IF job[h].kind = "deleted" THEN "revoke" ELSE "retrieve") \in StepsOf(job[h].kind)
    BY <2>2, StepsOfKinds
  <2> QED
    BY <1>1, <1>2, <2>1, <2>2, <2>3, ReadLocalMoves DEF RunMoves, StripeFollows
<1>3. CASE Retrieve(h)
  <2>1. UNCHANGED <<stripe, events, twists, faults>> /\ job[h].step = "retrieve"
    BY <1>3 DEF Retrieve, OnlyJob
  <2>2. job[h].kind \in {"checkout", "updated", "payment_failed"} /\ job[h].sub \in Sub
    BY <2>1, KindsOfSteps
  <2>3. AfterRetrieve(h) \in StepsOf(job[h].kind) /\ AfterRetrieve(h) # "refund"
    BY <2>2, StepsOfKinds DEF AfterRetrieve
  <2> QED
    BY <1>1, <1>3, <2>1, <2>2, <2>3, RetrieveMoves DEF RunMoves, StripeFollows
<1>4. CASE ListDuplicates(h)
  <2>1. UNCHANGED <<stripe, events, twists, faults>> /\ job[h].step = "list"
    BY <1>4 DEF ListDuplicates, OnlyJob
  <2>2. job[h].kind = "checkout" /\ job[h].sub \in Sub
    BY <2>1, KindsOfSteps
  <2>3. \A s \in job'[h].duplicates : s \in Sub /\ stripe[s].status # "none"
    BY <1>4, ListDuplicatesMoves DEF Live
  <2> QED
    BY <1>4, <2>1, <2>2, <2>3, ListDuplicatesMoves, StepsOfKinds DEF RunMoves, StripeFollows
<1>5. CASE CancelDuplicate(h)
  <2>1. job[h].step = "cancel"
    BY <1>5 DEF CancelDuplicate
  <2>2. job[h].kind = "checkout" /\ job[h].sub \in Sub
    BY <2>1, KindsOfSteps
  <2>3. PICK m \in job[h].duplicates : m \in Sub /\ Cancels(m)
    BY <1>5, CancelMoves
  <2>4. StripeFollows
    BY <1>1, <2>3 DEF StripeFollows
  <2> QED
    BY <1>1, <1>5, <2>2, <2>4, CancelMoves, StepsOfKinds DEF RunMoves
<1>11. CASE RefundDuplicate(h)
  <2>1. UNCHANGED <<stripe, events, twists, faults>> /\ job[h].step = "refund"
    BY <1>11 DEF RefundDuplicate
  <2>2. job[h].kind = "checkout" /\ job[h].sub \in Sub
    BY <2>1, KindsOfSteps
  <2> QED
    BY <1>1, <1>11, <2>1, <2>2, RefundMoves, StepsOfKinds DEF RunMoves, StripeFollows
<1>6. CASE Verdict(h)
  <2>1. UNCHANGED <<stripe, events, twists, faults>> /\ job[h].step = "cancel"
    BY <1>6 DEF Verdict, OnlyJob
  <2>2. job[h].kind = "checkout" /\ job[h].sub \in Sub
    BY <2>1, KindsOfSteps
  <2> QED
    BY <1>1, <1>6, <2>1, <2>2, VerdictMoves, StepsOfKinds DEF RunMoves, StripeFollows
<1>7. CASE Upsert(h)
  <2>1. UNCHANGED <<stripe, events, twists>> /\ job[h].step = "upsert"
    BY <1>7 DEF Upsert
  <2>2. faults' = faults \/ faults' = faults \cup {"dead"}
    BY <1>7 DEF Upsert
  <2>3. job[h].kind \in {"checkout", "updated"} /\ job[h].sub \in Sub
    BY <2>1, KindsOfSteps
  <2>4. StripeFollows
    BY <2>1, <2>2 DEF StripeFollows
  <2>5. "retention" \in StepsOf(job[h].kind)
    BY <2>3, StepsOfKinds
  <2> QED
    BY <1>1, <1>7, <2>3, <2>4, <2>5, UpsertMoves DEF RunMoves
<1>8. CASE SetStatus(h)
  <2>1. UNCHANGED <<stripe, events, twists, faults>> /\ job[h].step = "setStatus" /\ Done(h)
    BY <1>8 DEF SetStatus
  <2>2. job[h].kind = "payment_failed" /\ job[h].sub \in Sub
    BY <2>1, KindsOfSteps
  <2> QED
    BY <2>1, <2>2, JobEnds DEF RunMoves, StripeFollows
<1>9. CASE Revoke(h)
  <2>1. UNCHANGED <<stripe, events, twists, faults>> /\ job[h].step = "revoke"
    BY <1>9 DEF Revoke
  <2>2. job[h].kind \in {"updated", "deleted"} /\ job[h].sub \in Sub
    BY <2>1, KindsOfSteps
  <2>3. "retention" \in StepsOf(job[h].kind)
    BY <2>2, StepsOfKinds
  <2> QED
    BY <1>1, <1>9, <2>1, <2>2, <2>3, RevokeMoves DEF RunMoves, StripeFollows
<1>10. CASE SyncRetention(h)
  <2>1. UNCHANGED <<stripe, events, twists, faults>> /\ job[h].step = "retention" /\ Done(h)
    BY <1>10 DEF SyncRetention
  <2>2. job[h].kind # "none" /\ job[h].sub \in Sub
    BY <2>1, KindsOfSteps
  <2> QED
    BY <2>1, <2>2, JobEnds DEF RunMoves, StripeFollows
<1> QED
  BY <1>2, <1>3, <1>4, <1>5, <1>6, <1>7, <1>8, <1>9, <1>10, <1>11 DEF Step

LEMMA RowFields ==
  ASSUME BillingTypes
  PROVE  row.sub \in 0 .. MaxSubs /\ row.tier \in Tier /\ row.status \in Statuses
BY DEF BillingTypes, Row

\* What the row becomes at each step.
LEMMA RowSteps ==
  ASSUME BillingAssumption, BillingForms, NEW h \in Handlers, Step(h)
  PROVE  /\ row' \in Row /\ (row'.sub = 0 => row'.tier = "growth")
         /\ row'.sub \in {0, row.sub, job[h].sub}
         /\ retention' \in Tier /\ refunded' \in SUBSET Sub /\ unread' \in SUBSET Sub /\ overlap' = overlap
<1> USE DEF BillingForms
<1>1. /\ row \in Row /\ (row.sub = 0 => row.tier = "growth") /\ retention \in Tier
      /\ refunded \in SUBSET Sub /\ unread \in SUBSET Sub
      /\ row.sub \in {0, row.sub, job[h].sub}
  BY DEF BillingTypes
<1>2. CASE UNCHANGED <<row, retention, refunded, unread, overlap>>
  BY <1>1, <1>2
<1>3. CASE RefundDuplicate(h)
  <2> DEFINE m == Min(job[h].duplicates)
  <2>1. /\ UNCHANGED <<row, retention, unread, overlap>> /\ job[h].step = "refund"
        /\ refunded' \in {refunded, refunded \cup {m}}
    BY <1>3 DEF RefundDuplicate
  <2>2. job[h].duplicates # {} /\ job[h].duplicates \subseteq Sub /\ Sub \subseteq Nat
    BY <2>1, KindsOfSteps, JobFields DEF Sub
  <2>3. m \in Sub
    BY <2>2, MinOfNumbers
  <2> QED
    BY <1>1, <2>1, <2>3
<1>4. CASE Upsert(h)
  <2>1. row' = [sub |-> job[h].sub, tier |-> job[h].fresh.tier, status |-> job[h].fresh.status]
        /\ UNCHANGED <<retention, refunded, overlap>> /\ job[h].step = "upsert" /\ unread' \subseteq unread
    BY <1>4 DEF Upsert
  <2>2. job[h].sub \in Sub /\ job[h].sub # 0 /\ job[h].sub \in 0 .. MaxSubs
    BY <2>1, KindsOfSteps DEF Sub, BillingAssumption
  <2>3. job[h].fresh.tier \in Tier /\ job[h].fresh.status \in Statuses
    BY JobFields DEF StripeRecord
  <2>4. row' \in Row /\ row'.sub = job[h].sub
    BY <2>1, <2>2, <2>3 DEF Row
  <2> QED
    BY <1>1, <2>1, <2>2, <2>4
<1>5. CASE SetStatus(h)
  <2>1. row' = [row EXCEPT !.status = job[h].fresh.status] /\ UNCHANGED <<retention, refunded, unread, overlap>>
    BY <1>5 DEF SetStatus
  <2>2. job[h].fresh.status \in Statuses
    BY JobFields DEF StripeRecord
  <2>3. row' \in Row /\ row'.sub = row.sub /\ row'.tier = row.tier
    BY <1>1, <2>1, <2>2 DEF Row
  <2> QED
    BY <1>1, <2>1, <2>3
<1>6. CASE Revoke(h)
  <2>1. row' = [Starter EXCEPT !.sub = LinkKept(h)] /\ UNCHANGED <<retention, refunded, overlap>> /\ unread' \subseteq unread
    BY <1>6 DEF Revoke
  <2>2. LinkKept(h) \in {0, job[h].sub} /\ LinkKept(h) \in 0 .. MaxSubs
    BY JobFields DEF LinkKept, BillingAssumption
  <2>3. Starter \in Row /\ Starter.tier = "growth"
    BY DEF Starter, Row, Tier, Statuses, Live, BillingAssumption
  <2>4. row' \in Row /\ row'.sub = LinkKept(h) /\ row'.tier = "growth"
    BY <2>1, <2>2, <2>3 DEF Row
  <2> QED
    BY <1>1, <2>1, <2>2, <2>4
<1>7. CASE SyncRetention(h)
  <2>1. retention' = job[h].fresh.tier /\ UNCHANGED <<row, refunded, unread, overlap>>
    BY <1>7 DEF SyncRetention
  <2>2. job[h].fresh.tier \in Tier
    BY JobFields DEF StripeRecord
  <2> QED
    BY <1>1, <2>1, <2>2
<1>8. CASE ReadLocal(h) \/ Retrieve(h) \/ ListDuplicates(h) \/ CancelDuplicate(h) \/ Verdict(h)
  BY <1>2, <1>8 DEF ReadLocal, Retrieve, ListDuplicates, CancelDuplicate, Verdict, OnlyJob
<1> QED
  BY <1>3, <1>4, <1>5, <1>6, <1>7, <1>8 DEF Step

\* What a cancel leaves of the types and of what there is.
LEMMA CancelKeeps ==
  ASSUME BillingAssumption, BillingForms, NEW m \in Sub, stripe[m].status # "none", Cancels(m)
  PROVE  /\ stripe' \in [Sub -> StripeRecord] /\ events' \in SUBSET (Kinds \X Sub)
         /\ twists' \in 0 .. MaxTwists /\ faults' \in SUBSET {"run", "cancel", "dead"}
         /\ \A s \in Sub : \/ stripe'[s] = stripe[s]
                           \/ s = m /\ stripe'[s].status = "canceled" /\ stripe'[s].tier = stripe[s].tier
         /\ \A e \in events' : e \in events \/ (e = <<"deleted", m>> /\ stripe'[m].status = "canceled")
<1> USE DEF BillingForms
<1>1. /\ stripe \in [Sub -> StripeRecord] /\ events \in SUBSET (Kinds \X Sub)
      /\ twists \in 0 .. MaxTwists /\ faults \in SUBSET {"run", "cancel", "dead"}
  BY DEF BillingTypes
<1>2. CASE UNCHANGED <<stripe, events, twists, faults>>
  BY <1>1, <1>2
<1>3. CASE /\ stripe' = [stripe EXCEPT ![m].status = "canceled"]
           /\ events' = events \cup {<<"deleted", m>>} /\ UNCHANGED <<twists, faults>>
  <2> DEFINE y == [stripe[m] EXCEPT !.status = "canceled"]
  <2>1. y \in StripeRecord /\ y.status = "canceled" /\ y.tier = stripe[m].tier
    BY <1>1 DEF StripeRecord, Statuses
  <2>2. stripe' = [stripe EXCEPT ![m] = y]
    BY <1>3
  <2> HIDE DEF y
  <2>3. stripe' \in [Sub -> StripeRecord] /\ stripe'[m] = y /\ \A s \in Sub : s # m => stripe'[s] = stripe[s]
    BY <1>1, <2>1, <2>2
  <2>4. <<"deleted", m>> \in Kinds \X Sub
    BY DEF Kinds
  <2> QED
    BY <1>1, <1>3, <2>1, <2>3, <2>4
<1>4. CASE Twist /\ faults' = faults \cup {"cancel"} /\ UNCHANGED <<stripe, events>>
  BY <1>1, <1>4, TwistCounts
<1> QED
  BY <1>2, <1>3, <1>4 DEF Cancels

\* What a step that is no new checkout does to Stripe.
StripeKeeps ==
  /\ stripe' \in [Sub -> StripeRecord]
  /\ \A s \in Sub : /\ stripe'[s].status = "none" <=> stripe[s].status = "none"
                    /\ stripe[s].status = "canceled" => stripe'[s].status = "canceled"
  /\ events' \in SUBSET (Kinds \X Sub)
  /\ \A e \in events' : /\ stripe'[e[2]].status # "none"
                        /\ e[1] = "deleted" => stripe'[e[2]].status = "canceled"

LEMMA StepKeeps ==
  ASSUME BillingAssumption, BillingForms, NEW h \in Handlers, Step(h)
  PROVE  StripeKeeps /\ twists' \in 0 .. MaxTwists /\ faults' \in SUBSET {"run", "cancel", "dead"}
<1> USE DEF BillingForms
<1>1. /\ stripe \in [Sub -> StripeRecord] /\ events \in SUBSET (Kinds \X Sub)
      /\ twists \in 0 .. MaxTwists /\ faults \in SUBSET {"run", "cancel", "dead"}
  BY DEF BillingTypes
<1>2. \A e \in events : /\ stripe[e[2]].status # "none" /\ e[2] \in Sub
                        /\ e[1] = "deleted" => stripe[e[2]].status = "canceled"
  BY <1>1 DEF SubsExist
<1>3. ASSUME UNCHANGED <<stripe, events>> PROVE StripeKeeps
  BY <1>1, <1>2, <1>3 DEF StripeKeeps
<1>4. ASSUME NEW m \in Sub, stripe[m].status # "none", Cancels(m)
      PROVE  StripeKeeps /\ twists' \in 0 .. MaxTwists /\ faults' \in SUBSET {"run", "cancel", "dead"}
  <2>1. \A s \in Sub : /\ stripe'[s].status = "none" <=> stripe[s].status = "none"
                       /\ stripe[s].status = "canceled" => stripe'[s].status = "canceled"
    BY <1>4, CancelKeeps
  <2>2. \A e \in events' : /\ stripe'[e[2]].status # "none"
                           /\ e[1] = "deleted" => stripe'[e[2]].status = "canceled"
    <3> SUFFICES ASSUME NEW e \in events' PROVE /\ stripe'[e[2]].status # "none"
                                                /\ e[1] = "deleted" => stripe'[e[2]].status = "canceled"
      OBVIOUS
    <3>1. CASE e \in events
      BY <1>2, <2>1, <3>1
    <3>2. CASE e = <<"deleted", m>> /\ stripe'[m].status = "canceled"
      BY <3>2
    <3> QED
      BY <1>4, <3>1, <3>2, CancelKeeps
  <2> QED
    BY <1>4, <2>1, <2>2, CancelKeeps DEF StripeKeeps
<1>5. CASE UNCHANGED <<stripe, events, twists, faults>>
  BY <1>1, <1>3, <1>5
<1>6. CASE UNCHANGED <<stripe, events, twists>> /\ faults' = faults \cup {"dead"}
  BY <1>1, <1>3, <1>6
<1> QED
  BY <1>4, <1>5, <1>6, StepMoves DEF StripeFollows

\* What is in order stays in order when no subscription is created.
LEMMA OrderKeeps ==
  ASSUME BillingAssumption, BillingForms, StripeKeeps
  PROVE  \A t \in Sub : stripe'[t].status # "none" => \A s \in 1 .. t - 1 : stripe'[s].status # "none"
<1> SUFFICES ASSUME NEW t \in Sub, stripe'[t].status # "none", NEW s \in 1 .. t - 1
             PROVE  stripe'[s].status # "none"
  OBVIOUS
<1>1. s \in Sub
  BY DEF Sub, BillingAssumption
<1> QED
  BY <1>1 DEF BillingForms, SubsExist, StripeKeeps

\* A step of a run, its failure or its start: the types from what each does.
LEMMA FormsOfRunStep ==
  ASSUME BillingAssumption, BillingForms, NEW h \in Handlers, RunMoves(h), StripeKeeps,
         row' \in Row, row'.sub = 0 => row'.tier = "growth", row'.sub \in {0, row.sub, job[h].sub},
         retention' \in Tier, refunded' \in SUBSET Sub, unread' \in SUBSET Sub, overlap' = overlap,
         twists' \in 0 .. MaxTwists, faults' \in SUBSET {"run", "cancel", "dead"}
  PROVE  BillingForms'
<1> USE DEF BillingForms
<1>1. BillingTypes'
  <2>1. stripe' \in [Sub -> StripeRecord] /\ events' \in SUBSET (Kinds \X Sub)
    BY DEF StripeKeeps
  <2>2. job' \in [Handlers -> JobRecord]
    BY DEF RunMoves, Runs
  <2>3. overlap' \in {"none", "syncs", "runs"}
    BY DEF BillingTypes
  <2> QED
    BY <2>1, <2>2, <2>3 DEF BillingTypes, Kinds, Sub, StripeRecord, JobRecord, Row
<1>2. job[h].sub \in Sub /\ job[h].kind # "none" /\ stripe[job[h].sub].status # "none"
      /\ (job[h].kind = "deleted" => stripe[job[h].sub].status = "canceled")
  BY DEF RunMoves, SubsExist
<1>3. /\ \A s \in Sub : stripe[s].status # "none" => stripe'[s].status # "none"
      /\ \A s \in Sub : stripe[s].status = "canceled" => stripe'[s].status = "canceled"
  BY DEF StripeKeeps
<1>4. /\ JobShape(job'[h])
      /\ job'[h].kind # "none" => stripe'[job'[h].sub].status # "none"
      /\ job'[h].kind = "deleted" => stripe'[job'[h].sub].status = "canceled"
      /\ \A s \in job'[h].duplicates : stripe'[s].status # "none"
  <2>1. CASE Ends(h)
    BY <2>1, NoJobFields DEF Ends
  <2>2. ASSUME NEW step \in StepsOf(job[h].kind), Goes(h, step), step = "refund" => job'[h].duplicates # {},
               \A s \in job'[h].duplicates : s \in Sub /\ stripe[s].status # "none"
        PROVE  /\ JobShape(job'[h])
               /\ job'[h].kind # "none" => stripe'[job'[h].sub].status # "none"
               /\ job'[h].kind = "deleted" => stripe'[job'[h].sub].status = "canceled"
               /\ \A s \in job'[h].duplicates : stripe'[s].status # "none"
    <3>1. job'[h].kind = job[h].kind /\ job'[h].sub = job[h].sub /\ job'[h].step = step
      BY <2>2 DEF Goes
    <3>2. JobShape(job'[h])
      BY <1>2, <2>2, <3>1 DEF JobShape
    <3> QED
      BY <1>2, <1>3, <2>2, <3>1, <3>2
  <2> QED
    BY <2>1, <2>2 DEF RunMoves
<1>5. /\ JobShapes'
      /\ \A g \in Handlers :
           /\ job'[g].kind # "none" => stripe'[job'[g].sub].status # "none"
           /\ job'[g].kind = "deleted" => stripe'[job'[g].sub].status = "canceled"
           /\ \A s \in job'[g].duplicates : stripe'[s].status # "none"
  BY <1>3, <1>4, FormsOfRun DEF RunMoves
<1>6. row'.sub # 0 => stripe'[row'.sub].status # "none"
  <2>1. row.sub # 0 => row.sub \in Sub /\ stripe[row.sub].status # "none"
    BY RowFields DEF SubsExist, Sub, BillingAssumption
  <2> QED
    BY <1>2, <1>3, <2>1
<1>7. SubsExist'
  BY <1>5, <1>6, OrderKeeps DEF SubsExist, StripeKeeps, Sub
<1> QED
  BY <1>1, <1>5, <1>7

LEMMA FormsCheckout ==
  ASSUME BillingAssumption, BillingForms, NEW s \in Sub, NEW tier \in Tier, CheckoutCompletes(s, tier)
  PROVE  BillingForms'
<1> USE DEF BillingForms
<1>1. /\ stripe' = [stripe EXCEPT ![s] = [status |-> "active", tier |-> tier]]
      /\ events' = events \cup {<<"checkout", s>>}
      /\ \A t \in 1 .. s - 1 : stripe[t].status # "none"
      /\ UNCHANGED <<row, retention, job, refunded, twists, faults, unread, overlap>>
  <2>1. {"checkout"} \X {s} = {<<"checkout", s>>}
    OBVIOUS
  <2> QED
    BY <2>1 DEF CheckoutCompletes, StripeSends
<1>2. [status |-> "active", tier |-> tier] \in StripeRecord
  BY DEF StripeRecord, Statuses, Live
<1>3. /\ stripe' \in [Sub -> StripeRecord]
      /\ \A t \in Sub : IF t = s THEN stripe'[t].status = "active" ELSE stripe'[t] = stripe[t]
  BY <1>1, <1>2 DEF BillingTypes
<1>4. <<"checkout", s>> \in Kinds \X Sub
  BY DEF Kinds
<1>5. BillingTypes'
  BY <1>1, <1>3, <1>4 DEF BillingTypes
<1>6. JobShapes'
  BY <1>1 DEF JobShapes, JobShape, StepsOf, NoJob, Absent, Sub
<1>7. stripe[s].status = "none"
  BY DEF CheckoutCompletes
<1>8. \A t \in Sub : /\ stripe[t].status # "none" => stripe'[t].status # "none"
                     /\ stripe[t].status = "canceled" => stripe'[t].status = "canceled"
  BY <1>3, <1>7
<1>9. \A t \in Sub : stripe'[t].status # "none" => \A u \in 1 .. t - 1 : stripe'[u].status # "none"
  <2> SUFFICES ASSUME NEW t \in Sub, stripe'[t].status # "none", NEW u \in 1 .. t - 1
               PROVE  stripe'[u].status # "none"
    OBVIOUS
  <2>1. u \in Sub
    BY DEF Sub, BillingAssumption
  <2>2. stripe[u].status # "none"
    BY <1>1, <1>3 DEF SubsExist
  <2> QED
    BY <1>8, <2>1, <2>2
<1>10. \A e \in events' : /\ stripe'[e[2]].status # "none"
                          /\ e[1] = "deleted" => stripe'[e[2]].status = "canceled"
  <2>1. \A e \in events : e[2] \in Sub
    BY DEF BillingTypes
  <2>2. \A e \in events : /\ stripe'[e[2]].status # "none"
                          /\ e[1] = "deleted" => stripe'[e[2]].status = "canceled"
    BY <1>8, <2>1 DEF SubsExist
  <2>3. <<"checkout", s>>[1] = "checkout" /\ <<"checkout", s>>[2] = s
    OBVIOUS
  <2> QED
    BY <1>1, <1>3, <2>2, <2>3
<1>11. ASSUME NEW h \in Handlers
       PROVE  /\ job[h].kind # "none" => stripe'[job[h].sub].status # "none"
              /\ job[h].kind = "deleted" => stripe'[job[h].sub].status = "canceled"
              /\ \A u \in job[h].duplicates : stripe'[u].status # "none"
  <2>1. (job[h].kind # "none" => job[h].sub \in Sub) /\ job[h].duplicates \subseteq Sub
    BY JobFields, KindsOfSteps
  <2> QED
    BY <1>8, <2>1 DEF SubsExist
<1>12. row.sub # 0 => stripe'[row.sub].status # "none"
  BY <1>8, RowFields DEF SubsExist, Sub, BillingAssumption
<1>13. SubsExist'
  BY <1>1, <1>9, <1>10, <1>11, <1>12 DEF SubsExist, Sub
<1> QED
  BY <1>5, <1>6, <1>13

\* A change at Stripe that leaves the runs and the row alone.
LEMMA FormsOfStripe ==
  ASSUME BillingAssumption, BillingForms, StripeKeeps, twists' \in 0 .. MaxTwists,
         UNCHANGED <<row, retention, job, refunded, faults, unread, overlap>>
  PROVE  BillingForms'
<1> USE DEF BillingForms
<1>1. BillingTypes'
  BY DEF BillingTypes, StripeKeeps
<1>2. JobShapes'
  BY DEF JobShapes, JobShape, StepsOf, NoJob, Absent, Sub
<1>3. ASSUME NEW h \in Handlers
       PROVE  /\ job[h].kind # "none" => stripe'[job[h].sub].status # "none"
              /\ job[h].kind = "deleted" => stripe'[job[h].sub].status = "canceled"
              /\ \A u \in job[h].duplicates : stripe'[u].status # "none"
  <2>1. (job[h].kind # "none" => job[h].sub \in Sub) /\ job[h].duplicates \subseteq Sub
    BY JobFields, KindsOfSteps
  <2> QED
    BY <2>1 DEF SubsExist, StripeKeeps
<1>4. row.sub # 0 => stripe'[row.sub].status # "none"
  BY RowFields DEF SubsExist, Sub, BillingAssumption, StripeKeeps
<1>5. SubsExist'
  BY <1>3, <1>4, OrderKeeps DEF SubsExist, Sub, StripeKeeps
<1> QED
  BY <1>1, <1>2, <1>5

LEMMA StripeMovesKeep ==
  ASSUME BillingAssumption, BillingForms, NEW s \in Sub, StripeMoves(s)
  PROVE  /\ StripeKeeps /\ twists' \in 0 .. MaxTwists
         /\ UNCHANGED <<row, retention, job, refunded, faults, unread, overlap>>
         /\ \A t \in Sub : t # s => stripe'[t] = stripe[t]
         /\ stripe[s].status \in Live
         /\ events \subseteq events' /\ (<<"updated", s>> \in events' \/ <<"deleted", s>> \in events')
<1> USE DEF BillingForms
<1>1. PICK status \in Live \cup {"canceled"}, tier \in Tier,
           kinds \in SUBSET {"updated", "payment_failed", "deleted"} :
        /\ stripe[s].status \in Live
        /\ stripe' = [stripe EXCEPT ![s] = [status |-> status, tier |-> tier]]
        /\ events' = events \cup (kinds \X {s})
        /\ "updated" \in kinds \/ "deleted" \in kinds
        /\ "deleted" \in kinds => status = "canceled"
  BY DEF StripeMoves
<1>2. twists' \in 0 .. MaxTwists /\ UNCHANGED <<row, retention, job, refunded, faults, unread, overlap>>
  BY TwistCounts DEF StripeMoves
<1>3. [status |-> status, tier |-> tier] \in StripeRecord
  BY DEF StripeRecord, Statuses
<1>4. /\ stripe' \in [Sub -> StripeRecord] /\ stripe'[s].status = status
      /\ \A t \in Sub : t # s => stripe'[t] = stripe[t]
  BY <1>1, <1>3 DEF BillingTypes
<1>5. status # "none" /\ stripe[s].status # "none" /\ stripe[s].status # "canceled"
  BY <1>1 DEF Live
<1>6. \A t \in Sub : /\ stripe'[t].status = "none" <=> stripe[t].status = "none"
                     /\ stripe[t].status = "canceled" => stripe'[t].status = "canceled"
  BY <1>4, <1>5
<1>7. events' \in SUBSET (Kinds \X Sub)
  <2>1. kinds \X {s} \subseteq Kinds \X Sub
    BY DEF Kinds
  <2> QED
    BY <1>1, <2>1 DEF BillingTypes
<1>8. \A e \in events' : /\ stripe'[e[2]].status # "none"
                         /\ e[1] = "deleted" => stripe'[e[2]].status = "canceled"
  <2>1. \A e \in events : e[2] \in Sub
    BY DEF BillingTypes
  <2>2. \A e \in events : /\ stripe'[e[2]].status # "none"
                          /\ e[1] = "deleted" => stripe'[e[2]].status = "canceled"
    BY <1>6, <2>1 DEF SubsExist
  <2>3. \A e \in kinds \X {s} : e[1] \in kinds /\ e[2] = s
    OBVIOUS
  <2>4. \A e \in kinds \X {s} : /\ stripe'[e[2]].status # "none"
                                /\ e[1] = "deleted" => stripe'[e[2]].status = "canceled"
    BY <1>1, <1>4, <1>5, <2>3
  <2> QED
    BY <1>1, <2>2, <2>4
<1>9. events \subseteq events' /\ (<<"updated", s>> \in events' \/ <<"deleted", s>> \in events')
  BY <1>1
<1> QED
  BY <1>1, <1>2, <1>4, <1>6, <1>7, <1>8, <1>9 DEF StripeKeeps

\* A run that starts is of a subscription there is.
LEMMA FormsStart ==
  ASSUME BillingAssumption, BillingForms, NEW h \in Handlers, NEW kind \in Kinds, NEW s \in Sub,
         NEW own \in BOOLEAN, Start(h, kind, s, own), stripe[s].status # "none",
         kind = "deleted" => stripe[s].status = "canceled",
         events' \in SUBSET events, twists' \in 0 .. MaxTwists
  PROVE  BillingForms'
<1> USE DEF BillingForms
<1>1. /\ UNCHANGED <<stripe, row, retention, refunded, faults, unread>>
      /\ Runs /\ OthersStay(h)
      /\ job'[h].kind = kind /\ job'[h].sub = s /\ job'[h].step = FirstStep(kind) /\ job'[h].duplicates = {}
      /\ overlap' \in {"none", "syncs", "runs"}
  BY StartMoves DEF Start
<1>2. events' \in SUBSET (Kinds \X Sub)
  BY DEF BillingTypes
<1>3. BillingTypes'
  BY <1>1, <1>2 DEF BillingTypes, Runs
<1>4. FirstStep(kind) \in StepsOf(kind)
  BY StepsOfKinds DEF FirstStep, Kinds
<1>5. JobShape(job'[h])
  BY <1>1, <1>4 DEF JobShape, Kinds, FirstStep
<1>6. /\ JobShapes'
      /\ \A g \in Handlers :
           /\ job'[g].kind # "none" => stripe'[job'[g].sub].status # "none"
           /\ job'[g].kind = "deleted" => stripe'[job'[g].sub].status = "canceled"
           /\ \A u \in job'[g].duplicates : stripe'[u].status # "none"
  BY <1>1, <1>5, FormsOfRun
<1>7. SubsExist'
  BY <1>1, <1>6 DEF SubsExist, Sub
<1> QED
  BY <1>3, <1>6, <1>7

LEMMA FormsDeliver ==
  ASSUME BillingAssumption, BillingForms, NEW h \in Handlers, NEW e \in events, Deliver(h, e)
  PROVE  /\ BillingForms'
         /\ e[1] \in Kinds /\ e[2] \in Sub /\ e = <<e[1], e[2]>> /\ Start(h, e[1], e[2], FALSE)
         /\ events' = events \ {e}
<1> USE DEF BillingForms
<1>1. e[1] \in Kinds /\ e[2] \in Sub /\ e = <<e[1], e[2]>>
  BY DEF BillingTypes
<1>2. Start(h, e[1], e[2], FALSE) /\ events' = events \ {e} /\ twists' = twists
  BY DEF Deliver
<1>3. /\ stripe[e[2]].status # "none"
      /\ e[1] = "deleted" => stripe[e[2]].status = "canceled"
  BY DEF SubsExist
<1>4. twists' \in 0 .. MaxTwists /\ events' \in SUBSET events
  BY <1>2 DEF BillingTypes
<1> QED
  BY <1>1, <1>2, <1>3, <1>4, FormsStart

LEMMA FormsUserRuns ==
  ASSUME BillingAssumption, BillingForms, NEW h \in Handlers, NEW s \in Sub,
         NEW kind \in {"checkout", "updated"}, UserSyncs(h, s, kind)
  PROVE  BillingForms' /\ Start(h, kind, s, TRUE) /\ events' = events /\ kind \in Kinds
<1> USE DEF BillingForms
<1>1. stripe[s].status # "none" /\ Start(h, kind, s, TRUE) /\ events' = events /\ kind \in Kinds
  BY DEF UserSyncs, Kinds
<1>2. twists' \in 0 .. MaxTwists
  BY TwistCounts DEF UserSyncs
<1> QED
  BY <1>1, <1>2, FormsStart

\* What the failure of a run leaves.
LEMMA FormsRunFails ==
  ASSUME BillingAssumption, BillingForms, NEW h \in Handlers, RunFails(h)
  PROVE  /\ BillingForms'
         /\ RunMoves(h) /\ Ends(h) /\ UNCHANGED <<stripe, row, retention, refunded, unread, overlap>>
         /\ faults' = faults \cup {"run"}
         /\ events \subseteq events'
         /\ ~job[h].own => <<job[h].kind, job[h].sub>> \in events'
<1> USE DEF BillingForms
<1>1. /\ UNCHANGED <<stripe, row, retention, refunded, unread, overlap>> /\ faults' = faults \cup {"run"}
      /\ events' = (IF job[h].own THEN events ELSE events \cup {<<job[h].kind, job[h].sub>>})
      /\ job[h].kind # "none"
  BY DEF RunFails, Running
<1>2. job[h].sub \in Sub /\ job[h].kind \in Kinds
  BY <1>1, KindsOfSteps, JobFields
<1>3. Runs /\ OthersStay(h) /\ Ends(h)
  BY JobEnds DEF RunFails
<1>4. RunMoves(h)
  BY <1>1, <1>2, <1>3 DEF RunMoves
<1>5. <<job[h].kind, job[h].sub>> \in Kinds \X Sub
  BY <1>2
<1>6. events' \in SUBSET (Kinds \X Sub)
  BY <1>1, <1>5 DEF BillingTypes
<1>7. \A e \in events' : /\ stripe[e[2]].status # "none"
                         /\ e[1] = "deleted" => stripe[e[2]].status = "canceled"
  <2>1. \A e \in events : /\ stripe[e[2]].status # "none"
                          /\ e[1] = "deleted" => stripe[e[2]].status = "canceled"
    BY DEF SubsExist
  <2>2. /\ stripe[job[h].sub].status # "none"
        /\ job[h].kind = "deleted" => stripe[job[h].sub].status = "canceled"
    BY <1>1 DEF SubsExist
  <2>3. <<job[h].kind, job[h].sub>>[1] = job[h].kind /\ <<job[h].kind, job[h].sub>>[2] = job[h].sub
    OBVIOUS
  <2> QED
    BY <1>1, <2>1, <2>2, <2>3
<1>8. StripeKeeps
  BY <1>1, <1>6, <1>7 DEF StripeKeeps, BillingTypes
<1>9. twists' \in 0 .. MaxTwists
  BY TwistCounts DEF RunFails
<1>10. faults' \in SUBSET {"run", "cancel", "dead"}
  BY <1>1 DEF BillingTypes
<1>11. BillingForms'
  BY <1>1, <1>4, <1>8, <1>9, <1>10, FormsOfRunStep DEF BillingTypes
<1> QED
  BY <1>1, <1>3, <1>4, <1>11

\* What a swallowed error leaves.
LEMMA FormsSwallowed ==
  ASSUME BillingAssumption, BillingForms, NEW h \in Handlers, Swallowed(h)
  PROVE  /\ BillingForms' /\ RunMoves(h) /\ Ends(h)
         /\ UNCHANGED <<stripe, events, row, retention, refunded, faults, overlap>>
         /\ \/ job[h].step = "setStatus" /\ job[h].kind = "payment_failed" /\ unread' = unread
            \/ /\ job[h].step = "read"
               /\ unread' = IF job[h].own \/ job[h].kind = "payment_failed" THEN unread
                            ELSE unread \cup {job[h].sub}
<1> USE DEF BillingForms
<1>1. /\ Runs /\ OthersStay(h) /\ Ends(h) /\ Twist
      /\ UNCHANGED <<stripe, events, row, retention, refunded, faults, overlap>>
      /\ \/ job[h].step = "setStatus" /\ unread' = unread
         \/ /\ job[h].step = "read"
            /\ unread' = IF job[h].own \/ job[h].kind = "payment_failed" THEN unread
                         ELSE unread \cup {job[h].sub}
  BY SwallowedMoves
<1>2. job[h].kind # "none" /\ job[h].sub \in Sub /\ (job[h].step = "setStatus" => job[h].kind = "payment_failed")
  BY <1>1, KindsOfSteps
<1>3. RunMoves(h)
  BY <1>1, <1>2 DEF RunMoves
<1>4. StripeKeeps
  BY <1>1 DEF StripeKeeps, BillingTypes, SubsExist
<1>5. twists' \in 0 .. MaxTwists
  BY <1>1, TwistCounts
<1>6. unread' \in SUBSET Sub
  BY <1>1, <1>2 DEF BillingTypes
<1>7. BillingForms'
  BY <1>1, <1>3, <1>4, <1>5, <1>6, FormsOfRunStep DEF BillingTypes
<1> QED
  BY <1>1, <1>2, <1>3, <1>7

LEMMA FormsRedelivered ==
  ASSUME BillingAssumption, BillingForms, NEW s \in Sub, NEW kind \in {"checkout", "updated", "deleted"},
         Redelivered(s, kind)
  PROVE  /\ BillingForms' /\ events \subseteq events'
         /\ UNCHANGED <<stripe, row, retention, job, refunded, faults, unread, overlap>>
<1> USE DEF BillingForms
<1>1. /\ stripe[s].status # "none" /\ (kind = "deleted" => stripe[s].status = "canceled")
      /\ events' = events \cup {<<kind, s>>}
      /\ UNCHANGED <<stripe, row, retention, job, refunded, faults, unread, overlap>>
  BY DEF Redelivered
<1>2. <<kind, s>> \in Kinds \X Sub
  BY DEF Kinds
<1>3. events' \in SUBSET (Kinds \X Sub)
  BY <1>1, <1>2 DEF BillingTypes
<1>4. \A e \in events' : /\ stripe[e[2]].status # "none"
                         /\ e[1] = "deleted" => stripe[e[2]].status = "canceled"
  <2>1. <<kind, s>>[1] = kind /\ <<kind, s>>[2] = s
    OBVIOUS
  <2> QED
    BY <1>1, <2>1 DEF SubsExist
<1>5. StripeKeeps
  BY <1>1, <1>3, <1>4 DEF StripeKeeps, BillingTypes
<1>6. twists' \in 0 .. MaxTwists
  BY TwistCounts DEF Redelivered
<1>7. BillingForms'
  BY <1>1, <1>5, <1>6, FormsOfStripe
<1> QED
  BY <1>1, <1>7

LEMMA BillingFormsStep ==
  ASSUME BillingAssumption, BillingForms, [Next]_vars
  PROVE  BillingForms'
<1>1. ASSUME NEW s \in Sub, StripeMoves(s) PROVE BillingForms'
  BY <1>1, StripeMovesKeep, FormsOfStripe
<1>2. ASSUME NEW h \in Handlers, Step(h) PROVE BillingForms'
  BY <1>2, StepMoves, StepKeeps, RowSteps, FormsOfRunStep
<1>3. CASE UNCHANGED vars
  BY <1>3 DEF vars, BillingForms, BillingTypes, JobShapes, JobShape, SubsExist, StepsOf, NoJob, Absent, Sub,
              Kinds, StripeRecord, JobRecord, Row
<1> QED
  BY <1>1, <1>2, <1>3, BillingSteps, FormsCheckout, FormsDeliver, FormsRunFails, FormsSwallowed, FormsUserRuns,
     FormsRedelivered
     DEF BillingForms, UserRuns, EventsAgain

-----------------------------------------------------------------------------
(* One live subscription.                                                  *)

BothLive(s, t) == "cancel" \notin faults /\ stripe[s].status \in Live /\ stripe[t].status \in Live

InHand(t) == <<"checkout", t>> \in events \/ \E h \in Handlers : Resolving(h, t)

\* A run in hand that is not the one that steps stays in hand.
LEMMA ResolvingStays ==
  ASSUME NEW h \in Handlers, NEW g \in Handlers, g # h, OthersStay(h), NEW t \in Sub, Resolving(g, t)
  PROVE  Resolving(g, t)'
<1>1. job'[g] = job[g]
  BY DEF OthersStay
<1> QED
  BY <1>1 DEF Resolving

\* What a step of the run that resolves t leaves of it.
LEMMA ResolvingSteps ==
  ASSUME BillingAssumption, BillingForms, NEW h \in Handlers, Step(h),
         NEW t \in Sub, NEW s \in 1 .. t - 1, Resolving(h, t), BothLive(s, t), BothLive(s, t)'
  PROVE  Resolving(h, t)'
<1> USE DEF BillingForms
<1>1. /\ job[h].kind = "checkout" /\ job[h].sub = t /\ ~job[h].own
      /\ \/ job[h].step \in {"retrieve", "list"}
         \/ job[h].step = "cancel" /\ t \in job[h].duplicates
         \/ job[h].step = "refund" /\ t \in job[h].duplicates \ {Min(job[h].duplicates)}
  BY DEF Resolving
<1>2. ASSUME NEW step, Goes(h, step),
             \/ step = "list"
             \/ step = "cancel" /\ t \in job'[h].duplicates
             \/ step = "refund" /\ t \in job'[h].duplicates \ {Min(job'[h].duplicates)}
      PROVE  Resolving(h, t)'
  BY <1>1, <1>2 DEF Goes, Resolving
<1>3. CASE Retrieve(h)
  BY <1>1, <1>2, <1>3, RetrieveMoves DEF AfterRetrieve
<1>4. CASE ListDuplicates(h)
  BY <1>2, <1>4, ListDuplicatesMoves DEF BothLive
<1>5. CASE CancelDuplicate(h)
  <2>1. PICK m \in job[h].duplicates : m = Min(job[h].duplicates) /\ m \in Sub /\ Cancels(m)
    BY <1>5, CancelMoves
  <2>2. job[h].step = "cancel" /\ t \in job[h].duplicates
    BY <1>1, <1>5 DEF CancelDuplicate
  <2>3. m # t
    <3> SUFFICES ASSUME m = t PROVE FALSE
      OBVIOUS
    <3>1. stripe[t].status \in Live /\ stripe'[t].status \in Live /\ "cancel" \notin faults'
      BY DEF BothLive
    <3>2. CASE stripe[m].status = "canceled"
      BY <3>1, <3>2 DEF Live
    <3>3. CASE stripe' = [stripe EXCEPT ![m].status = "canceled"]
      <4>1. stripe'[m].status = "canceled"
        BY <2>1, <3>3 DEF BillingTypes, StripeRecord
      <4> QED
        BY <3>1, <4>1 DEF Live
    <3>4. CASE faults' = faults \cup {"cancel"}
      BY <3>1, <3>4
    <3> QED
      BY <2>1, <3>2, <3>3, <3>4 DEF Cancels
  <2>4. t \in job'[h].duplicates \ {Min(job'[h].duplicates)}
    BY <1>5, <2>1, <2>2, <2>3, CancelMoves
  <2> QED
    BY <1>2, <1>5, <2>4, CancelMoves
<1>8. CASE RefundDuplicate(h)
  <2>1. job[h].step = "refund"
    BY <1>8 DEF RefundDuplicate
  <2>2. t \in job'[h].duplicates
    BY <1>1, <1>8, <2>1, RefundMoves
  <2> QED
    BY <1>2, <1>8, <2>2, RefundMoves
<1>6. CASE Verdict(h)
  BY <1>1, <1>6 DEF Verdict
<1>7. CASE ReadLocal(h) \/ Upsert(h) \/ SetStatus(h) \/ Revoke(h) \/ SyncRetention(h)
  BY <1>1, <1>7 DEF ReadLocal, Upsert, SetStatus, Revoke, SyncRetention
<1> QED
  BY <1>3, <1>4, <1>5, <1>6, <1>7, <1>8 DEF Step

\* No step of a run makes a subscription live or takes back a lost cancel.
LEMMA StepLeavesDead ==
  ASSUME BillingAssumption, BillingForms, NEW h \in Handlers, Step(h),
         NEW s \in Sub, NEW t \in Sub, BothLive(s, t)'
  PROVE  BothLive(s, t) /\ events \subseteq events'
<1>1. CASE UNCHANGED <<stripe, events, twists, faults>>
  BY <1>1 DEF BothLive, Live
<1>2. CASE UNCHANGED <<stripe, events, twists>> /\ faults' = faults \cup {"dead"}
  BY <1>2 DEF BothLive, Live
<1>3. ASSUME NEW m \in Sub, stripe[m].status # "none", Cancels(m) PROVE BothLive(s, t) /\ events \subseteq events'
  <2>1. \A u \in Sub : stripe'[u] = stripe[u] \/ stripe'[u].status = "canceled"
    BY <1>3, CancelKeeps
  <2>2. faults \subseteq faults' /\ events \subseteq events'
    BY <1>3 DEF Cancels
  <2> QED
    BY <2>1, <2>2 DEF BothLive, Live
<1> QED
  BY <1>1, <1>2, <1>3, StepMoves DEF StripeFollows

LEMMA ResolvedStep ==
  ASSUME BillingAssumption, BillingForms, DuplicatesAreResolved, [Next]_vars
  PROVE  DuplicatesAreResolved'
<1> USE DEF BillingForms
<1> SUFFICES ASSUME NEW t \in Sub, NEW s \in 1 .. t - 1, BothLive(s, t)' PROVE InHand(t)'
  BY DEF DuplicatesAreResolved, BothLive, InHand, Sub, Live
<1>1. s \in Sub /\ s # t
  BY DEF Sub, BillingAssumption
<1>2. BothLive(s, t) => InHand(t)
  BY DEF DuplicatesAreResolved, BothLive, InHand
<1>3. ASSUME BothLive(s, t), events \subseteq events', job' = job PROVE InHand(t)'
  BY <1>2, <1>3 DEF InHand, Resolving
<1>4. ASSUME NEW u \in Sub, NEW tier \in Tier, CheckoutCompletes(u, tier) PROVE InHand(t)'
  <2>1. /\ stripe' = [stripe EXCEPT ![u] = [status |-> "active", tier |-> tier]]
        /\ events' = events \cup ({"checkout"} \X {u}) /\ UNCHANGED <<job, faults>>
        /\ stripe[u].status = "none"
    BY <1>4 DEF CheckoutCompletes, StripeSends
  <2>2. CASE u = t
    BY <2>1, <2>2 DEF InHand
  <2>3. CASE u # t
    <3>1. stripe'[t] = stripe[t] /\ stripe[t].status \in Live
      BY <2>1, <2>3 DEF BillingTypes, BothLive, Live
    <3>2. stripe[s].status # "none"
      BY <3>1 DEF SubsExist, Live
    <3>3. stripe'[s] = stripe[s]
      BY <1>1, <2>1, <3>2 DEF BillingTypes
    <3>4. BothLive(s, t)
      BY <2>1, <3>1, <3>3 DEF BothLive, Live
    <3> QED
      BY <1>3, <2>1, <3>4
  <2> QED
    BY <2>2, <2>3
<1>5. ASSUME NEW u \in Sub, StripeMoves(u) PROVE InHand(t)'
  <2>1. /\ \A v \in Sub : v # u => stripe'[v] = stripe[v]
        /\ stripe[u].status \in Live /\ events \subseteq events' /\ UNCHANGED <<job, faults>>
    BY <1>5, StripeMovesKeep
  <2>2. BothLive(s, t)
    BY <1>1, <2>1 DEF BothLive, Live
  <2> QED
    BY <1>3, <2>1, <2>2
<1>6. ASSUME NEW h \in Handlers, NEW e \in events, Deliver(h, e) PROVE InHand(t)'
  <2>1. /\ e[1] \in Kinds /\ e[2] \in Sub /\ e = <<e[1], e[2]>> /\ Start(h, e[1], e[2], FALSE)
        /\ events' = events \ {e}
    BY <1>6, FormsDeliver
  <2>2. /\ OthersStay(h) /\ job[h].kind = "none" /\ job'[h].kind = e[1] /\ job'[h].sub = e[2]
        /\ job'[h].own = FALSE /\ job'[h].step = FirstStep(e[1])
    BY <2>1, StartMoves
  <2>3. BothLive(s, t)
    BY <2>1 DEF Start, BothLive, Live
  <2>4. CASE e = <<"checkout", t>>
    <3>1. e[1] = "checkout" /\ e[2] = t
      BY <2>4
    <3> QED
      BY <2>2, <3>1 DEF InHand, Resolving, FirstStep
  <2>5. CASE e # <<"checkout", t>> /\ <<"checkout", t>> \in events
    BY <2>1, <2>5 DEF InHand
  <2>6. ASSUME NEW g \in Handlers, Resolving(g, t) PROVE InHand(t)'
    <3>1. g # h
      BY <2>2, <2>6 DEF Resolving
    <3> QED
      BY <2>2, <2>6, <3>1, ResolvingStays DEF InHand
  <2> QED
    BY <1>2, <2>3, <2>4, <2>5, <2>6 DEF InHand
<1>7. ASSUME NEW h \in Handlers, Step(h) PROVE InHand(t)'
  <2>1. BothLive(s, t) /\ events \subseteq events'
    BY <1>1, <1>7, StepLeavesDead
  <2>2. CASE <<"checkout", t>> \in events
    BY <2>1, <2>2 DEF InHand
  <2>3. ASSUME NEW g \in Handlers, Resolving(g, t) PROVE InHand(t)'
    <3>1. CASE g = h
      <4>1. Resolving(h, t)'
        BY <1>7, <2>1, <2>3, <3>1, ResolvingSteps
      <4> QED
        BY <4>1 DEF InHand
    <3>2. CASE g # h
      <4>1. OthersStay(h)
        BY <1>7, StepMoves DEF RunMoves
      <4> QED
        BY <2>3, <3>2, <4>1, ResolvingStays DEF InHand
    <3> QED
      BY <3>1, <3>2
  <2> QED
    BY <1>2, <2>1, <2>2, <2>3 DEF InHand
<1>8. ASSUME NEW h \in Handlers, RunFails(h) PROVE InHand(t)'
  <2>1. /\ OthersStay(h) /\ stripe' = stripe /\ faults' = faults \cup {"run"} /\ events \subseteq events'
        /\ ~job[h].own => <<job[h].kind, job[h].sub>> \in events'
    BY <1>8, FormsRunFails DEF RunMoves
  <2>2. BothLive(s, t)
    BY <2>1 DEF BothLive, Live
  <2>3. CASE <<"checkout", t>> \in events
    BY <2>1, <2>3 DEF InHand
  <2>4. ASSUME NEW g \in Handlers, Resolving(g, t) PROVE InHand(t)'
    <3>1. CASE g = h
      BY <2>1, <2>4, <3>1 DEF Resolving, InHand
    <3>2. CASE g # h
      BY <2>1, <2>4, <3>2, ResolvingStays DEF InHand
    <3> QED
      BY <3>1, <3>2
  <2> QED
    BY <1>2, <2>2, <2>3, <2>4 DEF InHand
<1>9. ASSUME NEW h \in Handlers, NEW u \in Sub, NEW kind \in {"checkout", "updated"}, UserSyncs(h, u, kind)
      PROVE  InHand(t)'
  <2>1. Start(h, kind, u, TRUE) /\ events' = events /\ kind \in Kinds
    BY <1>9, FormsUserRuns
  <2>2. OthersStay(h) /\ job[h].kind = "none"
    BY <2>1, StartMoves
  <2>3. BothLive(s, t)
    BY <2>1 DEF Start, BothLive, Live
  <2>4. ASSUME NEW g \in Handlers, Resolving(g, t) PROVE InHand(t)'
    <3>1. g # h
      BY <2>2, <2>4 DEF Resolving
    <3> QED
      BY <2>2, <2>4, <3>1, ResolvingStays DEF InHand
  <2> QED
    BY <1>2, <2>1, <2>3, <2>4 DEF InHand
<1>10. ASSUME NEW u \in Sub, NEW kind \in {"checkout", "updated", "deleted"}, Redelivered(u, kind)
       PROVE  InHand(t)'
  BY <1>3, <1>10, FormsRedelivered DEF BothLive, Live
<1>11. CASE UNCHANGED vars
  BY <1>3, <1>11 DEF vars, BothLive, Live
<1>12. ASSUME NEW h \in Handlers, Swallowed(h) PROVE InHand(t)'
  <2>1. /\ OthersStay(h) /\ UNCHANGED <<stripe, events, faults>> /\ job[h].step \in {"read", "setStatus"}
    BY <1>12, FormsSwallowed DEF RunMoves
  <2>2. BothLive(s, t)
    BY <2>1 DEF BothLive, Live
  <2>3. CASE <<"checkout", t>> \in events
    BY <2>1, <2>3 DEF InHand
  <2>4. ASSUME NEW g \in Handlers, Resolving(g, t) PROVE InHand(t)'
    <3>1. g # h
      BY <2>1, <2>4 DEF Resolving
    <3> QED
      BY <2>1, <2>4, <3>1, ResolvingStays DEF InHand
  <2> QED
    BY <1>2, <2>2, <2>3, <2>4 DEF InHand
<1> QED
  BY <1>4, <1>5, <1>6, <1>7, <1>8, <1>9, <1>10, <1>11, <1>12, BillingSteps DEF UserRuns, EventsAgain

-----------------------------------------------------------------------------
(* The row and the retention, while runs do not overlap.                   *)

\* The part of RetentionIsFollowed about one run.
RetentionOfRun(h) ==
  /\ job[h].step = "retention" => job[h].fresh.tier = row.tier
  /\ job[h].step # "retention" => retention = row.tier
  /\ job[h].kind \in {"updated", "deleted"} /\ job[h].step \in {"retrieve", "upsert", "revoke"} =>
       job[h].tier = row.tier

\* No step takes back an overlap.
LEMMA OverlapStays ==
  ASSUME BillingAssumption, BillingForms, [Next]_vars, overlap' = "none"
  PROVE  overlap = "none"
<1> USE DEF BillingForms
<1>1. ASSUME NEW s \in Sub, NEW tier \in Tier, CheckoutCompletes(s, tier) PROVE overlap = "none"
  BY <1>1 DEF CheckoutCompletes, StripeSends
<1>2. ASSUME NEW s \in Sub, StripeMoves(s) PROVE overlap = "none"
  BY <1>2, StripeMovesKeep
<1>3. ASSUME NEW h \in Handlers, NEW e \in events, Deliver(h, e) PROVE overlap = "none"
  <2>1. e[1] \in Kinds /\ e[2] \in Sub /\ Start(h, e[1], e[2], FALSE)
    BY <1>3, FormsDeliver
  <2> QED
    BY <2>1, StartMoves
<1>4. ASSUME NEW h \in Handlers, Step(h) PROVE overlap = "none"
  BY <1>4, RowSteps
<1>5. ASSUME NEW h \in Handlers, RunFails(h) PROVE overlap = "none"
  BY <1>5, FormsRunFails
<1>6. ASSUME NEW h \in Handlers, NEW u \in Sub, NEW kind \in {"checkout", "updated"}, UserSyncs(h, u, kind)
      PROVE  overlap = "none"
  <2>1. kind \in Kinds /\ Start(h, kind, u, TRUE)
    BY <1>6, FormsUserRuns
  <2> QED
    BY <2>1, StartMoves
<1>7. ASSUME NEW u \in Sub, NEW kind \in {"checkout", "updated", "deleted"}, Redelivered(u, kind)
      PROVE  overlap = "none"
  BY <1>7, FormsRedelivered
<1>8. CASE UNCHANGED vars
  BY <1>8 DEF vars
<1>9. ASSUME NEW h \in Handlers, Swallowed(h) PROVE overlap = "none"
  BY <1>9, FormsSwallowed
<1> QED
  BY <1>1, <1>2, <1>3, <1>4, <1>5, <1>6, <1>7, <1>8, <1>9, BillingSteps DEF UserRuns, EventsAgain

\* With no other run, what holds of the run that steps is all there is to show.
LEMMA AloneByRun ==
  ASSUME BillingAssumption, NEW h \in Handlers, \A g \in Handlers \ {h} : job'[g] = NoJob,
         RunIsKnown(h)', RowIsFollowed', "run" \notin faults' => RetentionOfRun(h)'
  PROVE  HandledAlone'
<1>1. \A g \in Handlers \ {h} : job'[g].kind = "none" /\ job'[g].step = "none"
  BY NoJobFields
<1>2. OneAtATime'
  BY <1>1 DEF OneAtATime
<1>3. \A g \in Handlers : RunIsKnown(g)'
  BY <1>1 DEF RunIsKnown, FreshIsKnown, SeenOfStripe, RowIsOfRun
<1>4. "run" \notin faults' => RetentionIsFollowed'
  BY <1>1 DEF RetentionIsFollowed, RetentionOfRun
<1> QED
  BY <1>2, <1>3, <1>4 DEF HandledAlone

LEMMA OthersRest ==
  ASSUME BillingAssumption, BillingForms, OneAtATime, NEW h \in Handlers, RunMoves(h)
  PROVE  \A g \in Handlers \ {h} : job[g] = NoJob /\ job'[g] = NoJob
<1>1. \A g \in Handlers \ {h} : job'[g] = job[g] /\ job[g].kind = "none"
  BY DEF OneAtATime, RunMoves, OthersStay
<1> QED
  BY <1>1, KindsOfSteps DEF BillingForms

\* A change at Stripe or an event sent again.
LEMMA AloneAtStripe ==
  ASSUME BillingAssumption, BillingForms, HandledAlone,
         UNCHANGED <<row, retention, job, faults, unread>>, events \subseteq events',
         \A s \in Sub : stripe[s].status # "none" => stripe'[s] = stripe[s] \/ Announced(s)'
  PROVE  HandledAlone'
<1> USE DEF BillingForms
<1>1. \A s \in Sub : Announced(s) => Announced(s)'
  BY DEF Announced
<1>2. ASSUME NEW h \in Handlers PROVE RunIsKnown(h)'
  <2>1. job[h].kind # "none" => job[h].sub \in Sub /\ stripe[job[h].sub].status # "none"
    BY KindsOfSteps DEF SubsExist
  <2>2. job[h].step # "none" => job[h].kind # "none"
    BY KindsOfSteps
  <2>3. FreshIsKnown(h)'
    BY <1>1, <2>1, <2>2 DEF HandledAlone, RunIsKnown, FreshIsKnown, Announced
  <2> QED
    BY <2>3 DEF HandledAlone, RunIsKnown, SeenOfStripe, RowIsOfRun
<1>3. RowIsFollowed'
  <2> SUFFICES ASSUME row.sub # 0, row.sub \notin unread
               PROVE  \/ EntitledTier = PaidTier(row.sub)' \/ Announced(row.sub)'
                      \/ \E h \in Handlers : Updating(h, row.sub)
    BY DEF RowIsFollowed, EntitledTier, Updating
  <2>1. row.sub \in Sub /\ stripe[row.sub].status # "none"
    BY RowFields DEF SubsExist, Sub, BillingAssumption
  <2>2. stripe'[row.sub] = stripe[row.sub] \/ Announced(row.sub)'
    BY <2>1
  <2>3. CASE stripe'[row.sub] = stripe[row.sub]
    BY <1>1, <2>1, <2>3 DEF HandledAlone, RowIsFollowed, PaidTier
  <2> QED
    BY <2>2, <2>3
<1>4. OneAtATime' /\ ("run" \notin faults' => RetentionIsFollowed')
  BY DEF HandledAlone, OneAtATime, RetentionIsFollowed
<1> QED
  BY <1>2, <1>3, <1>4 DEF HandledAlone

\* A run starts when there is none.
LEMMA AloneStart ==
  ASSUME BillingAssumption, BillingForms, HandledAlone,
         NEW h \in Handlers, NEW kind \in Kinds, NEW s \in Sub, NEW own \in BOOLEAN,
         Start(h, kind, s, own), overlap' = "none",
         events' = events \/ (events' = events \ {<<kind, s>>} /\ ~own)
  PROVE  HandledAlone'
<1> USE DEF BillingForms
<1>1. /\ OthersStay(h) /\ job'[h].kind = kind /\ job'[h].sub = s /\ job'[h].own = own
      /\ job'[h].step = FirstStep(kind) /\ \A g \in Handlers : job[g].kind = "none"
  BY StartMoves
<1>2. UNCHANGED <<stripe, row, retention, faults, unread>>
  BY DEF Start
<1>3. \A g \in Handlers : job[g] = NoJob /\ job[g].step = "none"
  BY <1>1, KindsOfSteps, NoJobFields
<1>4. \A g \in Handlers \ {h} : job'[g] = NoJob
  BY <1>1, <1>3 DEF OthersStay
<1>5. FirstStep(kind) = "read" \/ (kind = "checkout" /\ FirstStep(kind) = "retrieve")
  BY DEF FirstStep
<1>6. RunIsKnown(h)'
  BY <1>1, <1>5 DEF RunIsKnown, FreshIsKnown, SeenOfStripe, RowIsOfRun
<1>7. RowIsFollowed'
  <2> SUFFICES ASSUME row.sub # 0, row.sub \notin unread
               PROVE  \/ EntitledTier = PaidTier(row.sub)
                      \/ Announced(row.sub)' \/ Updating(h, row.sub)'
    BY <1>2 DEF RowIsFollowed, EntitledTier, PaidTier
  <2>1. EntitledTier = PaidTier(row.sub) \/ Announced(row.sub)
    BY <1>1 DEF HandledAlone, RowIsFollowed, Updating
  <2>2. ASSUME Announced(row.sub), ~Announced(row.sub)' PROVE Updating(h, row.sub)'
    <3>1. /\ <<kind, s>> = <<"updated", row.sub>> \/ <<kind, s>> = <<"deleted", row.sub>>
          /\ ~own
      BY <1>2, <2>2 DEF Announced
    <3>2. s = row.sub /\ kind \in {"updated", "deleted"}
      BY <3>1
    <3> QED
      BY <1>1, <1>2, <3>1, <3>2 DEF Updating, FirstStep
  <2> QED
    BY <2>1, <2>2
<1>8. "run" \notin faults' => RetentionOfRun(h)'
  BY <1>1, <1>2, <1>3, <1>5 DEF HandledAlone, RetentionIsFollowed, RetentionOfRun
<1> QED
  BY <1>4, <1>6, <1>7, <1>8, AloneByRun

LEMMA AloneFails ==
  ASSUME BillingAssumption, BillingForms, HandledAlone, NEW h \in Handlers, RunFails(h)
  PROVE  HandledAlone'
<1> USE DEF BillingForms
<1>1. /\ RunMoves(h) /\ Ends(h) /\ UNCHANGED <<stripe, row, retention, unread>> /\ faults' = faults \cup {"run"}
      /\ events \subseteq events' /\ (~job[h].own => <<job[h].kind, job[h].sub>> \in events')
  BY FormsRunFails
<1>2. \A g \in Handlers \ {h} : job[g] = NoJob /\ job'[g] = NoJob
  BY <1>1, OthersRest DEF HandledAlone
<1>3. job'[h].kind = "none" /\ job'[h].step = "none"
  BY <1>1, NoJobFields DEF Ends
<1>4. RunIsKnown(h)'
  BY <1>3 DEF RunIsKnown, FreshIsKnown, SeenOfStripe, RowIsOfRun
<1>5. RowIsFollowed'
  <2> SUFFICES ASSUME row.sub # 0, row.sub \notin unread,
                      ~(EntitledTier = PaidTier(row.sub)), ~Announced(row.sub)
               PROVE  Announced(row.sub)'
    BY <1>1 DEF RowIsFollowed, EntitledTier, PaidTier, Announced
  <2>1. PICK g \in Handlers : Updating(g, row.sub)
    BY DEF HandledAlone, RowIsFollowed
  <2>2. g = h
    BY <1>2, <2>1, NoJobFields DEF Updating
  <2> QED
    BY <1>1, <2>1, <2>2 DEF Updating, Announced
<1> QED
  BY <1>1, <1>2, <1>4, <1>5, AloneByRun

\* An update whose read failed is unread; a failed payment is announced twice.
LEMMA AloneSwallowed ==
  ASSUME BillingAssumption, BillingForms, HandledAlone, NEW h \in Handlers, Swallowed(h)
  PROVE  HandledAlone'
<1> USE DEF BillingForms
<1>1. /\ RunMoves(h) /\ Ends(h) /\ UNCHANGED <<stripe, events, row, retention, faults>>
      /\ \/ job[h].step = "setStatus" /\ job[h].kind = "payment_failed" /\ unread' = unread
         \/ /\ job[h].step = "read"
            /\ unread' = IF job[h].own \/ job[h].kind = "payment_failed" THEN unread
                         ELSE unread \cup {job[h].sub}
  BY FormsSwallowed
<1>2. \A g \in Handlers \ {h} : job[g] = NoJob /\ job'[g] = NoJob
  BY <1>1, OthersRest DEF HandledAlone
<1>3. job'[h].kind = "none" /\ job'[h].step = "none"
  BY <1>1, NoJobFields DEF Ends
<1>4. RunIsKnown(h)'
  BY <1>3 DEF RunIsKnown, FreshIsKnown, SeenOfStripe, RowIsOfRun
<1>5. RowIsFollowed'
  <2> SUFFICES ASSUME row.sub # 0, row.sub \notin unread',
                      ~(EntitledTier = PaidTier(row.sub)), ~Announced(row.sub)
               PROVE  FALSE
    BY <1>1 DEF RowIsFollowed, EntitledTier, PaidTier, Announced
  <2>1. row.sub \notin unread
    BY <1>1
  <2>2. PICK g \in Handlers : Updating(g, row.sub)
    BY <2>1 DEF HandledAlone, RowIsFollowed
  <2>3. g = h
    BY <1>2, <2>2, NoJobFields DEF Updating
  <2> QED
    BY <1>1, <2>2, <2>3 DEF Updating
<1>6. "run" \notin faults' => RetentionOfRun(h)'
  <2>1. \A g \in Handlers : job[g].step # "retention"
    BY <1>1, <1>2, NoJobFields
  <2> QED
    BY <1>1, <1>3, <2>1 DEF HandledAlone, RetentionIsFollowed, RetentionOfRun
<1> QED
  BY <1>2, <1>4, <1>5, <1>6, AloneByRun

\* What holds of the run that steps when it is the only one.
Follows(h) ==
  /\ RunIsKnown(h)
  /\ row.sub # 0 =>
       row.sub \in unread \/ EntitledTier = PaidTier(row.sub) \/ Announced(row.sub) \/ Updating(h, row.sub)
  /\ "run" \notin faults => RetentionOfRun(h)

LEMMA FollowsAlone ==
  ASSUME BillingAssumption, BillingForms, HandledAlone, NEW h \in Handlers,
         \A g \in Handlers \ {h} : job[g] = NoJob
  PROVE  Follows(h)
<1>1. \A g \in Handlers \ {h} : job[g].step = "none" /\ job[g].kind = "none"
  BY NoJobFields
<1>2. row.sub # 0 =>
        row.sub \in unread \/ EntitledTier = PaidTier(row.sub) \/ Announced(row.sub) \/ Updating(h, row.sub)
  BY <1>1 DEF HandledAlone, RowIsFollowed, Updating
<1>3. "run" \notin faults => RetentionOfRun(h)
  BY <1>1 DEF HandledAlone, RetentionIsFollowed, RetentionOfRun
<1> QED
  BY <1>2, <1>3 DEF HandledAlone, Follows

\* A step that reads.
LEMMA FollowsReading ==
  ASSUME BillingAssumption, BillingForms, NEW h \in Handlers, Follows(h),
         ReadLocal(h) \/ Retrieve(h) \/ ListDuplicates(h) \/ Verdict(h)
  PROVE  Follows(h)'
<1> USE DEF BillingForms
<1>1. UNCHANGED <<stripe, events, row, retention, faults, unread>>
  BY DEF ReadLocal, Retrieve, ListDuplicates, Verdict, OnlyJob
<1>2. ASSUME RunIsKnown(h)', Updating(h, row.sub) => Updating(h, row.sub)',
             "run" \notin faults /\ RetentionOfRun(h) => RetentionOfRun(h)'
      PROVE  Follows(h)'
  BY <1>1, <1>2 DEF Follows, EntitledTier, PaidTier, Announced
<1>3. ASSUME Ends(h), ~Updating(h, row.sub), job[h].step # "retention" PROVE Follows(h)'
  <2>1. job'[h].kind = "none" /\ job'[h].step = "none"
    BY <1>3, NoJobFields DEF Ends
  <2>2. RunIsKnown(h)'
    BY <2>1 DEF RunIsKnown, FreshIsKnown, SeenOfStripe, RowIsOfRun
  <2>3. RetentionOfRun(h) => RetentionOfRun(h)'
    BY <1>1, <1>3, <2>1 DEF RetentionOfRun
  <2> QED
    BY <1>2, <1>3, <2>2, <2>3
<1>4. CASE ReadLocal(h)
  <2>1. job[h].step = "read"
    BY <1>4 DEF ReadLocal
  <2>2. job[h].kind \in {"updated", "deleted", "payment_failed"}
    BY <2>1, KindsOfSteps
  <2>3. CASE Ends(h) /\ (row.sub # job[h].sub \/ job[h].kind = "payment_failed")
    BY <1>3, <2>1, <2>3 DEF Updating
  <2>4. CASE /\ Goes(h, IF job[h].kind = "deleted" THEN "revoke" ELSE "retrieve")
             /\ row.sub = job[h].sub /\ job'[h].tier = row.tier
    <3>1. RunIsKnown(h)'
      BY <1>1, <2>2, <2>4 DEF RunIsKnown, FreshIsKnown, SeenOfStripe, RowIsOfRun, Goes
    <3>2. Updating(h, row.sub) => Updating(h, row.sub)'
      BY <1>1, <2>2, <2>4 DEF Updating, Goes
    <3>3. RetentionOfRun(h) => RetentionOfRun(h)'
      BY <1>1, <2>1, <2>4 DEF RetentionOfRun, Goes
    <3> QED
      BY <1>2, <3>1, <3>2, <3>3
  <2> QED
    BY <1>4, <2>3, <2>4, ReadLocalMoves
<1>5. CASE Retrieve(h)
  <2>1. job[h].step = "retrieve"
    BY <1>5 DEF Retrieve
  <2>2. job[h].kind \in {"checkout", "updated", "payment_failed"} /\ job[h].sub \in Sub
    BY <2>1, KindsOfSteps
  <2>3. CASE Ends(h) /\ job[h].kind = "payment_failed"
    BY <1>3, <2>1, <2>3 DEF Updating
  <2>4. CASE /\ Goes(h, AfterRetrieve(h))
             /\ job'[h].fresh = stripe[job[h].sub] /\ job'[h].tier = job[h].tier
             /\ job[h].kind = "payment_failed" => job'[h].fresh.status \in {"past_due", "unpaid"}
    <3>1. FreshIsKnown(h)'
      BY <1>1, <2>4 DEF FreshIsKnown, Goes
    <3>2. SeenOfStripe(h)'
      BY <2>2, <2>4 DEF SeenOfStripe, Goes, AfterRetrieve
    <3>3. RowIsOfRun(h)'
      BY <1>1, <2>1, <2>4 DEF Follows, RunIsKnown, RowIsOfRun, Goes
    <3>4. Updating(h, row.sub) => Updating(h, row.sub)'
      BY <1>1, <2>2, <2>4 DEF Updating, Goes, AfterRetrieve
    <3>5. RetentionOfRun(h) => RetentionOfRun(h)'
      BY <1>1, <2>1, <2>2, <2>4 DEF RetentionOfRun, Goes, AfterRetrieve
    <3> QED
      BY <1>2, <3>1, <3>2, <3>3, <3>4, <3>5 DEF RunIsKnown
  <2> QED
    BY <1>5, <2>2, <2>3, <2>4, RetrieveMoves
<1>6. ASSUME job[h].step \in {"list", "cancel"}, NEW step \in {"cancel", "upsert"}, Goes(h, step),
             job'[h].fresh = job[h].fresh
      PROVE  Follows(h)'
  <2>1. job[h].kind = "checkout"
    BY <1>6, KindsOfSteps
  <2>2. RunIsKnown(h)'
    BY <1>1, <1>6, <2>1 DEF Follows, RunIsKnown, FreshIsKnown, SeenOfStripe, RowIsOfRun, Goes, Announced
  <2>3. RetentionOfRun(h) => RetentionOfRun(h)'
    BY <1>1, <1>6, <2>1 DEF RetentionOfRun, Goes
  <2> QED
    BY <1>2, <2>1, <2>2, <2>3 DEF Updating
<1>7. CASE ListDuplicates(h)
  BY <1>6, <1>7, ListDuplicatesMoves DEF ListDuplicates
<1>8. CASE Verdict(h)
  <2>1. job[h].step = "cancel" /\ job[h].kind = "checkout"
    BY <1>8, KindsOfSteps DEF Verdict
  <2> QED
    BY <1>3, <1>6, <1>8, <2>1, VerdictMoves DEF Updating
<1> QED
  BY <1>4, <1>5, <1>7, <1>8

LEMMA FollowsCancel ==
  ASSUME BillingAssumption, BillingForms, NEW h \in Handlers, Follows(h), CancelDuplicate(h) \/ RefundDuplicate(h)
  PROVE  Follows(h)'
<1> USE DEF BillingForms
<1>1. job[h].step \in {"cancel", "refund"} /\ UNCHANGED <<row, retention, unread>>
  BY DEF CancelDuplicate, RefundDuplicate
<1>2. job[h].kind = "checkout" /\ job[h].sub \in Sub
  BY <1>1, KindsOfSteps
<1>3. /\ Goes(h, "cancel") \/ Goes(h, "refund")
      /\ job'[h].fresh = job[h].fresh /\ job'[h].tier = job[h].tier
  BY CancelMoves, RefundMoves
<1>4. UNCHANGED <<stripe, events, faults>> \/ \E m \in Sub : Cancels(m)
  BY CancelMoves DEF RefundDuplicate
<1>5. events \subseteq events' /\ faults \subseteq faults'
  BY <1>4 DEF Cancels
<1>6. \A s \in Sub : stripe'[s] = stripe[s] \/ Announced(s)'
  BY <1>4 DEF Cancels, Announced, BillingTypes
<1>7. \A s : Announced(s) => Announced(s)'
  BY <1>5 DEF Announced
<1>8. RunIsKnown(h)'
  BY <1>1, <1>2, <1>3, <1>6, <1>7 DEF Follows, RunIsKnown, FreshIsKnown, SeenOfStripe, RowIsOfRun, Goes
<1>9. row'.sub # 0 => row.sub \in unread' \/ EntitledTier' = PaidTier(row.sub)' \/ Announced(row.sub)'
  <2> SUFFICES ASSUME row.sub # 0, row.sub \notin unread, ~(Announced(row.sub)')
               PROVE  EntitledTier' = PaidTier(row.sub)'
    BY <1>1
  <2>1. row.sub \in Sub
    BY RowFields DEF Sub, BillingAssumption
  <2>2. stripe'[row.sub] = stripe[row.sub] /\ ~Announced(row.sub)
    BY <1>6, <1>7, <2>1, <1>1
  <2> QED
    BY <1>1, <1>2, <2>2 DEF Follows, Updating, EntitledTier, PaidTier
<1>10. "run" \notin faults' => RetentionOfRun(h)'
  BY <1>1, <1>2, <1>3, <1>5 DEF Follows, RetentionOfRun, Goes
<1> QED
  BY <1>1, <1>8, <1>9, <1>10 DEF Follows

\* A run that ends or has only the retention to bring up to date.
LEMMA FollowsWriting ==
  ASSUME BillingAssumption, BillingForms, NEW h \in Handlers,
         row'.sub # 0 => row'.sub \in unread' \/ EntitledTier' = PaidTier(row.sub)' \/ Announced(row.sub)',
         \/ Ends(h) /\ ("run" \notin faults' => retention' = row'.tier)
         \/ Goes(h, "retention") /\ ("run" \notin faults' => job'[h].fresh.tier = row'.tier)
  PROVE  Follows(h)'
<1>1. job'[h].step \in {"none", "retention"}
  BY NoJobFields DEF Ends, Goes
<1>2. job'[h].step = "none" <=> Ends(h)
  BY NoJobFields DEF Ends, Goes
<1>3. RunIsKnown(h)'
  BY <1>1 DEF RunIsKnown, FreshIsKnown, SeenOfStripe, RowIsOfRun
<1>4. "run" \notin faults' => RetentionOfRun(h)'
  BY <1>1, <1>2 DEF RetentionOfRun, Goes
<1> QED
  BY <1>3, <1>4 DEF Follows

LEMMA FollowsUpsert ==
  ASSUME BillingAssumption, BillingForms, NEW h \in Handlers, Follows(h), Upsert(h)
  PROVE  Follows(h)'
<1> USE DEF BillingForms
<1>1. /\ job[h].step = "upsert" /\ UNCHANGED <<stripe, events, retention>> /\ faults \subseteq faults'
      /\ row' = [sub |-> job[h].sub, tier |-> job[h].fresh.tier, status |-> job[h].fresh.status]
  BY DEF Upsert
<1>2. job[h].kind \in {"checkout", "updated"}
  BY <1>1, KindsOfSteps
<1>3. job[h].fresh = stripe[job[h].sub] \/ Announced(job[h].sub)
  BY <1>1 DEF Follows, RunIsKnown, FreshIsKnown
<1>4. row'.sub = job[h].sub /\ row'.tier = job[h].fresh.tier /\ row'.status = job[h].fresh.status
  BY <1>1
<1>5. row'.sub # 0 => EntitledTier' = PaidTier(row.sub)' \/ Announced(row.sub)'
  BY <1>1, <1>3, <1>4 DEF EntitledTier, PaidTier, Announced
<1>6. CASE Ends(h) /\ ~RetentionDue(h)
  <2>1. job[h].kind = "updated" /\ job[h].tier = job[h].fresh.tier
    BY <1>2, <1>6 DEF RetentionDue
  <2>2. "run" \notin faults => retention = row.tier /\ job[h].tier = row.tier
    BY <1>1, <2>1 DEF Follows, RetentionOfRun
  <2> QED
    BY <1>1, <1>4, <1>5, <1>6, <2>1, <2>2, FollowsWriting
<1>7. CASE Goes(h, "retention") /\ job'[h].fresh = job[h].fresh
  BY <1>4, <1>5, <1>7, FollowsWriting
<1> QED
  BY <1>6, <1>7, UpsertMoves

LEMMA FollowsSetStatus ==
  ASSUME BillingAssumption, BillingForms, NEW h \in Handlers, Follows(h), SetStatus(h)
  PROVE  Follows(h)'
<1> USE DEF BillingForms
<1>1. /\ job[h].step = "setStatus" /\ UNCHANGED <<stripe, events, retention, faults>>
      /\ row' = [row EXCEPT !.status = job[h].fresh.status] /\ Ends(h)
  BY JobEnds DEF SetStatus
<1>2. job[h].kind = "payment_failed" /\ job[h].fresh.status \in {"past_due", "unpaid"} /\ row.sub = job[h].sub
      /\ (job[h].fresh = stripe[job[h].sub] \/ Announced(job[h].sub))
  BY <1>1, KindsOfSteps DEF Follows, RunIsKnown, FreshIsKnown, SeenOfStripe, RowIsOfRun
<1>3. row'.sub = row.sub /\ row'.tier = row.tier /\ row'.status = job[h].fresh.status
  BY <1>1 DEF BillingTypes, Row
<1>4. row'.sub # 0 => EntitledTier' = PaidTier(row.sub)' \/ Announced(row.sub)'
  BY <1>1, <1>2, <1>3 DEF EntitledTier, PaidTier, Announced
<1>5. "run" \notin faults' => retention' = row'.tier
  BY <1>1, <1>3 DEF Follows, RetentionOfRun
<1> QED
  BY <1>1, <1>4, <1>5, FollowsWriting

LEMMA FollowsRevoke ==
  ASSUME BillingAssumption, BillingForms, NEW h \in Handlers, Follows(h), Revoke(h)
  PROVE  Follows(h)'
<1> USE DEF BillingForms
<1>1. /\ job[h].step = "revoke" /\ UNCHANGED <<stripe, events, retention, faults>>
      /\ row' = [Starter EXCEPT !.sub = LinkKept(h)]
  BY DEF Revoke
<1>2. job[h].kind \in {"updated", "deleted"}
  BY <1>1, KindsOfSteps
<1>3. row'.sub = LinkKept(h) /\ row'.tier = "growth"
  BY <1>1 DEF Starter
<1>4. row'.sub # 0 => EntitledTier' = PaidTier(row.sub)' \/ Announced(row.sub)'
  <2> SUFFICES ASSUME row'.sub # 0 PROVE EntitledTier' = PaidTier(row.sub)' \/ Announced(row.sub)'
    OBVIOUS
  <2>1. job[h].kind = "updated" /\ row'.sub = job[h].sub
    BY <1>3 DEF LinkKept
  <2>2. /\ job[h].fresh.status \notin TierRetaining
        /\ job[h].fresh = stripe[job[h].sub] \/ Announced(job[h].sub)
    BY <1>1, <2>1 DEF Follows, RunIsKnown, FreshIsKnown, SeenOfStripe
  <2>3. EntitledTier' = "growth"
    BY <1>3 DEF EntitledTier
  <2> QED
    BY <1>1, <2>1, <2>2, <2>3 DEF PaidTier, Announced, TierRetaining
<1>5. "run" \notin faults => job[h].tier = row.tier /\ retention = row.tier
  BY <1>1, <1>2 DEF Follows, RetentionOfRun
<1>6. CASE Ends(h) /\ job[h].tier = "growth"
  BY <1>1, <1>3, <1>4, <1>5, <1>6, FollowsWriting
<1>7. CASE Goes(h, "retention") /\ job'[h].fresh.tier = "growth"
  BY <1>3, <1>4, <1>7, FollowsWriting
<1> QED
  BY <1>6, <1>7, RevokeMoves

LEMMA FollowsRetention ==
  ASSUME BillingAssumption, BillingForms, NEW h \in Handlers, Follows(h), SyncRetention(h)
  PROVE  Follows(h)'
<1> USE DEF BillingForms
<1>1. /\ job[h].step = "retention" /\ UNCHANGED <<stripe, events, row, faults, unread>>
      /\ retention' = job[h].fresh.tier /\ Ends(h)
  BY JobEnds DEF SyncRetention
<1>2. row'.sub # 0 => row'.sub \in unread' \/ EntitledTier' = PaidTier(row.sub)' \/ Announced(row.sub)'
  BY <1>1 DEF Follows, Updating, EntitledTier, PaidTier, Announced
<1>3. "run" \notin faults' => retention' = row'.tier
  BY <1>1 DEF Follows, RetentionOfRun
<1> QED
  BY <1>1, <1>2, <1>3, FollowsWriting

LEMMA AloneStep ==
  ASSUME BillingAssumption, BillingForms, HandledAlone, NEW h \in Handlers, Step(h)
  PROVE  HandledAlone'
<1> USE DEF BillingForms
<1>1. \A g \in Handlers \ {h} : job[g] = NoJob /\ job'[g] = NoJob
  BY StepMoves, OthersRest DEF HandledAlone
<1>2. Follows(h)
  BY <1>1, FollowsAlone
<1>3. Follows(h)'
  BY <1>2, FollowsReading, FollowsCancel, FollowsUpsert, FollowsSetStatus, FollowsRevoke, FollowsRetention DEF Step
<1>4. RowIsFollowed'
  BY <1>3 DEF Follows, RowIsFollowed
<1> QED
  BY <1>1, <1>3, <1>4, AloneByRun DEF Follows

LEMMA HandledAloneStep ==
  ASSUME BillingAssumption, BillingForms, HandledAlone, [Next]_vars, overlap' = "none"
  PROVE  HandledAlone'
<1> USE DEF BillingForms
<1>1. ASSUME NEW s \in Sub, NEW tier \in Tier, CheckoutCompletes(s, tier) PROVE HandledAlone'
  <2>1. /\ stripe[s].status = "none" /\ events \subseteq events'
        /\ UNCHANGED <<row, retention, job, faults, unread>>
        /\ \A t \in Sub : t # s => stripe'[t] = stripe[t]
    BY <1>1 DEF CheckoutCompletes, StripeSends, BillingTypes
  <2> QED
    BY <2>1, AloneAtStripe
<1>2. ASSUME NEW s \in Sub, StripeMoves(s) PROVE HandledAlone'
  <2>1. \A t \in Sub : stripe'[t] = stripe[t] \/ Announced(t)'
    BY <1>2, StripeMovesKeep DEF Announced
  <2> QED
    BY <1>2, <2>1, StripeMovesKeep, AloneAtStripe
<1>3. ASSUME NEW h \in Handlers, NEW e \in events, Deliver(h, e) PROVE HandledAlone'
  <2>1. /\ e[1] \in Kinds /\ e[2] \in Sub /\ Start(h, e[1], e[2], FALSE)
        /\ events' = events \ {<<e[1], e[2]>>}
    BY <1>3, FormsDeliver
  <2> QED
    BY <2>1, AloneStart
<1>4. ASSUME NEW h \in Handlers, NEW s \in Sub, NEW kind \in {"checkout", "updated"}, UserSyncs(h, s, kind)
      PROVE  HandledAlone'
  BY <1>4, FormsUserRuns, AloneStart
<1>5. ASSUME NEW s \in Sub, NEW kind \in {"checkout", "updated", "deleted"}, Redelivered(s, kind)
      PROVE  HandledAlone'
  BY <1>5, FormsRedelivered, AloneAtStripe
<1>6. CASE UNCHANGED vars
  BY <1>6, AloneAtStripe DEF vars
<1> QED
  BY <1>1, <1>2, <1>3, <1>4, <1>5, <1>6, AloneStep, AloneFails, AloneSwallowed, BillingSteps DEF UserRuns, EventsAgain

-----------------------------------------------------------------------------
(* The theorems.                                                           *)

LEMMA BillingInvariantInit ==
  ASSUME BillingAssumption, Init
  PROVE  BillingInvariant
<1>1. Absent \in StripeRecord /\ Absent.status = "none"
  BY DEF Absent, StripeRecord, Statuses, Tier
<1>2. stripe \in [Sub -> StripeRecord] /\ \A s \in Sub : stripe[s].status = "none"
  BY <1>1 DEF Init
<1>3. \A h \in Handlers : /\ job[h] = NoJob /\ job[h].kind = "none" /\ job[h].step = "none"
                          /\ job[h].duplicates = {} /\ job[h] \in JobRecord
  BY NoJobFields DEF Init
<1>4. row \in Row /\ row.sub = 0 /\ row.tier = "growth"
  BY DEF Init, Starter, Row, Tier, Statuses, Live, BillingAssumption
<1>5. job \in [Handlers -> JobRecord]
  BY <1>3 DEF Init
<1>6. BillingTypes
  BY <1>2, <1>4, <1>5 DEF Init, BillingTypes, Tier, BillingAssumption
<1>7. JobShapes
  BY <1>3 DEF JobShapes, JobShape
<1>8. SubsExist
  BY <1>2, <1>3, <1>4 DEF Init, SubsExist
<1>9. DuplicatesAreResolved
  BY <1>2 DEF DuplicatesAreResolved, Live
<1>10. OneAtATime /\ \A h \in Handlers : RunIsKnown(h)
  BY <1>3 DEF OneAtATime, RunIsKnown, FreshIsKnown, SeenOfStripe, RowIsOfRun
<1>11. RowIsFollowed /\ RetentionIsFollowed
  BY <1>3, <1>4 DEF Init, RowIsFollowed, RetentionIsFollowed
<1> QED
  BY <1>6, <1>7, <1>8, <1>9, <1>10, <1>11 DEF BillingInvariant, HandledAlone

LEMMA BillingInvariantStep ==
  ASSUME BillingAssumption, BillingInvariant, [Next]_vars
  PROVE  BillingInvariant'
<1>1. BillingForms /\ BillingForms'
  BY BillingFormsStep DEF BillingInvariant, BillingForms
<1>2. DuplicatesAreResolved'
  BY <1>1, ResolvedStep DEF BillingInvariant
<1>3. overlap' = "none" => HandledAlone'
  BY <1>1, OverlapStays, HandledAloneStep DEF BillingInvariant
<1> QED
  BY <1>1, <1>2, <1>3 DEF BillingInvariant, BillingForms

\* Whatever the order, the repetitions and the failures of the deliveries: the
\* older of two live subscriptions always has the checkout of the younger still
\* to be handled, and with one run at a time a row or a retention that is behind
\* has an event or a run that will bring it up to date.
THEOREM BillingInvariantHolds == Spec => []BillingInvariant
<1> USE BillingAssumption
<1>1. Init => BillingInvariant
  BY BillingInvariantInit
<1>2. BillingInvariant /\ [Next]_vars => BillingInvariant'
  BY BillingInvariantStep
<1> QED
  BY <1>1, <1>2, PTL DEF Spec

\* Every variable has its type and a row without a subscription is on the free
\* tier, whichever handlers overlap.
THEOREM BillingTypesHold == Spec => []TypeOK
<1>1. BillingInvariant => TypeOK
  <2> SUFFICES ASSUME BillingInvariant PROVE TypeOK
    OBVIOUS
  <2>1. BillingTypes
    BY DEF BillingInvariant
  <2>2. \A h \in Handlers : /\ job[h].kind \in Kinds \cup {"none"} /\ job[h].sub \in 0 .. MaxSubs
                            /\ job[h].tier \in Tier /\ job[h].duplicates \subseteq Sub
    BY <2>1, JobFields
  <2> QED
    BY <2>1, <2>2 DEF BillingTypes, TypeOK, StripeRecord
<1> QED
  BY <1>1, BillingInvariantHolds, PTL

\* Handled one at a time, the events of a customer leave the row entitled to
\* what the linked subscription pays for, in whatever order they come, however
\* often, after runs that failed half way and failures of payments that were not
\* written; what a failed read missed is made up for by the next run that writes.
THEOREM EntitlementFollows == Spec => []EntitlementFollowsStripe
<1>1. BillingInvariant => EntitlementFollowsStripe
  <2> SUFFICES ASSUME BillingInvariant, Quiet, overlap = "none", row.sub # 0, row.sub \notin unread
               PROVE  EntitledTier = PaidTier(row.sub)
    BY DEF EntitlementFollowsStripe
  <2>1. \A h \in Handlers : job[h].kind = "none"
    BY DEF Quiet, Running
  <2> QED
    BY <2>1 DEF BillingInvariant, HandledAlone, RowIsFollowed, Updating, Announced, Quiet
<1> QED
  BY <1>1, BillingInvariantHolds, PTL

\* Handled one at a time and with no run that failed, the events leave the
\* retention settings at the tier of the row.
THEOREM RetentionFollows == Spec => []RetentionFollowsTier
<1> USE BillingAssumption
<1>1. BillingInvariant => RetentionFollowsTier
  <2> SUFFICES ASSUME BillingInvariant, Quiet, overlap = "none", "run" \notin faults
               PROVE  retention = row.tier
    BY DEF RetentionFollowsTier
  <2>1. \A h \in Handlers : job[h].kind = "none"
    BY DEF Quiet, Running
  <2>2. \A h \in Handlers : job[h].step = "none"
    BY <2>1, KindsOfSteps DEF BillingInvariant
  <2> QED
    BY <2>2 DEF BillingInvariant, HandledAlone, RetentionIsFollowed
<1> QED
  BY <1>1, BillingInvariantHolds, PTL

\* However many handlers overlap, fail and are repeated: when all is handled and
\* no cancel was lost, the customer has at most one live subscription.
THEOREM OneSubscriptionIsLive == Spec => []OneLiveSubscription
<1> USE BillingAssumption
<1>1. BillingInvariant => OneLiveSubscription
  <2> SUFFICES ASSUME BillingInvariant, Quiet, "cancel" \notin faults
               PROVE  Cardinality(LiveSubs) <= 1
    BY DEF OneLiveSubscription
  <2>1. \A h \in Handlers : job[h].kind = "none"
    BY DEF Quiet, Running
  <2>2. ASSUME NEW s \in LiveSubs, NEW t \in LiveSubs, s < t PROVE FALSE
    <3>1. t \in Sub /\ s \in 1 .. t - 1 /\ stripe[s].status \in Live /\ stripe[t].status \in Live
      BY <2>2 DEF LiveSubs, Sub, BillingAssumption
    <3>2. <<"checkout", t>> \in events \/ \E h \in Handlers : Resolving(h, t)
      BY <3>1 DEF BillingInvariant, DuplicatesAreResolved
    <3> QED
      BY <2>1, <3>2 DEF Resolving, Quiet
  <2>3. \A s, t \in LiveSubs : s = t
    BY <2>2 DEF LiveSubs, Sub, BillingAssumption
  <2>4. CASE LiveSubs = {}
    BY <2>4, FS_EmptySet
  <2>5. CASE LiveSubs # {}
    <3>1. PICK s \in LiveSubs : TRUE
      BY <2>5
    <3>2. LiveSubs = {s}
      BY <2>3, <3>1
    <3> QED
      BY <3>2, FS_Singleton
  <2> QED
    BY <2>4, <2>5
<1> QED
  BY <1>1, BillingInvariantHolds, PTL

-----------------------------------------------------------------------------
(* The retention of a dashboard: RetentionGrace.                           *)

Patches == Settings \cup [days : Days]
SyncRecord == [at : {"idle", "tier", "read", "stale"}, max : Ceilings \cup {0}, patch : SUBSET Patches]
PurgeRecord == [days : Days \cup {0}, age : 0..MaxDay, left : SUBSET Tables]

\* The types, with a sync's patch by its shape, and what a sync in a state has.
RetentionTypes ==
  /\ now \in 0..MaxDay /\ ceiling \in Ceilings /\ settings \in Settings
  /\ syncs \in [Syncs -> SyncRecord]
  /\ edit \in Days \cup {0}
  /\ purges \in [Purges -> PurgeRecord]
  /\ held \in [Tables -> 0..MaxDay]
  /\ changes \in 0..MaxChanges /\ failures \in 0..MaxFailures
  /\ chosen \in Days /\ lostAt \in [Days -> 0..MaxDay] /\ expected \in 0..MaxDay
  /\ clobbered \in BOOLEAN /\ missed \in BOOLEAN

SyncShape(y) ==
  /\ y.at = "idle" => y = NoSync
  /\ y.at # "idle" => y.max \in Ceilings
  /\ y.patch = {} \/ \E p \in Patches : y.patch = {p}

SyncShapes == \A s \in Syncs : SyncShape(syncs[s])

\* Nothing is older than the days that have passed.
Ages ==
  /\ \A d \in Days : lostAt[d] <= now
  /\ \A t \in Tables : held[t] <= now
  /\ \A p \in Purges : purges[p].age <= now
  /\ expected <= now /\ expected <= chosen

\* The patch of a sync that is not outdated is that of the settings as they are.
PatchesAreCurrent == \A s \in Syncs : syncs[s].at = "read" => syncs[s].patch = PatchFor(syncs[s].max)

\* What is chosen, or about to be, is covered by the plan or was so recently.
ChosenIsCovered ==
  /\ chosen <= ceiling \/ now < lostAt[chosen] + Grace
  /\ edit # 0 => edit <= ceiling \/ lostAt[edit] = now

\* A day d the plan covers no more is kept by the setting, by its grace period
\* or by a sync under way.
KeptDay(d) ==
  \/ d <= settings.days
  \/ settings.restore >= d /\ settings.until >= lostAt[d] + Grace
  \/ \E s \in Syncs : \/ syncs[s].at \in {"tier", "read"} /\ syncs[s].max >= d
                      \/ syncs[s].at = "stale" /\ syncs[s].patch # {}

GraceIsGiven == \A d \in Days : d <= chosen /\ d > ceiling /\ now < lostAt[d] + Grace => KeptDay(d)

WithinPlan == settings.days <= ceiling /\ Least(chosen, ceiling) <= settings.days

\* A sync to the present plan is to come or is about to write, or none is needed.
PlanIsFollowed ==
  \/ SyncToCome
  \/ \E s \in Syncs : syncs[s].at = "read" /\ syncs[s].max = ceiling /\ syncs[s].patch # {}
  \/ WithinPlan

SettingIsKept == chosen <= EffectiveDays /\ GraceIsGiven /\ PlanIsFollowed

\* What must be there is neither deleted nor about to be.
DataIsKept ==
  /\ \A p \in Purges : purges[p].left # {} => expected <= purges[p].days + purges[p].age
  /\ \A t \in Tables : expected <= held[t]

Clean == ~clobbered /\ ~missed

RetentionInvariant ==
  /\ RetentionTypes /\ GraceRestores /\ SyncShapes /\ Ages
  /\ PatchesAreCurrent /\ ChosenIsCovered
  /\ Clean => SettingIsKept /\ DataIsKept

-----------------------------------------------------------------------------
(* Largest numbers.                                                        *)

\* A set of numbers that has a bound has a largest one.
LEMMA MaxOfBounded ==
  ASSUME NEW S, S \subseteq Nat, S # {}, NEW n \in Nat, \A x \in S : x <= n
  PROVE  Max(S) \in S /\ \A x \in S : x <= Max(S)
<1> DEFINE T == {y \in Nat : \E x \in S : y = n - x}
           R == OpToRel(<, Nat)
<1>1. T \subseteq Nat /\ T # {}
  <2>1. PICK x \in S : TRUE
    OBVIOUS
  <2>2. n - x \in T
    BY <2>1
  <2> QED
    BY <2>2
<1>2. IsWellFoundedOn(R, Nat)
  BY NatLessThanWellFounded
<1> HIDE DEF T, R
<1>3. \E y \in T : \A z \in T : <<z, y>> \notin R
  BY <1>1, <1>2, WFMin
<1>4. PICK y \in T : \A z \in T : <<z, y>> \notin R
  BY <1>3
<1>5. \A z \in T : y <= z
  <2>1. \A a, b \in Nat : a < b => <<a, b>> \in R
    BY DEF R, OpToRel
  <2> SUFFICES ASSUME NEW z \in T PROVE y <= z
    OBVIOUS
  <2>2. y \in Nat /\ z \in Nat
    BY <1>1
  <2>3. ~(z < y)
    BY <1>4, <2>1, <2>2
  <2> QED
    BY <2>2, <2>3
<1>6. PICK x \in S : y = n - x
  BY DEF T
<1>7. \A w \in S : n - w \in T
  BY DEF T
<1>8. \A w \in S : w <= x
  BY <1>5, <1>6, <1>7, <1>1
<1>9. \E m \in S : \A w \in S : m >= w
  BY <1>8
<1> QED
  BY <1>9 DEF Max

\* A finite set of numbers has a bound: a smallest one without, if there were
\* any, would have one less an element.
LEMMA FiniteIsBounded ==
  ASSUME NEW S \in SUBSET Nat, IsFiniteSet(S)
  PROVE  \E n \in Nat : \A x \in S : x <= n
<1> DEFINE F == FiniteSubsetsOf(S)
           R == StrictSubsetOrdering(S)
           T == {A \in F : ~ \E n \in Nat : \A x \in A : x <= n}
<1>1. IsWellFoundedOn(R, F)
  BY FS_StrictSubsetOrderingWellFounded
<1>2. T \subseteq F
  OBVIOUS
<1> SUFFICES ASSUME T # {} PROVE FALSE
  BY DEF FiniteSubsetsOf
<1> HIDE DEF F, R
<1>3. \E A \in T : \A B \in T : <<B, A>> \notin R
  BY <1>1, <1>2, WFMin
<1>4. PICK A \in T : \A B \in T : <<B, A>> \notin R
  BY <1>3
<1>5. A \subseteq S /\ IsFiniteSet(A)
  BY <1>2 DEF F, FiniteSubsetsOf
<1>6. PICK a \in A : TRUE
  <2>1. A # {}
    OBVIOUS
  <2> QED
    BY <2>1
<1>7. A \ {a} \in F /\ <<A \ {a}, A>> \in R
  BY <1>5, <1>6, FS_RemoveElement DEF F, R, FiniteSubsetsOf, StrictSubsetOrdering
<1>8. PICK n \in Nat : \A x \in A \ {a} : x <= n
  BY <1>4, <1>7
<1>9. a \in Nat
  BY <1>5, <1>6
<1>10. n + a \in Nat /\ \A x \in A : x <= n + a
  BY <1>8, <1>9, <1>5
<1>11. \E m \in Nat : \A x \in A : x <= m
  BY <1>10
<1> QED
  BY <1>11

\* The largest plan is one of the plans, and every plan is within the days.
LEMMA CeilingsAreDays ==
  ASSUME RetentionAssumption
  PROVE  /\ Max(Ceilings) \in Ceilings /\ Max(Ceilings) \in Nat \ {0}
         /\ Ceilings \subseteq Days
         /\ \A d \in Days : d \in Nat \ {0}
         /\ \A d \in Days : 1..d \subseteq Days
<1>1. Ceilings \in SUBSET Nat /\ Ceilings # {} /\ IsFiniteSet(Ceilings)
  BY DEF RetentionAssumption
<1>2. PICK n \in Nat : \A x \in Ceilings : x <= n
  BY <1>1, FiniteIsBounded
<1>3. Max(Ceilings) \in Ceilings /\ \A x \in Ceilings : x <= Max(Ceilings)
  BY <1>1, <1>2, MaxOfBounded
<1>4. Max(Ceilings) \in Nat \ {0}
  BY <1>3 DEF RetentionAssumption
<1>5. Ceilings \subseteq Days
  BY <1>3, <1>4 DEF RetentionAssumption, Days
<1>6. \A d \in Days : d \in Nat \ {0} /\ d <= Max(Ceilings)
  BY <1>4 DEF Days
<1>7. \A d \in Days : 1..d \subseteq Days
  BY <1>4 DEF Days
<1> QED
  BY <1>3, <1>4, <1>5, <1>6, <1>7

-----------------------------------------------------------------------------
(* The patch a sync computes.                                              *)

\* The larger of two days.
LEMMA MaxOfTwo ==
  ASSUME RetentionAssumption, NEW a \in Days \cup {0}, NEW b \in Days
  PROVE  Max({a, b}) \in Days /\ Max({a, b}) >= a /\ Max({a, b}) >= b
<1>1. a \in Nat /\ b \in Nat \ {0} /\ a <= a + b /\ b <= a + b /\ a + b \in Nat
  BY CeilingsAreDays
<1>2. Max({a, b}) \in {a, b} /\ \A x \in {a, b} : x <= Max({a, b})
  BY <1>1, MaxOfBounded
<1> QED
  BY <1>1, <1>2, CeilingsAreDays

\* The four patches, with what made a sync compute each.
PatchOf(q, max) ==
  \/ q = {} /\ settings.days <= max /\ (EffectiveDays = settings.days \/ settings.days = max)
  \/ /\ q = {Restore}
     /\ settings.restore # 0 /\ settings.restore <= max
     /\ clobbered \/ (settings.restore > settings.days /\ settings.until > now)
  \/ \E m \in Days : /\ q = {[days |-> max, restore |-> m, until |-> now + Grace]}
                     /\ settings.days > max /\ m >= settings.restore /\ m >= settings.days
  \/ /\ q = {Raise(max)}
     /\ max > settings.days /\ settings.restore > max /\ settings.until > now

LEMMA PatchCases ==
  ASSUME RetentionAssumption, RetentionTypes, GraceRestores, NEW max \in Ceilings
  PROVE  PatchOf(PatchFor(max), max)
<1>1. settings.days \in Days /\ settings.restore \in Days \cup {0} /\ settings.until \in Nat /\ now \in Nat
  BY DEF RetentionTypes, Settings, RetentionAssumption
<1>2. settings.days \in Nat \ {0} /\ settings.restore \in Nat /\ max \in Nat \ {0}
  BY <1>1, CeilingsAreDays DEF RetentionAssumption
<1>3. CASE settings.days <= max /\ ~(settings.until > now /\ settings.restore # 0)
  BY <1>1, <1>2, <1>3 DEF PatchFor, PatchOf, EffectiveDays
<1>4. ASSUME ~(settings.days <= max /\ ~(settings.until > now /\ settings.restore # 0)),
             settings.restore # 0 /\ settings.restore <= max
      PROVE  PatchOf(PatchFor(max), max)
  <2>1. PatchFor(max) = {Restore}
    BY <1>4 DEF PatchFor
  <2>2. clobbered \/ (settings.restore > settings.days /\ settings.until > now)
    BY <1>1, <1>2, <1>4 DEF GraceRestores
  <2> QED
    BY <2>1, <2>2, <1>4 DEF PatchOf
<1>5. ASSUME ~(settings.days <= max /\ ~(settings.until > now /\ settings.restore # 0)),
             ~(settings.restore # 0 /\ settings.restore <= max), settings.days > max
      PROVE  PatchOf(PatchFor(max), max)
  <2> DEFINE m == Max({settings.restore, settings.days})
  <2>1. m \in Days /\ m >= settings.restore /\ m >= settings.days
    BY <1>1, MaxOfTwo
  <2>2. PatchFor(max) = {[days |-> max, restore |-> m, until |-> now + Grace]}
    BY <1>5 DEF PatchFor, Clamp
  <2> HIDE DEF m
  <2> QED
    BY <2>1, <2>2, <1>5 DEF PatchOf
<1>6. ASSUME ~(settings.days <= max /\ ~(settings.until > now /\ settings.restore # 0)),
             ~(settings.restore # 0 /\ settings.restore <= max), ~(settings.days > max)
      PROVE  PatchOf(PatchFor(max), max)
  <2>1. settings.days <= max /\ settings.until > now /\ settings.restore > max
    BY <1>1, <1>2, <1>6
  <2>2. CASE max > settings.days
    <3>1. PatchFor(max) = {Raise(max)}
      BY <1>6, <2>2 DEF PatchFor
    <3> QED
      BY <3>1, <2>1, <2>2 DEF PatchOf
  <2>3. CASE ~(max > settings.days)
    <3>1. PatchFor(max) = {} /\ settings.days = max
      BY <1>1, <1>2, <1>6, <2>1, <2>3 DEF PatchFor
    <3> QED
      BY <3>1, <2>1 DEF PatchOf
  <2> QED
    BY <2>2, <2>3
<1> QED
  BY <1>3, <1>4, <1>5, <1>6

-----------------------------------------------------------------------------
(* The steps of a sync.                                                    *)

\* What writing a patch makes of the settings.
LEMMA WrittenSettings ==
  ASSUME settings \in Settings, NEW p \in Patches,
         NEW u, u = [f \in Fields |-> IF f \in DOMAIN p THEN p[f] ELSE settings[f]]
  PROVE  /\ u \in Settings
         /\ p \in Settings => u = p
         /\ p \notin Settings => u = [settings EXCEPT !.days = p.days]
<1>1. CASE p \in Settings
  <2>1. DOMAIN p = Fields
    BY <1>1 DEF Settings, Fields
  <2>2. u = p
    BY <1>1, <2>1 DEF Settings, Fields
  <2> QED
    BY <1>1, <2>2
<1>2. CASE p \in [days : Days] /\ p \notin Settings
  <2>1. DOMAIN p = {"days"}
    BY <1>2
  <2>2. u.days = p.days /\ u.restore = settings.restore /\ u.until = settings.until
    BY <2>1 DEF Fields
  <2>3. u = [settings EXCEPT !.days = p.days]
    BY <2>1, <2>2 DEF Settings, Fields
  <2>4. u \in Settings
    BY <1>2, <2>3 DEF Settings
  <2> QED
    BY <1>2, <2>3, <2>4
<1> QED
  BY <1>1, <1>2 DEF Patches

\* What a sync makes of the settings, u, by the patch that was current.
Written(u, max) ==
  \/ /\ u = Restore
     /\ settings.restore # 0 /\ settings.restore <= max
     /\ clobbered \/ (settings.restore > settings.days /\ settings.until > now)
  \/ \E m \in Days : /\ u = [days |-> max, restore |-> m, until |-> now + Grace]
                     /\ settings.days > max /\ m >= settings.restore /\ m >= settings.days
  \/ /\ u = [settings EXCEPT !.days = max]
     /\ max > settings.days /\ settings.restore > max /\ settings.until > now

Writes(s) ==
  /\ syncs[s].patch # {}
  /\ settings' \in Settings
  /\ clobbered' = (clobbered \/ syncs[s].at = "stale" \/ (syncs[s].max # ceiling /\ ~SyncToCome))
  /\ syncs' = [Outdated(Syncs \ {s}) EXCEPT ![s] = NoSync]
  /\ syncs[s].at = "read" => Written(settings', syncs[s].max)

WritesNothing(s) ==
  /\ syncs[s].patch = {}
  /\ UNCHANGED <<settings, clobbered>>
  /\ syncs' = [syncs EXCEPT ![s] = NoSync]

LEMMA PatchEffect ==
  ASSUME RetentionAssumption, RetentionTypes, GraceRestores, SyncShapes, PatchesAreCurrent,
         NEW s \in Syncs, ApplyPatch(s)
  PROVE  WritesNothing(s) \/ Writes(s)
<1>1. CASE syncs[s].patch = {}
  BY <1>1 DEF ApplyPatch, WritesNothing
<1>2. CASE syncs[s].patch # {}
  <2>1. PICK p \in Patches : syncs[s].patch = {p}
    BY <1>2 DEF SyncShapes, SyncShape
  <2>2. /\ settings' = [f \in Fields |-> IF f \in DOMAIN p THEN p[f] ELSE settings[f]]
        /\ clobbered' = (clobbered \/ syncs[s].at = "stale" \/ (syncs[s].max # ceiling /\ ~SyncToCome))
        /\ syncs' = [Outdated(Syncs \ {s}) EXCEPT ![s] = NoSync]
    BY <1>2, <2>1 DEF ApplyPatch
  <2>3. settings \in Settings
    BY DEF RetentionTypes
  <2>4. /\ settings' \in Settings
        /\ p \in Settings => settings' = p
        /\ p \notin Settings => settings' = [settings EXCEPT !.days = p.days]
    BY <2>2, <2>3, WrittenSettings
  <2>5. ASSUME syncs[s].at = "read" PROVE Written(settings', syncs[s].max)
    <3> DEFINE max == syncs[s].max
    <3>1. max \in Ceilings /\ {p} = PatchFor(max)
      BY <2>1, <2>5 DEF SyncShapes, SyncShape, PatchesAreCurrent
    <3>2. PatchOf({p}, max)
      BY <3>1, PatchCases
    <3> SUFFICES Written(settings', max)
      OBVIOUS
    <3> HIDE DEF max
    <3>3. CASE /\ p = Restore
               /\ settings.restore # 0 /\ settings.restore <= max
               /\ clobbered \/ (settings.restore > settings.days /\ settings.until > now)
      <4>1. DOMAIN p = Fields
        BY <3>3 DEF Restore, Fields
      <4>2. p \in Settings
        <5>1. DOMAIN p # {"days"}
          BY <4>1 DEF Fields
        <5>2. p \notin [days : Days]
          BY <5>1
        <5> QED
          BY <5>2, <2>1 DEF Patches
      <4> QED
        BY <3>3, <4>2, <2>4 DEF Written
    <3>4. ASSUME NEW m \in Days, p = [days |-> max, restore |-> m, until |-> now + Grace],
                 settings.days > max, m >= settings.restore, m >= settings.days
          PROVE  Written(settings', max)
      <4>1. DOMAIN p = Fields
        BY <3>4 DEF Fields
      <4>2. p \in Settings
        <5>1. DOMAIN p # {"days"}
          BY <4>1 DEF Fields
        <5>2. p \notin [days : Days]
          BY <5>1
        <5> QED
          BY <5>2, <2>1 DEF Patches
      <4>3. settings' = [days |-> max, restore |-> m, until |-> now + Grace]
        BY <3>4, <4>2, <2>4
      <4> QED
        BY <3>4, <4>3 DEF Written
    <3>5. CASE /\ p = Raise(max)
               /\ max > settings.days /\ settings.restore > max /\ settings.until > now
      <4>1. DOMAIN p = {"days"} /\ p.days = max
        BY <3>5 DEF Raise
      <4>2. p \notin Settings
        <5>1. DOMAIN p # Fields
          BY <4>1 DEF Fields
        <5> QED
          BY <5>1 DEF Settings, Fields
      <4> QED
        BY <3>5, <4>1, <4>2, <2>4 DEF Written
    <3>6. \/ p = Restore /\ settings.restore # 0 /\ settings.restore <= max
             /\ (clobbered \/ (settings.restore > settings.days /\ settings.until > now))
          \/ \E m \in Days : /\ p = [days |-> max, restore |-> m, until |-> now + Grace]
                             /\ settings.days > max /\ m >= settings.restore /\ m >= settings.days
          \/ p = Raise(max) /\ max > settings.days /\ settings.restore > max /\ settings.until > now
      BY <3>2 DEF PatchOf
    <3> QED
      BY <3>3, <3>4, <3>5, <3>6
  <2> QED
    BY <1>2, <2>2, <2>4, <2>5 DEF Writes
<1> QED
  BY <1>1, <1>2

-----------------------------------------------------------------------------
(* The types, and what a grace period restores.                            *)

\* What the user may count on is part of what was chosen, and covered.
LEMMA CoveredIsCovered ==
  ASSUME RetentionAssumption, RetentionTypes, NEW day \in Nat
  PROVE  /\ Covered(day) \in Days /\ Covered(day) <= chosen
         /\ Covered(day) <= ceiling \/ day < lostAt[Covered(day)] + Grace
<1> DEFINE least == Least(chosen, ceiling)
           S == {d \in 1..chosen : d <= ceiling \/ day < lostAt[d] + Grace} \cup {least}
<1>1. chosen \in Days /\ ceiling \in Days /\ chosen \in Nat \ {0} /\ ceiling \in Nat \ {0}
  BY CeilingsAreDays DEF RetentionTypes
<1>2. least \in 1..chosen /\ least <= ceiling
  BY <1>1 DEF Least
<1> HIDE DEF least
<1>3. S \subseteq 1..chosen /\ S # {}
  BY <1>2
<1>4. S \subseteq Nat /\ \A x \in S : x <= chosen
  BY <1>1, <1>3
<1>5. Max(S) \in S
  BY <1>1, <1>3, <1>4, MaxOfBounded
<1>6. Covered(day) = Max(S)
  BY DEF Covered, least
<1>7. Max(S) \in 1..chosen
  BY <1>3, <1>5
<1>8. Max(S) \in Days /\ Max(S) <= chosen
  BY <1>1, <1>7, CeilingsAreDays
<1>9. Max(S) <= ceiling \/ day < lostAt[Max(S)] + Grace
  BY <1>2, <1>5
<1> QED
  BY <1>6, <1>8, <1>9

LEMMA LeastOfTwo ==
  ASSUME NEW a \in Nat, NEW b \in Nat
  PROVE  /\ Least(a, b) \in Nat /\ Least(a, b) <= a /\ Least(a, b) <= b
         /\ \A c \in Nat : c <= a /\ c <= b => c <= Least(a, b)
BY DEF Least

\* The numbers among the variables.
LEMMA RetentionNumbers ==
  ASSUME RetentionAssumption, RetentionTypes
  PROVE  /\ now \in Nat /\ now <= MaxDay /\ ceiling \in Nat \ {0} /\ ceiling \in Days
         /\ settings.days \in Nat \ {0} /\ settings.restore \in Nat /\ settings.until \in Nat
         /\ settings.days \in Days /\ settings.restore \in Days \cup {0} /\ settings.until \in 0..(MaxDay + Grace)
         /\ edit \in Nat /\ chosen \in Nat \ {0} /\ expected \in Nat
         /\ \A d \in Days : lostAt[d] \in Nat
         /\ \A t \in Tables : held[t] \in Nat
         /\ \A p \in Purges : purges[p].days \in Nat /\ purges[p].age \in Nat
         /\ \A s \in Syncs : syncs[s].max \in Nat
         /\ MaxDay \in Nat /\ Grace \in Nat \ {0}
<1>1. MaxDay \in Nat /\ Grace \in Nat \ {0} /\ Ceilings \subseteq Nat
  BY DEF RetentionAssumption
<1>2. now \in Nat /\ now <= MaxDay /\ ceiling \in Days /\ ceiling \in Nat \ {0}
  BY <1>1, CeilingsAreDays DEF RetentionTypes
<1>3. settings.days \in Days /\ settings.restore \in Days \cup {0} /\ settings.until \in 0..(MaxDay + Grace)
  BY DEF RetentionTypes, Settings
<1>4. settings.days \in Nat \ {0} /\ settings.restore \in Nat /\ settings.until \in Nat
  BY <1>1, <1>3, CeilingsAreDays
<1>5. edit \in Nat /\ chosen \in Nat \ {0} /\ expected \in Nat
  BY <1>1, CeilingsAreDays DEF RetentionTypes
<1>6. /\ \A d \in Days : lostAt[d] \in Nat
      /\ \A t \in Tables : held[t] \in Nat
  BY <1>1 DEF RetentionTypes
<1>7. \A p \in Purges : purges[p].days \in Nat /\ purges[p].age \in Nat
  BY <1>1, CeilingsAreDays DEF RetentionTypes, PurgeRecord
<1>8. \A s \in Syncs : syncs[s].max \in Nat
  <2>1. \A s \in Syncs : syncs[s] \in SyncRecord
    BY DEF RetentionTypes
  <2>2. \A s \in Syncs : syncs[s].max \in Ceilings \cup {0}
    BY <2>1 DEF SyncRecord
  <2>3. Ceilings \cup {0} \subseteq Nat
    BY <1>1
  <2> QED
    BY <2>2, <2>3
<1> QED
  BY <1>1, <1>2, <1>3, <1>4, <1>5, <1>6, <1>7, <1>8

\* The records a sync goes through are of its type and shape.
LEMMA SyncRecords ==
  ASSUME RetentionAssumption, RetentionTypes, SyncShapes
  PROVE  /\ NoSync \in SyncRecord /\ SyncShape(NoSync)
         /\ \A max \in Ceilings : LET y == [NoSync EXCEPT !.at = "tier", !.max = max]
                                  IN  y \in SyncRecord /\ SyncShape(y)
         /\ \A s \in Syncs : LET y == [syncs[s] EXCEPT !.at = "stale"]
                             IN  syncs[s].at = "read" => y \in SyncRecord /\ SyncShape(y)
<1>1. NoSync \in SyncRecord /\ SyncShape(NoSync)
  BY DEF NoSync, SyncRecord, SyncShape
<1>2. ASSUME NEW max \in Ceilings
      PROVE  LET y == [NoSync EXCEPT !.at = "tier", !.max = max] IN y \in SyncRecord /\ SyncShape(y)
  <2> DEFINE y == [NoSync EXCEPT !.at = "tier", !.max = max]
  <2>1. NoSync.patch = {}
    BY DEF NoSync
  <2>2. y \in SyncRecord /\ y.at = "tier" /\ y.max = max /\ y.patch = {}
    BY <1>1, <2>1 DEF SyncRecord
  <2>3. SyncShape(y)
    BY <2>2 DEF SyncShape
  <2> QED
    BY <2>2, <2>3
<1>3. ASSUME NEW s \in Syncs, syncs[s].at = "read"
      PROVE  LET y == [syncs[s] EXCEPT !.at = "stale"] IN y \in SyncRecord /\ SyncShape(y)
  <2> DEFINE y == [syncs[s] EXCEPT !.at = "stale"]
  <2>1. syncs[s] \in SyncRecord /\ SyncShape(syncs[s])
    BY DEF RetentionTypes, SyncShapes
  <2>2. y \in SyncRecord /\ y.at = "stale" /\ y.max = syncs[s].max /\ y.patch = syncs[s].patch
    BY <2>1 DEF SyncRecord
  <2>3. SyncShape(y)
    BY <1>3, <2>1, <2>2 DEF SyncShape
  <2> QED
    BY <2>2, <2>3
<1> QED
  BY <1>1, <1>2, <1>3

\* Marking syncs outdated keeps their types and shapes.
LEMMA OutdatedSyncs ==
  ASSUME RetentionAssumption, RetentionTypes, SyncShapes, NEW ss
  PROVE  /\ Outdated(ss) \in [Syncs -> SyncRecord]
         /\ \A s \in Syncs : SyncShape(Outdated(ss)[s])
         /\ \A s \in Syncs : \/ s \notin ss \/ syncs[s].at # "read"
                             \/ /\ Outdated(ss)[s].at = "stale"
                                /\ Outdated(ss)[s].max = syncs[s].max
                                /\ Outdated(ss)[s].patch = syncs[s].patch
         /\ \A s \in Syncs : (s \notin ss \/ syncs[s].at # "read") => Outdated(ss)[s] = syncs[s]
<1> DEFINE y(s) == [syncs[s] EXCEPT !.at = "stale"]
<1>1. \A s \in Syncs : syncs[s] \in SyncRecord /\ SyncShape(syncs[s])
  BY DEF RetentionTypes, SyncShapes
<1>2. \A s \in Syncs : syncs[s].at = "read" => y(s) \in SyncRecord /\ SyncShape(y(s))
  BY SyncRecords
<1>3. \A s \in Syncs : /\ y(s).at = "stale" /\ y(s).max = syncs[s].max /\ y(s).patch = syncs[s].patch
  BY <1>1 DEF SyncRecord
<1>4. Outdated(ss) = [s \in Syncs |-> IF s \in ss /\ syncs[s].at = "read" THEN y(s) ELSE syncs[s]]
  BY DEF Outdated
<1> HIDE DEF y
<1> QED
  BY <1>1, <1>2, <1>3, <1>4

\* The types, shapes and current patches are what the steps of types rest on.
RetentionForms == RetentionTypes /\ GraceRestores /\ SyncShapes /\ PatchesAreCurrent

\* A step that writes only the syncs keeps types and shapes when the new ones have them.
LEMMA FormsOfSyncs ==
  ASSUME RetentionTypes, GraceRestores,
         syncs' \in [Syncs -> SyncRecord], \A s \in Syncs : SyncShape(syncs'[s]),
         UNCHANGED <<now, ceiling, settings, edit, purges, held, chosen, lostAt, expected, clobbered>>,
         changes' \in 0..MaxChanges, failures' \in 0..MaxFailures, missed' \in BOOLEAN
  PROVE  RetentionTypes' /\ GraceRestores' /\ SyncShapes'
BY DEF RetentionTypes, GraceRestores, SyncShapes, Days, Settings, SyncRecord, PurgeRecord, Patches

LEMMA FormsNextDay ==
  ASSUME RetentionAssumption, RetentionForms, Ages, NextDay
  PROVE  RetentionTypes' /\ GraceRestores' /\ SyncShapes'
<1> USE DEF RetentionForms
<1>1. now' \in 0..MaxDay
  BY RetentionNumbers DEF NextDay
<1>2. held' \in [Tables -> 0..MaxDay]
  <2>1. \A t \in Tables : held[t] + 1 \in 0..MaxDay
    BY RetentionNumbers DEF NextDay, Ages
  <2> QED
    BY <2>1 DEF NextDay
<1>3. purges' \in [Purges -> PurgeRecord]
  <2>1. \A p \in Purges : purges[p] \in PurgeRecord
    BY DEF RetentionTypes
  <2>2. \A p \in Purges : purges[p].age + 1 \in 0..MaxDay
    BY RetentionNumbers DEF NextDay, Ages
  <2>3. \A p \in Purges : [purges[p] EXCEPT !.age = @ + 1] \in PurgeRecord
    BY <2>1, <2>2 DEF PurgeRecord
  <2> QED
    BY <2>1, <2>3 DEF NextDay
<1>4. now + 1 \in Nat
  BY RetentionNumbers
<1>5. chosen' \in Days
  BY <1>4, CoveredIsCovered DEF NextDay
<1>6. expected' \in 0..MaxDay
  <2>1. chosen' \in Nat
    BY <1>5, CeilingsAreDays
  <2>2. expected + 1 \in Nat /\ expected + 1 <= MaxDay
    BY RetentionNumbers DEF NextDay, Ages
  <2> QED
    BY <2>1, <2>2, RetentionNumbers, LeastOfTwo DEF NextDay
<1>7. GraceRestores' /\ SyncShapes'
  BY DEF NextDay, GraceRestores, SyncShapes
<1>8. UNCHANGED <<ceiling, settings, syncs, edit, changes, failures, lostAt, clobbered, missed>>
  BY DEF NextDay
<1>9. RetentionTypes'
  BY <1>1, <1>2, <1>3, <1>5, <1>6, <1>8 DEF RetentionTypes
<1> QED
  BY <1>7, <1>9

LEMMA FormsCheckEdit ==
  ASSUME RetentionAssumption, RetentionForms, NEW d \in Days, CheckEdit(d)
  PROVE  RetentionTypes' /\ GraceRestores' /\ SyncShapes'
<1> USE DEF RetentionForms
<1>1. changes' \in 0..MaxChanges
  BY DEF CheckEdit, Change, RetentionTypes, RetentionAssumption
<1>2. GraceRestores' /\ SyncShapes'
  BY DEF CheckEdit, history, GraceRestores, SyncShapes
<1>3. RetentionTypes'
  BY <1>1 DEF CheckEdit, history, RetentionTypes
<1> QED
  BY <1>2, <1>3

LEMMA FormsApplyEdit ==
  ASSUME RetentionAssumption, RetentionForms, ApplyEdit
  PROVE  RetentionTypes' /\ GraceRestores' /\ SyncShapes'
<1> USE DEF RetentionForms
<1>1. edit \in Days /\ edit \in Nat \ {0}
  BY CeilingsAreDays DEF ApplyEdit, RetentionTypes
<1>2. settings' = [days |-> edit, restore |-> 0, until |-> 0]
  BY DEF ApplyEdit
<1>3. settings' \in Settings
  BY <1>1, <1>2, RetentionNumbers DEF Settings
<1>4. syncs' \in [Syncs -> SyncRecord] /\ SyncShapes'
  BY OutdatedSyncs DEF ApplyEdit, SyncShapes
<1>5. expected' \in 0..MaxDay
  <2>1. expected' \in Nat /\ expected' <= expected
    BY <1>1, RetentionNumbers, LeastOfTwo DEF ApplyEdit
  <2> QED
    BY <2>1 DEF RetentionTypes, RetentionAssumption
<1>6. clobbered' \in BOOLEAN
  BY DEF ApplyEdit, RetentionTypes
<1>7. GraceRestores'
  BY <1>2 DEF GraceRestores
<1>8. /\ UNCHANGED <<now, ceiling, purges, held, changes, failures, lostAt, missed>>
      /\ chosen' = edit /\ edit' = 0
  BY DEF ApplyEdit
<1>9. RetentionTypes'
  BY <1>1, <1>3, <1>4, <1>5, <1>6, <1>8 DEF RetentionTypes
<1> QED
  BY <1>4, <1>7, <1>9

LEMMA FormsChangeTier ==
  ASSUME RetentionAssumption, RetentionForms, NEW s \in Syncs, NEW max \in Ceilings, ChangeTier(s, max)
  PROVE  RetentionTypes' /\ GraceRestores' /\ SyncShapes'
<1> USE DEF RetentionForms
<1>1. changes' \in 0..MaxChanges
  BY DEF ChangeTier, Change, RetentionTypes, RetentionAssumption
<1>2. syncs' \in [Syncs -> SyncRecord] /\ SyncShapes'
  BY SyncRecords DEF ChangeTier, SyncShapes, RetentionTypes
<1>3. lostAt' \in [Days -> 0..MaxDay]
  BY DEF ChangeTier, RetentionTypes
<1>4. UNCHANGED <<now, settings, edit, purges, held, failures, chosen, expected, clobbered, missed>>
  BY DEF ChangeTier
<1>5. ceiling' \in Ceilings
  BY DEF ChangeTier
<1>6. GraceRestores'
  BY <1>4 DEF GraceRestores
<1>7. RetentionTypes'
  BY <1>1, <1>2, <1>3, <1>4, <1>5 DEF RetentionTypes
<1> QED
  BY <1>2, <1>6, <1>7

LEMMA PatchIsPatch ==
  ASSUME RetentionAssumption, RetentionForms, NEW max \in Ceilings
  PROVE  PatchFor(max) = {} \/ \E p \in Patches : PatchFor(max) = {p}
<1> USE DEF RetentionForms
<1>1. max \in Days
  BY CeilingsAreDays
<1>2. PatchOf(PatchFor(max), max)
  BY PatchCases
<1>3. CASE PatchFor(max) = {}
  BY <1>3
<1>4. ASSUME PatchFor(max) = {Restore}, settings.restore # 0
      PROVE  \E p \in Patches : PatchFor(max) = {p}
  <2>1. Restore \in Settings
    BY <1>4, RetentionNumbers DEF Restore, Settings
  <2> QED
    BY <1>4, <2>1 DEF Patches
<1>5. ASSUME NEW m \in Days, PatchFor(max) = {[days |-> max, restore |-> m, until |-> now + Grace]}
      PROVE  \E p \in Patches : PatchFor(max) = {p}
  <2>1. now + Grace \in 0..(MaxDay + Grace)
    BY RetentionNumbers
  <2>2. [days |-> max, restore |-> m, until |-> now + Grace] \in Settings
    BY <1>1, <2>1 DEF Settings
  <2> QED
    BY <1>5, <2>2 DEF Patches
<1>6. ASSUME PatchFor(max) = {Raise(max)}
      PROVE  \E p \in Patches : PatchFor(max) = {p}
  BY <1>1, <1>6 DEF Patches, Raise
<1> QED
  BY <1>2, <1>3, <1>4, <1>5, <1>6 DEF PatchOf

\* The sync that read the settings.
LEMMA ReadSync ==
  ASSUME RetentionAssumption, RetentionForms, NEW s \in Syncs, ReadSettings(s)
  PROVE  /\ syncs[s].at = "tier" /\ syncs[s].max \in Ceilings
         /\ syncs' = [syncs EXCEPT ![s] = syncs'[s]] /\ syncs'[s] \in SyncRecord /\ SyncShape(syncs'[s])
         /\ syncs'[s].at = "read" /\ syncs'[s].max = syncs[s].max
         /\ syncs'[s].patch = PatchFor(syncs[s].max)
<1> USE DEF RetentionForms
<1> DEFINE q == PatchFor(syncs[s].max)
           y == [syncs[s] EXCEPT !.at = "read", !.patch = q]
<1>1. syncs[s].at = "tier" /\ syncs[s].max \in Ceilings /\ syncs[s] \in SyncRecord
  BY DEF ReadSettings, SyncShapes, SyncShape, RetentionTypes
<1>2. q = {} \/ \E p \in Patches : q = {p}
  BY <1>1, PatchIsPatch
<1>3. q \in SUBSET Patches
  BY <1>2
<1>4. syncs' = [syncs EXCEPT ![s].at = "read", ![s].patch = q]
  BY DEF ReadSettings
<1> HIDE DEF q
<1>5. syncs' = [syncs EXCEPT ![s] = y] /\ syncs'[s] = y
  BY <1>4 DEF RetentionTypes
<1>6. y \in SyncRecord /\ y.at = "read" /\ y.max = syncs[s].max /\ y.patch = q
  BY <1>1, <1>3 DEF SyncRecord
<1>7. SyncShape(y)
  BY <1>1, <1>2, <1>6 DEF SyncShape
<1> HIDE DEF y
<1> QED
  BY <1>1, <1>5, <1>6, <1>7 DEF q

LEMMA FormsReadSettings ==
  ASSUME RetentionAssumption, RetentionForms, NEW s \in Syncs, ReadSettings(s)
  PROVE  RetentionTypes' /\ GraceRestores' /\ SyncShapes'
<1> USE DEF RetentionForms
<1>1. /\ syncs' = [syncs EXCEPT ![s] = syncs'[s]] /\ syncs'[s] \in SyncRecord /\ SyncShape(syncs'[s])
  BY ReadSync
<1>2. syncs' \in [Syncs -> SyncRecord] /\ \A u \in Syncs : SyncShape(syncs'[u])
  BY <1>1 DEF RetentionTypes, SyncShapes
<1>3. UNCHANGED <<now, ceiling, settings, edit, purges, held, changes, failures, chosen, lostAt, expected,
                  clobbered, missed>>
  BY DEF ReadSettings, history
<1>4. changes' \in 0..MaxChanges /\ failures' \in 0..MaxFailures /\ missed' \in BOOLEAN
  BY <1>3 DEF RetentionTypes
<1> QED
  BY <1>2, <1>3, <1>4, FormsOfSyncs

LEMMA FormsApplyPatch ==
  ASSUME RetentionAssumption, RetentionForms, NEW s \in Syncs, ApplyPatch(s)
  PROVE  RetentionTypes' /\ GraceRestores' /\ SyncShapes'
<1> USE DEF RetentionForms
<1>1. UNCHANGED <<now, ceiling, edit, purges, held, changes, failures, chosen, lostAt, expected, missed>>
  BY DEF ApplyPatch
<1>2. NoSync \in SyncRecord /\ SyncShape(NoSync)
  BY SyncRecords
<1>3. CASE WritesNothing(s)
  <2>1. syncs' \in [Syncs -> SyncRecord] /\ \A u \in Syncs : SyncShape(syncs'[u])
    BY <1>2, <1>3 DEF WritesNothing, RetentionTypes, SyncShapes
  <2>2. changes' \in 0..MaxChanges /\ failures' \in 0..MaxFailures /\ missed' \in BOOLEAN
    BY <1>1 DEF RetentionTypes
  <2>3. UNCHANGED <<settings, clobbered>>
    BY <1>3 DEF WritesNothing
  <2> QED
    BY <1>1, <2>1, <2>2, <2>3, FormsOfSyncs
<1>4. CASE Writes(s)
  <2>1. syncs' \in [Syncs -> SyncRecord] /\ SyncShapes'
    BY <1>2, <1>4, OutdatedSyncs DEF Writes, SyncShapes
  <2>2. clobbered' \in BOOLEAN
    BY <1>4 DEF Writes, RetentionTypes
  <2>3. GraceRestores'
    <3> SUFFICES ASSUME ~clobbered' PROVE settings'.restore # 0 =>
                        settings'.restore > settings'.days /\ settings'.until # 0
      BY DEF GraceRestores
    <3> DEFINE max == syncs[s].max
    <3>1. ~clobbered /\ syncs[s].at = "read"
      BY <1>4 DEF Writes, ApplyPatch
    <3>2. Written(settings', max)
      BY <1>4, <3>1 DEF Writes
    <3>3. max \in Nat
      BY RetentionNumbers
    <3> HIDE DEF max
    <3>4. CASE settings' = Restore
      BY <3>4 DEF Restore
    <3>5. ASSUME NEW m \in Days, settings' = [days |-> max, restore |-> m, until |-> now + Grace],
                 settings.days > max, m >= settings.days
          PROVE  settings'.restore > settings'.days /\ settings'.until # 0
      <4>1. settings'.restore = m /\ settings'.days = max /\ settings'.until = now + Grace
        BY <3>5
      <4>2. m \in Nat
        BY CeilingsAreDays
      <4> QED
        BY <3>3, <3>5, <4>1, <4>2, RetentionNumbers
    <3>6. ASSUME settings' = [settings EXCEPT !.days = max], settings.restore > max, settings.until > now
          PROVE  settings'.restore > settings'.days /\ settings'.until # 0
      <4>1. settings \in Settings
        BY DEF RetentionTypes
      <4>2. settings'.restore = settings.restore /\ settings'.days = max /\ settings'.until = settings.until
        BY <3>6, <4>1 DEF Settings
      <4> QED
        BY <3>6, <4>2, RetentionNumbers
    <3> QED
      BY <3>2, <3>4, <3>5, <3>6 DEF Written
  <2>4. settings' \in Settings
    BY <1>4 DEF Writes
  <2>5. RetentionTypes'
    BY <1>1, <2>1, <2>2, <2>4 DEF RetentionTypes
  <2> QED
    BY <2>1, <2>3, <2>5
<1> QED
  BY <1>3, <1>4, PatchEffect

LEMMA FormsSyncFails ==
  ASSUME RetentionAssumption, RetentionForms, NEW s \in Syncs, SyncFails(s)
  PROVE  RetentionTypes' /\ GraceRestores' /\ SyncShapes'
<1> USE DEF RetentionForms
<1>1. NoSync \in SyncRecord /\ SyncShape(NoSync)
  BY SyncRecords
<1>2. syncs' \in [Syncs -> SyncRecord] /\ \A u \in Syncs : SyncShape(syncs'[u])
  BY <1>1 DEF RetentionTypes, SyncShapes, SyncFails
<1>3. UNCHANGED <<now, ceiling, settings, edit, purges, held, changes, chosen, lostAt, expected, clobbered>>
  BY DEF SyncFails
<1>4. failures' \in 0..MaxFailures
  BY DEF SyncFails, Failure, RetentionTypes, RetentionAssumption
<1>5. changes' \in 0..MaxChanges
  BY <1>3 DEF RetentionTypes
<1>6. missed' \in BOOLEAN
  <2>1. missed' = TRUE
    BY DEF SyncFails
  <2> QED
    BY <2>1
<1> QED
  BY <1>2, <1>3, <1>4, <1>5, <1>6, FormsOfSyncs

LEMMA EffectiveIsDay ==
  ASSUME RetentionAssumption, RetentionTypes
  PROVE  EffectiveDays \in Days /\ EffectiveDays \in Nat /\ EffectiveDays >= settings.days
<1>1. EffectiveDays \in Days /\ EffectiveDays >= settings.days
  BY RetentionNumbers, CeilingsAreDays DEF EffectiveDays
<1> QED
  BY <1>1, CeilingsAreDays

\* A purge that is done with a table.
LEMMA RestOfPurge ==
  ASSUME RetentionAssumption, RetentionTypes, NEW p \in Purges, NEW t \in Tables
  PROVE  /\ Rest(p, t) \in PurgeRecord
         /\ Rest(p, t).age = purges[p].age \/ Rest(p, t).age = 0
         /\ Rest(p, t).left = {} \/ (Rest(p, t).days = purges[p].days /\ Rest(p, t).age = purges[p].age
                                     /\ purges[p].left # {})
<1> DEFINE y == [purges[p] EXCEPT !.left = @ \ {t}]
<1>1. purges[p] \in PurgeRecord
  BY DEF RetentionTypes
<1>2. y \in PurgeRecord /\ y.age = purges[p].age /\ y.days = purges[p].days /\ y.left = purges[p].left \ {t}
  BY <1>1 DEF PurgeRecord
<1>3. NoPurge.left = {} /\ NoPurge.age = 0 /\ NoPurge.days = 0
  BY DEF NoPurge
<1>4. NoPurge \in PurgeRecord
  BY DEF NoPurge, PurgeRecord, RetentionAssumption
<1>5. Rest(p, t) = IF purges[p].left = {t} THEN NoPurge ELSE y
  BY DEF Rest
<1> HIDE DEF y
<1> QED
  BY <1>2, <1>3, <1>4, <1>5

LEMMA FormsPurge ==
  ASSUME RetentionAssumption, RetentionForms, NEW p \in Purges,
         StartPurge(p) \/ \E t \in Tables : Delete(p, t) \/ DeleteFails(p, t)
  PROVE  RetentionTypes' /\ GraceRestores' /\ SyncShapes'
<1> USE DEF RetentionForms
<1>1. UNCHANGED <<now, ceiling, settings, syncs, edit, changes, history>>
  BY DEF StartPurge, Delete, DeleteFails, history
<1>2. purges' \in [Purges -> PurgeRecord] /\ held' \in [Tables -> 0..MaxDay] /\ failures' \in 0..MaxFailures
  <2>1. CASE StartPurge(p)
    <3>1. [days |-> EffectiveDays, age |-> 0, left |-> Tables] \in PurgeRecord
      BY EffectiveIsDay DEF PurgeRecord, RetentionAssumption
    <3>2. purges' \in [Purges -> PurgeRecord]
      BY <2>1, <3>1 DEF StartPurge, RetentionTypes
    <3> QED
      BY <2>1, <3>2 DEF StartPurge, RetentionTypes
  <2>2. ASSUME NEW t \in Tables, Delete(p, t)
        PROVE  purges' \in [Purges -> PurgeRecord] /\ held' \in [Tables -> 0..MaxDay] /\ failures' \in 0..MaxFailures
    <3>1. purges' \in [Purges -> PurgeRecord]
      BY <2>2, RestOfPurge DEF Delete, RetentionTypes
    <3> DEFINE h == Least(held[t], purges[p].days + purges[p].age)
    <3>2. h \in 0..MaxDay
      <4>1. held[t] \in Nat /\ purges[p].days + purges[p].age \in Nat /\ held[t] <= MaxDay
        BY RetentionNumbers DEF RetentionTypes
      <4>2. h \in Nat /\ h <= held[t]
        BY <4>1, LeastOfTwo
      <4> HIDE DEF h
      <4> QED
        BY <4>1, <4>2, RetentionNumbers
    <3>3. held' = [held EXCEPT ![t] = h]
      BY <2>2 DEF Delete
    <3> HIDE DEF h
    <3>4. held' \in [Tables -> 0..MaxDay]
      BY <3>2, <3>3 DEF RetentionTypes
    <3> QED
      BY <2>2, <3>1, <3>4 DEF Delete, RetentionTypes
  <2>3. ASSUME NEW t \in Tables, DeleteFails(p, t)
        PROVE  purges' \in [Purges -> PurgeRecord] /\ held' \in [Tables -> 0..MaxDay] /\ failures' \in 0..MaxFailures
    <3>1. purges' \in [Purges -> PurgeRecord]
      BY <2>3, RestOfPurge DEF DeleteFails, RetentionTypes
    <3>2. failures' \in 0..MaxFailures
      BY <2>3 DEF DeleteFails, Failure, RetentionTypes, RetentionAssumption
    <3> QED
      BY <2>3, <3>1, <3>2 DEF DeleteFails, RetentionTypes
  <2> QED
    BY <2>1, <2>2, <2>3
<1>3. GraceRestores' /\ SyncShapes'
  BY <1>1 DEF GraceRestores, SyncShapes, history
<1>4. RetentionTypes'
  BY <1>1, <1>2 DEF RetentionTypes, history
<1> QED
  BY <1>3, <1>4

\* A step by what it does: the one list of the actions that the lemmas go through.
LEMMA RetentionSteps ==
  ASSUME [RetentionNext]_retentionVars
  PROVE  \/ NextDay
         \/ \E d \in Days : CheckEdit(d)
         \/ ApplyEdit
         \/ \E s \in Syncs, max \in Ceilings : ChangeTier(s, max)
         \/ \E s \in Syncs : ReadSettings(s)
         \/ \E s \in Syncs : ApplyPatch(s)
         \/ \E s \in Syncs : SyncFails(s)
         \/ \E p \in Purges : StartPurge(p) \/ \E t \in Tables : Delete(p, t) \/ DeleteFails(p, t)
         \/ UNCHANGED retentionVars
BY DEF RetentionNext

LEMMA FormsStep ==
  ASSUME RetentionAssumption, RetentionForms, Ages, [RetentionNext]_retentionVars
  PROVE  RetentionTypes' /\ GraceRestores' /\ SyncShapes'
<1>1. CASE UNCHANGED retentionVars
  BY <1>1 DEF RetentionForms, retentionVars, RetentionTypes, GraceRestores, SyncShapes
<1> QED
  BY <1>1, RetentionSteps, FormsNextDay, FormsCheckEdit, FormsApplyEdit, FormsChangeTier, FormsReadSettings,
     FormsApplyPatch, FormsSyncFails, FormsPurge

-----------------------------------------------------------------------------
(* Ages, patches and what is chosen.                                       *)

LEMMA AgesStep ==
  ASSUME RetentionAssumption, RetentionForms, Ages, [RetentionNext]_retentionVars
  PROVE  Ages'
<1> USE DEF RetentionForms
<1>1. CASE NextDay
  <2>1. now' = now + 1 /\ lostAt' = lostAt /\ held' = [t \in Tables |-> held[t] + 1]
    BY <1>1 DEF NextDay
  <2>2. \A d \in Days : lostAt'[d] <= now'
    BY <2>1, RetentionNumbers DEF Ages
  <2>3. \A t \in Tables : held'[t] <= now'
    BY <2>1, RetentionNumbers DEF Ages
  <2>4. ASSUME NEW p \in Purges PROVE purges'[p].age <= now'
    <3>1. purges'[p] = IF purges[p] = NoPurge THEN NoPurge ELSE [purges[p] EXCEPT !.age = @ + 1]
      BY <1>1 DEF NextDay
    <3>2. purges[p] \in PurgeRecord /\ NoPurge.age = 0
      BY DEF RetentionTypes, NoPurge
    <3>3. [purges[p] EXCEPT !.age = @ + 1].age = purges[p].age + 1
      BY <3>2 DEF PurgeRecord
    <3>4. purges'[p].age = 0 \/ purges'[p].age = purges[p].age + 1
      BY <3>1, <3>2, <3>3
    <3> QED
      BY <2>1, <3>4, RetentionNumbers DEF Ages
  <2>5. expected' <= now' /\ expected' <= chosen'
    <3>1. now + 1 \in Nat
      BY RetentionNumbers
    <3>2. chosen' \in Nat
      BY <1>1, <3>1, CoveredIsCovered, CeilingsAreDays DEF NextDay
    <3>3. expected + 1 \in Nat /\ expected + 1 <= now + 1 /\ expected' = Least(expected + 1, chosen')
      BY <1>1, RetentionNumbers DEF Ages, NextDay
    <3>4. expected' \in Nat /\ expected' <= expected + 1 /\ expected' <= chosen'
      BY <3>2, <3>3, LeastOfTwo
    <3> QED
      BY <2>1, <3>2, <3>3, <3>4, RetentionNumbers
  <2> QED
    BY <2>2, <2>3, <2>4, <2>5 DEF Ages
<1>2. CASE \E d \in Days : CheckEdit(d)
  BY <1>2 DEF CheckEdit, history, Ages
<1>3. CASE ApplyEdit
  <2>1. edit \in Nat /\ expected' \in Nat /\ expected' <= expected /\ expected' <= chosen'
    BY <1>3, RetentionNumbers, LeastOfTwo DEF ApplyEdit
  <2>2. expected' <= now
    BY <2>1, RetentionNumbers DEF Ages
  <2> QED
    BY <1>3, <2>1, <2>2 DEF ApplyEdit, Ages
<1>4. CASE \E s \in Syncs, max \in Ceilings : ChangeTier(s, max)
  <2>1. UNCHANGED <<now, purges, held, chosen, expected>>
    BY <1>4 DEF ChangeTier
  <2>2. \A d \in Days : lostAt'[d] = now \/ lostAt'[d] = lostAt[d]
    BY <1>4 DEF ChangeTier
  <2>3. \A d \in Days : lostAt'[d] <= now
    BY <2>2, RetentionNumbers DEF Ages
  <2> QED
    BY <2>1, <2>3 DEF Ages
<1>5. CASE \E s \in Syncs : ReadSettings(s)
  BY <1>5 DEF ReadSettings, history, Ages
<1>6. CASE \E s \in Syncs : ApplyPatch(s)
  BY <1>6 DEF ApplyPatch, Ages
<1>7. CASE \E s \in Syncs : SyncFails(s)
  BY <1>7 DEF SyncFails, Ages
<1>8. ASSUME NEW p \in Purges, StartPurge(p) \/ \E t \in Tables : Delete(p, t) \/ DeleteFails(p, t)
      PROVE  Ages'
  <2>1. UNCHANGED <<now, lostAt, expected, chosen>>
    BY <1>8 DEF StartPurge, Delete, DeleteFails, history
  <2>2. \A t \in Tables : held'[t] <= now
    <3>1. ASSUME NEW t \in Tables, Delete(p, t) PROVE \A u \in Tables : held'[u] <= now
      <4> DEFINE h == Least(held[t], purges[p].days + purges[p].age)
      <4>1. h \in Nat /\ h <= held[t]
        <5>1. held[t] \in Nat /\ purges[p].days + purges[p].age \in Nat
          BY RetentionNumbers
        <5> QED
          BY <5>1, LeastOfTwo
      <4>2. held' = [held EXCEPT ![t] = h]
        BY <3>1 DEF Delete
      <4> HIDE DEF h
      <4>3. \A u \in Tables : held'[u] = held[u] \/ (u = t /\ held'[u] = h)
        BY <4>2 DEF RetentionTypes
      <4> QED
        BY <4>1, <4>3, RetentionNumbers DEF Ages
    <3>2. ASSUME UNCHANGED held PROVE \A u \in Tables : held'[u] <= now
      BY <3>2 DEF Ages
    <3> QED
      BY <1>8, <3>1, <3>2 DEF StartPurge, DeleteFails
  <2>3. \A u \in Purges : purges'[u].age <= now
    <3>1. ASSUME StartPurge(p) PROVE \A u \in Purges : purges'[u].age = 0 \/ purges'[u] = purges[u]
      BY <3>1 DEF StartPurge, RetentionTypes
    <3>2. ASSUME NEW t \in Tables, purges' = [purges EXCEPT ![p] = Rest(p, t)]
          PROVE  \A u \in Purges : purges'[u].age = 0 \/ purges'[u].age = purges[u].age
      BY <3>2, RestOfPurge DEF RetentionTypes
    <3>3. \A u \in Purges : purges'[u].age = 0 \/ purges'[u].age = purges[u].age
      BY <1>8, <3>1, <3>2 DEF Delete, DeleteFails
    <3> QED
      BY <3>3, RetentionNumbers DEF Ages
  <2> QED
    BY <2>1, <2>2, <2>3 DEF Ages
<1>9. CASE UNCHANGED retentionVars
  BY <1>9 DEF retentionVars, Ages
<1> QED
  BY <1>1, <1>2, <1>3, <1>4, <1>5, <1>6, <1>7, <1>8, <1>9, RetentionSteps

LEMMA CurrentPatches ==
  ASSUME RetentionAssumption, RetentionForms, [RetentionNext]_retentionVars
  PROVE  PatchesAreCurrent'
<1> USE DEF RetentionForms
<1>1. ASSUME UNCHANGED <<now, settings>>,
             \A s \in Syncs : syncs'[s].at = "read" => syncs'[s] = syncs[s]
      PROVE  PatchesAreCurrent'
  <2>1. \A max : PatchFor(max)' = PatchFor(max)
    BY <1>1 DEF PatchFor, Restore, Clamp, Raise
  <2> QED
    BY <1>1, <2>1 DEF PatchesAreCurrent
<1>2. NoSync.at = "idle"
  BY DEF NoSync
<1>3. CASE NextDay
  <2>1. \A s \in Syncs : syncs'[s].at # "read"
    BY <1>2, <1>3 DEF NextDay, Handling
  <2> QED
    BY <2>1 DEF PatchesAreCurrent
<1>4. CASE \E d \in Days : CheckEdit(d)
  BY <1>1, <1>4 DEF CheckEdit, history
<1>5. CASE ApplyEdit
  <2>1. \A s \in Syncs : syncs'[s].at # "read"
    BY <1>5, OutdatedSyncs DEF ApplyEdit
  <2> QED
    BY <2>1 DEF PatchesAreCurrent
<1>6. ASSUME NEW s \in Syncs, NEW max \in Ceilings, ChangeTier(s, max) PROVE PatchesAreCurrent'
  <2> DEFINE y == [NoSync EXCEPT !.at = "tier", !.max = max]
  <2>1. y.at = "tier"
    BY DEF NoSync
  <2>2. syncs' = [syncs EXCEPT ![s] = y]
    BY <1>6 DEF ChangeTier
  <2> HIDE DEF y
  <2>3. \A u \in Syncs : syncs'[u].at = "read" => syncs'[u] = syncs[u]
    BY <2>1, <2>2 DEF RetentionTypes
  <2> QED
    BY <1>1, <1>6, <2>3 DEF ChangeTier
<1>7. ASSUME NEW s \in Syncs, ReadSettings(s) PROVE PatchesAreCurrent'
  <2>1. UNCHANGED <<now, settings>>
    BY <1>7 DEF ReadSettings
  <2>2. \A max : PatchFor(max)' = PatchFor(max)
    BY <2>1 DEF PatchFor, Restore, Clamp, Raise
  <2>3. /\ syncs' = [syncs EXCEPT ![s] = syncs'[s]]
        /\ syncs'[s].max = syncs[s].max /\ syncs'[s].patch = PatchFor(syncs[s].max)
    BY <1>7, ReadSync
  <2>4. ASSUME NEW u \in Syncs, syncs'[u].at = "read" PROVE syncs'[u].patch = PatchFor(syncs'[u].max)
    <3>1. CASE u = s
      BY <2>3, <3>1
    <3>2. CASE u # s
      <4>1. syncs'[u] = syncs[u]
        BY <2>3, <3>2 DEF RetentionTypes
      <4> QED
        BY <2>4, <4>1 DEF PatchesAreCurrent
    <3> QED
      BY <3>1, <3>2
  <2> QED
    BY <2>2, <2>4 DEF PatchesAreCurrent
<1>8. ASSUME NEW s \in Syncs, ApplyPatch(s) PROVE PatchesAreCurrent'
  <2>1. now' = now
    BY <1>8 DEF ApplyPatch
  <2>2. CASE WritesNothing(s)
    <3>1. \A u \in Syncs : syncs'[u].at = "read" => syncs'[u] = syncs[u]
      BY <1>2, <2>2 DEF WritesNothing, RetentionTypes
    <3> QED
      BY <1>1, <2>1, <2>2, <3>1 DEF WritesNothing
  <2>3. CASE Writes(s)
    <3>1. \A u \in Syncs : u = s \/ Outdated(Syncs \ {s})[u].at # "read"
      BY OutdatedSyncs
    <3>2. \A u \in Syncs : syncs'[u].at # "read"
      BY <1>2, <2>3, <3>1, OutdatedSyncs DEF Writes
    <3> QED
      BY <3>2 DEF PatchesAreCurrent
  <2> QED
    BY <1>8, <2>2, <2>3, PatchEffect
<1>9. ASSUME NEW s \in Syncs, SyncFails(s) PROVE PatchesAreCurrent'
  <2>1. \A u \in Syncs : syncs'[u].at = "read" => syncs'[u] = syncs[u]
    BY <1>2, <1>9 DEF SyncFails, RetentionTypes
  <2> QED
    BY <1>1, <1>9, <2>1 DEF SyncFails
<1>10. CASE \E p \in Purges : StartPurge(p) \/ \E t \in Tables : Delete(p, t) \/ DeleteFails(p, t)
  <2>1. UNCHANGED <<now, settings, syncs>>
    BY <1>10 DEF StartPurge, Delete, DeleteFails
  <2> QED
    BY <1>1, <2>1
<1>11. CASE UNCHANGED retentionVars
  BY <1>1, <1>11 DEF retentionVars
<1> QED
  BY <1>3, <1>4, <1>5, <1>6, <1>7, <1>8, <1>9, <1>10, <1>11, RetentionSteps

LEMMA ChosenStep ==
  ASSUME RetentionAssumption, RetentionForms, Ages, ChosenIsCovered, [RetentionNext]_retentionVars
  PROVE  ChosenIsCovered'
<1> USE DEF RetentionForms
<1>1. ASSUME UNCHANGED <<now, ceiling, edit, chosen, lostAt>> PROVE ChosenIsCovered'
  BY <1>1 DEF ChosenIsCovered
<1>2. CASE NextDay
  <2>1. now + 1 \in Nat
    BY RetentionNumbers
  <2>2. chosen' <= ceiling \/ now + 1 < lostAt[chosen'] + Grace
    BY <1>2, <2>1, CoveredIsCovered DEF NextDay
  <2>3. edit' = 0
    BY <1>2 DEF NextDay, Handling
  <2> QED
    BY <1>2, <2>2, <2>3 DEF NextDay, ChosenIsCovered
<1>3. ASSUME NEW d \in Days, CheckEdit(d) PROVE ChosenIsCovered'
  BY <1>3 DEF CheckEdit, history, ChosenIsCovered
<1>4. CASE ApplyEdit
  <2>1. edit \in Days /\ edit # 0
    BY <1>4 DEF ApplyEdit, RetentionTypes
  <2>2. edit <= ceiling \/ now < lostAt[edit] + Grace
    BY <2>1, RetentionNumbers DEF ChosenIsCovered
  <2> QED
    BY <1>4, <2>2 DEF ApplyEdit, ChosenIsCovered
<1>5. ASSUME NEW s \in Syncs, NEW max \in Ceilings, ChangeTier(s, max) PROVE ChosenIsCovered'
  <2>1. /\ ceiling' = max /\ UNCHANGED <<now, edit, chosen>>
        /\ \A d \in Days : lostAt'[d] = IF max < d /\ d <= ceiling THEN now ELSE lostAt[d]
    BY <1>5 DEF ChangeTier
  <2>2. max \in Nat /\ chosen \in Days
    BY CeilingsAreDays DEF RetentionTypes
  <2>3. chosen <= max \/ now < lostAt'[chosen] + Grace
    BY <2>1, <2>2, RetentionNumbers DEF ChosenIsCovered
  <2>4. ASSUME edit # 0 PROVE edit <= max \/ lostAt'[edit] = now
    <3>1. edit \in Days
      BY <2>4 DEF RetentionTypes
    <3> QED
      BY <2>1, <2>2, <2>4, <3>1, RetentionNumbers DEF ChosenIsCovered
  <2> QED
    BY <2>1, <2>3, <2>4 DEF ChosenIsCovered
<1>6. CASE \E s \in Syncs : ReadSettings(s) \/ ApplyPatch(s) \/ SyncFails(s)
  BY <1>1, <1>6 DEF ReadSettings, ApplyPatch, SyncFails, history
<1>7. CASE \E p \in Purges : StartPurge(p) \/ \E t \in Tables : Delete(p, t) \/ DeleteFails(p, t)
  BY <1>1, <1>7 DEF StartPurge, Delete, DeleteFails, history
<1>8. CASE UNCHANGED retentionVars
  BY <1>1, <1>8 DEF retentionVars
<1> QED
  BY <1>2, <1>3, <1>4, <1>5, <1>6, <1>7, <1>8, RetentionSteps

-----------------------------------------------------------------------------
(* What is kept when nothing was clobbered or missed.                      *)

\* No step takes back what was clobbered or missed.
LEMMA CleanBefore ==
  ASSUME [RetentionNext]_retentionVars, Clean'
  PROVE  Clean
<1>1. CASE NextDay \/ \E d \in Days : CheckEdit(d)
  BY <1>1 DEF NextDay, CheckEdit, history, Clean
<1>2. CASE \E s \in Syncs, max \in Ceilings : ChangeTier(s, max)
  BY <1>2 DEF ChangeTier, Clean
<1>3. CASE ApplyEdit
  <2>1. clobbered' = (clobbered \/ (edit > ceiling /\ ~SyncToCome)) /\ missed' = missed
    BY <1>3 DEF ApplyEdit
  <2> QED
    BY <2>1, Zenon DEF Clean
<1>4. CASE \E s \in Syncs : ReadSettings(s)
  BY <1>4 DEF ReadSettings, history, Clean
<1>5. ASSUME NEW s \in Syncs, ApplyPatch(s) PROVE Clean
  <2>1. missed' = missed
    BY <1>5 DEF ApplyPatch
  <2>2. \/ clobbered' = clobbered
        \/ clobbered' = (clobbered \/ syncs[s].at = "stale" \/ (syncs[s].max # ceiling /\ ~SyncToCome))
    BY <1>5 DEF ApplyPatch
  <2>3. CASE clobbered' = clobbered
    BY <2>1, <2>3 DEF Clean
  <2>4. CASE clobbered' = (clobbered \/ syncs[s].at = "stale" \/ (syncs[s].max # ceiling /\ ~SyncToCome))
    BY <2>1, <2>4, Zenon DEF Clean
  <2> QED
    BY <2>2, <2>3, <2>4
<1>6. CASE \E s \in Syncs : SyncFails(s)
  BY <1>6 DEF SyncFails, Clean
<1>7. CASE \E p \in Purges : StartPurge(p) \/ \E t \in Tables : Delete(p, t) \/ DeleteFails(p, t)
  BY <1>7 DEF StartPurge, Delete, DeleteFails, history, Clean
<1>8. CASE UNCHANGED retentionVars
  BY <1>8 DEF retentionVars, Clean
<1> QED
  BY <1>1, <1>2, <1>3, <1>4, <1>5, <1>6, <1>7, <1>8, RetentionSteps

\* When no patch is due the setting is what counts, or just what the plan covers.
LEMMA NothingToPatch ==
  ASSUME RetentionAssumption, RetentionForms, NEW max \in Ceilings, PatchFor(max) = {},
         chosen <= EffectiveDays
  PROVE  settings.days <= max /\ Least(chosen, max) <= settings.days
         /\ \A d \in Days : d <= chosen /\ d <= max => d <= settings.days
<1> USE DEF RetentionForms
<1>1. PatchOf({}, max)
  BY PatchCases
<1>2. settings.days <= max /\ (EffectiveDays = settings.days \/ settings.days = max)
  BY <1>1 DEF PatchOf
<1>3. max \in Nat /\ \A d \in Days : d \in Nat
  BY CeilingsAreDays
<1>4. Least(chosen, max) \in Nat /\ Least(chosen, max) <= chosen /\ Least(chosen, max) <= max
  BY <1>3, RetentionNumbers, LeastOfTwo
<1>5. CASE EffectiveDays = settings.days
  BY <1>2, <1>3, <1>4, <1>5, RetentionNumbers
<1>6. CASE settings.days = max
  BY <1>2, <1>3, <1>4, <1>6, RetentionNumbers
<1> QED
  BY <1>2, <1>5, <1>6

LEMMA KeptNextDay ==
  ASSUME RetentionAssumption, RetentionForms, SettingIsKept, NextDay
  PROVE  SettingIsKept'
<1> USE DEF RetentionForms
<1>1. now + 1 \in Nat
  BY RetentionNumbers
<1>2. /\ now' = now + 1 /\ chosen' = Covered(now + 1)
      /\ UNCHANGED <<ceiling, settings, syncs, lostAt>>
      /\ \A s \in Syncs : syncs[s] = NoSync
  BY DEF NextDay, Handling
<1>3. /\ chosen' \in Days /\ chosen' \in Nat /\ chosen' <= chosen
      /\ chosen' <= ceiling \/ now' < lostAt[chosen'] + Grace
  BY <1>1, <1>2, CoveredIsCovered, CeilingsAreDays
<1>4. \A s \in Syncs : syncs[s].at = "idle"
  BY <1>2 DEF NoSync
<1>5. WithinPlan
  BY <1>4 DEF SettingIsKept, PlanIsFollowed, SyncToCome
<1>6. \A d \in Days : d <= chosen /\ d > ceiling /\ now < lostAt[d] + Grace =>
        d <= settings.days \/ (settings.restore >= d /\ settings.until >= lostAt[d] + Grace)
  BY <1>4 DEF SettingIsKept, GraceIsGiven, KeptDay
<1>7. chosen' <= EffectiveDays'
  <2>1. CASE chosen' <= ceiling
    <3>1. chosen' <= Least(chosen, ceiling)
      BY <1>3, <2>1, RetentionNumbers, LeastOfTwo
    <3>2. Least(chosen, ceiling) \in Nat
      BY RetentionNumbers, LeastOfTwo
    <3>3. chosen' <= settings.days
      BY <1>3, <1>5, <3>1, <3>2, RetentionNumbers DEF WithinPlan
    <3> QED
      BY <1>2, <1>3, <3>3, RetentionNumbers DEF EffectiveDays
  <2>2. CASE ~(chosen' <= ceiling)
    <3>1. now' < lostAt[chosen'] + Grace /\ now < lostAt[chosen'] + Grace
      BY <1>2, <1>3, <2>2, RetentionNumbers
    <3>2. chosen' <= settings.days \/ (settings.restore >= chosen' /\ settings.until >= lostAt[chosen'] + Grace)
      BY <1>3, <1>6, <2>2, <3>1, RetentionNumbers
    <3>3. now' \in Nat /\ lostAt[chosen'] \in Nat
      BY <1>1, <1>2, <1>3, RetentionNumbers
    <3> QED
      BY <1>2, <1>3, <3>1, <3>2, <3>3, RetentionNumbers DEF EffectiveDays
  <2> QED
    BY <2>1, <2>2
<1>8. GraceIsGiven'
  <2> SUFFICES ASSUME NEW d \in Days, d <= chosen', d > ceiling, now' < lostAt[d] + Grace
               PROVE  KeptDay(d)'
    BY <1>2 DEF GraceIsGiven, Days
  <2>1. d \in Nat
    BY CeilingsAreDays
  <2>2. d <= chosen /\ now < lostAt[d] + Grace
    BY <1>2, <1>3, <2>1, RetentionNumbers
  <2> QED
    BY <1>2, <1>6, <2>2 DEF KeptDay
<1>9. PlanIsFollowed'
  <2>1. Least(chosen', ceiling) <= Least(chosen, ceiling)
    BY <1>3, RetentionNumbers DEF Least
  <2>2. Least(chosen', ceiling) \in Nat /\ Least(chosen, ceiling) \in Nat
    BY <1>3, RetentionNumbers, LeastOfTwo
  <2>3. Least(chosen', ceiling) <= settings.days /\ settings.days <= ceiling
    BY <1>5, <2>1, <2>2, RetentionNumbers DEF WithinPlan
  <2>4. WithinPlan'
    BY <1>2, <2>3 DEF WithinPlan, Least
  <2> QED
    BY <2>4 DEF PlanIsFollowed
<1> QED
  BY <1>7, <1>8, <1>9 DEF SettingIsKept

LEMMA KeptApplyEdit ==
  ASSUME RetentionAssumption, RetentionForms, SettingIsKept, ApplyEdit, Clean'
  PROVE  SettingIsKept'
<1> USE DEF RetentionForms
<1>1. edit \in Days /\ edit \in Nat \ {0}
  BY CeilingsAreDays DEF ApplyEdit, RetentionTypes
<1>2. /\ settings' = [days |-> edit, restore |-> 0, until |-> 0]
      /\ chosen' = edit /\ UNCHANGED <<now, ceiling, lostAt>>
      /\ syncs' = Outdated(Syncs)
      /\ edit <= ceiling \/ SyncToCome
  <2>1. clobbered' = (clobbered \/ (edit > ceiling /\ ~SyncToCome)) /\ ~clobbered'
    BY DEF ApplyEdit, Clean
  <2>2. ~(edit > ceiling) \/ SyncToCome
    BY <2>1, Zenon
  <2>3. edit <= ceiling \/ SyncToCome
    BY <2>2, RetentionNumbers
  <2> QED
    BY <2>3 DEF ApplyEdit
<1>3. settings'.days = edit /\ settings'.restore = 0 /\ settings'.until = 0
  BY <1>2
<1>4. chosen' <= EffectiveDays'
  BY <1>1, <1>2, <1>3 DEF EffectiveDays
<1>5. GraceIsGiven'
  BY <1>2, <1>3 DEF GraceIsGiven, KeptDay, Days
<1>6. PlanIsFollowed'
  <2>1. CASE SyncToCome
    <3>1. PICK s \in Syncs : syncs[s].at = "tier" /\ syncs[s].max = ceiling
      BY <2>1 DEF SyncToCome
    <3>2. syncs'[s] = syncs[s]
      BY <1>2, <3>1, OutdatedSyncs
    <3> QED
      BY <1>2, <3>1, <3>2 DEF PlanIsFollowed, SyncToCome
  <2>2. CASE edit <= ceiling
    BY <1>1, <1>2, <1>3, <2>2, RetentionNumbers DEF PlanIsFollowed, WithinPlan, Least
  <2> QED
    BY <1>2, <2>1, <2>2
<1> QED
  BY <1>4, <1>5, <1>6 DEF SettingIsKept

LEMMA KeptChangeTier ==
  ASSUME RetentionAssumption, RetentionForms, SettingIsKept,
         NEW s \in Syncs, NEW max \in Ceilings, ChangeTier(s, max)
  PROVE  SettingIsKept'
<1> USE DEF RetentionForms
<1> DEFINE y == [NoSync EXCEPT !.at = "tier", !.max = max]
<1>1. /\ ceiling' = max /\ max # ceiling /\ UNCHANGED <<now, settings, chosen>>
      /\ syncs[s] = NoSync /\ syncs' = [syncs EXCEPT ![s] = y]
      /\ \A d \in Days : lostAt'[d] = IF max < d /\ d <= ceiling THEN now ELSE lostAt[d]
  BY DEF ChangeTier
<1>2. y.at = "tier" /\ y.max = max /\ NoSync.at = "idle"
  BY DEF NoSync
<1> HIDE DEF y
<1>3. \A u \in Syncs : u # s => syncs'[u] = syncs[u]
  BY <1>1 DEF RetentionTypes
<1>4. syncs'[s] = y
  BY <1>1 DEF RetentionTypes
<1>5. max \in Nat /\ \A d \in Days : d \in Nat
  BY CeilingsAreDays
<1>6. chosen' <= EffectiveDays'
  BY <1>1 DEF SettingIsKept, EffectiveDays
<1>7. GraceIsGiven'
  <2> SUFFICES ASSUME NEW d \in Days, d <= chosen, d > max, now < lostAt'[d] + Grace
               PROVE  KeptDay(d)'
    BY <1>1 DEF GraceIsGiven, Days
  <2>1. CASE d > ceiling
    <3>1. lostAt'[d] = lostAt[d]
      BY <1>1, <1>5, <2>1, RetentionNumbers
    <3>2. KeptDay(d)
      BY <2>1, <3>1 DEF SettingIsKept, GraceIsGiven
    <3>3. ASSUME NEW u \in Syncs, \/ syncs[u].at \in {"tier", "read"} /\ syncs[u].max >= d
                                  \/ syncs[u].at = "stale" /\ syncs[u].patch # {}
          PROVE  KeptDay(d)'
      <4>1. u # s
        BY <1>1, <1>2, <3>3
      <4> QED
        BY <1>3, <3>3, <4>1 DEF KeptDay
    <3> QED
      BY <1>1, <3>1, <3>2, <3>3 DEF KeptDay
  <2>2. CASE d <= ceiling
    <3>1. CASE WithinPlan
      <4>1. d <= Least(chosen, ceiling) /\ Least(chosen, ceiling) \in Nat
        BY <1>5, <2>2, RetentionNumbers, LeastOfTwo
      <4>2. d <= settings.days
        BY <1>5, <3>1, <4>1, RetentionNumbers DEF WithinPlan
      <4> QED
        BY <1>1, <4>2 DEF KeptDay
    <3>2. ASSUME NEW u \in Syncs, syncs[u].at \in {"tier", "read"}, syncs[u].max = ceiling
          PROVE  KeptDay(d)'
      <4>1. u # s
        BY <1>1, <1>2, <3>2
      <4>2. syncs'[u].at \in {"tier", "read"} /\ syncs'[u].max >= d
        BY <1>3, <1>5, <2>2, <3>2, <4>1, RetentionNumbers
      <4> QED
        BY <4>2 DEF KeptDay
    <3> QED
      BY <3>1, <3>2 DEF SettingIsKept, PlanIsFollowed, SyncToCome
  <2> QED
    BY <1>5, <2>1, <2>2, RetentionNumbers
<1>8. PlanIsFollowed'
  BY <1>1, <1>2, <1>4 DEF PlanIsFollowed, SyncToCome
<1> QED
  BY <1>6, <1>7, <1>8 DEF SettingIsKept

LEMMA KeptReadSettings ==
  ASSUME RetentionAssumption, RetentionForms, SettingIsKept, NEW s \in Syncs, ReadSettings(s)
  PROVE  SettingIsKept'
<1> USE DEF RetentionForms
<1>1. UNCHANGED <<now, ceiling, settings, chosen, lostAt>>
  BY DEF ReadSettings, history
<1>2. /\ syncs[s].at = "tier" /\ syncs[s].max \in Ceilings
      /\ syncs' = [syncs EXCEPT ![s] = syncs'[s]]
      /\ syncs'[s].at = "read" /\ syncs'[s].max = syncs[s].max
      /\ syncs'[s].patch = PatchFor(syncs[s].max)
  BY ReadSync
<1>3. \A u \in Syncs : u # s => syncs'[u] = syncs[u]
  BY <1>2 DEF RetentionTypes
<1>4. chosen' <= EffectiveDays'
  BY <1>1 DEF SettingIsKept, EffectiveDays
<1>5. GraceIsGiven'
  <2> SUFFICES ASSUME NEW d \in Days, KeptDay(d) PROVE KeptDay(d)'
    BY <1>1 DEF GraceIsGiven, SettingIsKept, Days
  <2>1. ASSUME NEW u \in Syncs, \/ syncs[u].at \in {"tier", "read"} /\ syncs[u].max >= d
                                \/ syncs[u].at = "stale" /\ syncs[u].patch # {}
        PROVE  KeptDay(d)'
    <3>1. CASE u = s
      BY <1>2, <2>1, <3>1 DEF KeptDay
    <3>2. CASE u # s
      BY <1>3, <2>1, <3>2 DEF KeptDay
    <3> QED
      BY <3>1, <3>2
  <2> QED
    BY <1>1, <2>1 DEF KeptDay
<1>6. PlanIsFollowed'
  <2>1. CASE WithinPlan
    BY <1>1, <2>1 DEF PlanIsFollowed, WithinPlan
  <2>2. ASSUME NEW u \in Syncs, u # s, \/ syncs[u].at = "tier" /\ syncs[u].max = ceiling
                                       \/ syncs[u].at = "read" /\ syncs[u].max = ceiling /\ syncs[u].patch # {}
        PROVE  PlanIsFollowed'
    BY <1>1, <1>3, <2>2 DEF PlanIsFollowed, SyncToCome
  <2>3. ASSUME syncs[s].max = ceiling PROVE PlanIsFollowed'
    <3>1. CASE PatchFor(ceiling) # {}
      BY <1>1, <1>2, <2>3, <3>1 DEF PlanIsFollowed
    <3>2. CASE PatchFor(ceiling) = {}
      <4>1. chosen <= EffectiveDays /\ ceiling \in Ceilings
        BY DEF SettingIsKept, RetentionTypes
      <4>2. WithinPlan
        BY <3>2, <4>1, NothingToPatch DEF WithinPlan
      <4> QED
        BY <1>1, <4>2 DEF PlanIsFollowed, WithinPlan
    <3> QED
      BY <3>1, <3>2
  <2> QED
    BY <1>2, <2>1, <2>2, <2>3 DEF SettingIsKept, PlanIsFollowed, SyncToCome
<1> QED
  BY <1>4, <1>5, <1>6 DEF SettingIsKept

LEMMA KeptWritesNothing ==
  ASSUME RetentionAssumption, RetentionForms, SettingIsKept,
         NEW s \in Syncs, ApplyPatch(s), WritesNothing(s)
  PROVE  SettingIsKept'
<1> USE DEF RetentionForms
<1>1. /\ UNCHANGED <<now, ceiling, settings, chosen, lostAt>>
      /\ syncs[s].at \in {"read", "stale"} /\ syncs[s].patch = {}
      /\ syncs' = [syncs EXCEPT ![s] = NoSync]
  BY DEF ApplyPatch, WritesNothing
<1>2. \A u \in Syncs : u # s => syncs'[u] = syncs[u]
  BY <1>1 DEF RetentionTypes
<1>3. chosen' <= EffectiveDays'
  BY <1>1 DEF SettingIsKept, EffectiveDays
<1>4. GraceIsGiven'
  <2> SUFFICES ASSUME NEW d \in Days, d <= chosen, KeptDay(d) PROVE KeptDay(d)'
    BY <1>1 DEF GraceIsGiven, SettingIsKept, Days
  <2>1. ASSUME NEW u \in Syncs, u # s, \/ syncs[u].at \in {"tier", "read"} /\ syncs[u].max >= d
                                       \/ syncs[u].at = "stale" /\ syncs[u].patch # {}
        PROVE  KeptDay(d)'
    BY <1>2, <2>1 DEF KeptDay
  <2>2. ASSUME syncs[s].at = "read", syncs[s].max >= d PROVE KeptDay(d)'
    <3>1. syncs[s].max \in Ceilings /\ PatchFor(syncs[s].max) = {}
      BY <1>1, <2>2 DEF SyncShapes, SyncShape, PatchesAreCurrent
    <3>2. d \in Nat /\ syncs[s].max \in Nat
      BY <3>1, CeilingsAreDays
    <3>3. d <= settings.days
      BY <2>2, <3>1, <3>2, NothingToPatch DEF SettingIsKept
    <3> QED
      BY <1>1, <3>3 DEF KeptDay
  <2> QED
    BY <1>1, <2>1, <2>2 DEF KeptDay
<1>5. PlanIsFollowed'
  <2>1. CASE WithinPlan
    BY <1>1, <2>1 DEF PlanIsFollowed, WithinPlan
  <2>2. ASSUME NEW u \in Syncs, u # s, \/ syncs[u].at = "tier" /\ syncs[u].max = ceiling
                                       \/ syncs[u].at = "read" /\ syncs[u].max = ceiling /\ syncs[u].patch # {}
        PROVE  PlanIsFollowed'
    BY <1>1, <1>2, <2>2 DEF PlanIsFollowed, SyncToCome
  <2> QED
    BY <1>1, <2>1, <2>2 DEF SettingIsKept, PlanIsFollowed, SyncToCome
<1> QED
  BY <1>3, <1>4, <1>5 DEF SettingIsKept

\* A write to the setting for a plan of max days brings it within that plan and
\* takes nothing away that is kept.
Keeps(max) ==
  /\ chosen <= EffectiveDays'
  /\ settings'.days <= max /\ Least(chosen, max) <= settings'.days
  /\ \A d \in Days : d <= chosen /\ d <= max => d <= settings'.days
  /\ \A d \in Days :
       d <= chosen /\ (d <= settings.days \/ (settings.restore >= d /\ settings.until >= lostAt[d] + Grace)) =>
         d <= settings'.days \/ (settings'.restore >= d /\ settings'.until >= lostAt[d] + Grace)

LEMMA KeptByWriting ==
  ASSUME RetentionAssumption, RetentionTypes, Ages, Clean, chosen <= EffectiveDays,
         now' = now, NEW max \in Ceilings, settings' \in Settings, Written(settings', max)
  PROVE  Keeps(max)
<1>1. max \in Nat \ {0} /\ \A d \in Days : d \in Nat
  BY CeilingsAreDays DEF RetentionAssumption
<1>2. Least(chosen, max) \in Nat /\ Least(chosen, max) <= chosen /\ Least(chosen, max) <= max
  BY <1>1, RetentionNumbers, LeastOfTwo
<1>3. EffectiveDays \in Nat
  BY EffectiveIsDay
<1>4. CASE /\ settings' = Restore
           /\ settings.restore # 0 /\ settings.restore <= max
           /\ settings.restore > settings.days /\ settings.until > now
  <2>1. settings'.days = settings.restore /\ settings'.restore = 0
    BY <1>4 DEF Restore
  <2>2. EffectiveDays = settings.restore
    BY <1>4 DEF EffectiveDays
  <2>3. EffectiveDays' = settings.restore
    BY <2>1, RetentionNumbers DEF EffectiveDays
  <2> QED
    BY <1>1, <1>2, <1>4, <2>1, <2>2, <2>3, RetentionNumbers DEF Keeps
<1>5. ASSUME NEW m \in Days, settings' = [days |-> max, restore |-> m, until |-> now + Grace],
             settings.days > max, m >= settings.restore, m >= settings.days
      PROVE  Keeps(max)
  <2>1. settings'.days = max /\ settings'.restore = m /\ settings'.until = now + Grace
    BY <1>5
  <2>2. EffectiveDays <= m
    BY <1>1, <1>5, RetentionNumbers DEF EffectiveDays
  <2>3. EffectiveDays' = m
    BY <1>1, <1>5, <2>1, RetentionNumbers DEF EffectiveDays
  <2>4. \A d \in Days : settings'.until >= lostAt[d] + Grace
    BY <2>1, RetentionNumbers DEF Ages
  <2>5. \A d \in Days : d <= settings.days \/ settings.restore >= d => m >= d
    BY <1>1, <1>5, RetentionNumbers
  <2>6. chosen <= m
    BY <1>1, <1>3, <2>2, RetentionNumbers
  <2> QED
    BY <1>1, <1>2, <2>1, <2>3, <2>4, <2>5, <2>6 DEF Keeps
<1>6. CASE /\ settings' = [settings EXCEPT !.days = max]
           /\ max > settings.days /\ settings.restore > max /\ settings.until > now
  <2>1. settings'.days = max /\ settings'.restore = settings.restore /\ settings'.until = settings.until
    BY <1>6 DEF RetentionTypes, Settings
  <2>2. EffectiveDays = settings.restore
    BY <1>1, <1>6, RetentionNumbers DEF EffectiveDays
  <2>3. EffectiveDays' = settings.restore
    BY <1>6, <2>1 DEF EffectiveDays
  <2>4. \A d \in Days : d <= settings.days => d <= max
    BY <1>1, <1>6, RetentionNumbers
  <2>5. chosen <= EffectiveDays'
    BY <2>2, <2>3
  <2> QED
    BY <1>1, <1>2, <2>1, <2>4, <2>5 DEF Keeps
<1>7. \/ /\ settings' = Restore
         /\ settings.restore # 0 /\ settings.restore <= max
         /\ settings.restore > settings.days /\ settings.until > now
      \/ \E m \in Days : /\ settings' = [days |-> max, restore |-> m, until |-> now + Grace]
                         /\ settings.days > max /\ m >= settings.restore /\ m >= settings.days
      \/ /\ settings' = [settings EXCEPT !.days = max]
         /\ max > settings.days /\ settings.restore > max /\ settings.until > now
  BY DEF Written, Clean
<1> QED
  BY <1>4, <1>5, <1>6, <1>7

LEMMA KeptWrites ==
  ASSUME RetentionAssumption, RetentionForms, Ages, SettingIsKept,
         NEW s \in Syncs, ApplyPatch(s), Writes(s), Clean, Clean'
  PROVE  SettingIsKept'
<1> USE DEF RetentionForms
<1> DEFINE max == syncs[s].max
<1>1. UNCHANGED <<now, ceiling, chosen, lostAt>>
  BY DEF ApplyPatch
<1>2. /\ syncs[s].at = "read" /\ syncs[s].patch # {} /\ settings' \in Settings /\ Written(settings', max)
      /\ syncs' = [Outdated(Syncs \ {s}) EXCEPT ![s] = NoSync]
      /\ max = ceiling \/ SyncToCome
  <2>1. clobbered' = (clobbered \/ syncs[s].at = "stale" \/ (syncs[s].max # ceiling /\ ~SyncToCome))
        /\ ~clobbered'
    BY DEF Writes, Clean
  <2>2. syncs[s].at # "stale" /\ (max = ceiling \/ SyncToCome)
    BY <2>1, Zenon
  <2>3. syncs[s].at = "read"
    BY <2>2 DEF ApplyPatch
  <2> QED
    BY <2>2, <2>3 DEF Writes
<1>3. max \in Ceilings /\ max \in Nat /\ \A d \in Days : d \in Nat
  BY <1>2, CeilingsAreDays DEF SyncShapes, SyncShape
<1>4. Keeps(max)
  BY <1>1, <1>2, <1>3, KeptByWriting DEF SettingIsKept
<1>5. ASSUME NEW u \in Syncs, u # s
      PROVE  \/ syncs'[u] = syncs[u] /\ syncs[u].at # "read"
             \/ /\ syncs[u].at = "read" /\ syncs'[u].at = "stale"
                /\ syncs'[u].max = syncs[u].max /\ syncs'[u].patch = syncs[u].patch
  <2>1. syncs'[u] = Outdated(Syncs \ {s})[u]
    BY <1>2, <1>5, OutdatedSyncs
  <2> QED
    BY <1>5, <2>1, OutdatedSyncs
<1> HIDE DEF max
<1>6. chosen' <= EffectiveDays'
  BY <1>1, <1>4 DEF Keeps
<1>7. GraceIsGiven'
  <2> SUFFICES ASSUME NEW d \in Days, d <= chosen, d > ceiling, KeptDay(d) PROVE KeptDay(d)'
    BY <1>1 DEF GraceIsGiven, SettingIsKept, Days
  <2>1. CASE d <= settings.days \/ (settings.restore >= d /\ settings.until >= lostAt[d] + Grace)
    BY <1>1, <1>4, <2>1 DEF KeptDay, Keeps
  <2>2. ASSUME syncs[s].max >= d PROVE KeptDay(d)'
    <3>1. d <= max
      BY <1>3, <2>2 DEF max
    <3> QED
      BY <1>1, <1>4, <3>1 DEF KeptDay, Keeps
  <2>3. ASSUME NEW u \in Syncs, u # s, syncs[u].at \in {"tier", "stale"},
               \/ syncs[u].at = "tier" /\ syncs[u].max >= d
               \/ syncs[u].at = "stale" /\ syncs[u].patch # {}
        PROVE  KeptDay(d)'
    BY <1>5, <2>3 DEF KeptDay
  <2>4. ASSUME NEW u \in Syncs, u # s, syncs[u].at = "read", syncs[u].max >= d
        PROVE  KeptDay(d)'
    <3>1. CASE syncs[u].patch # {}
      BY <1>5, <2>4, <3>1 DEF KeptDay
    <3>2. CASE syncs[u].patch = {}
      <4>1. syncs[u].max \in Ceilings /\ PatchFor(syncs[u].max) = {} /\ syncs[u].max \in Nat
        BY <2>4, <3>2, CeilingsAreDays DEF SyncShapes, SyncShape, PatchesAreCurrent
      <4>2. d <= settings.days
        BY <1>3, <2>4, <4>1, NothingToPatch DEF SettingIsKept
      <4> QED
        BY <2>1, <4>2
    <3> QED
      BY <3>1, <3>2
  <2> QED
    BY <1>2, <2>1, <2>2, <2>3, <2>4 DEF KeptDay
<1>8. PlanIsFollowed'
  <2>1. CASE SyncToCome
    <3>1. PICK u \in Syncs : syncs[u].at = "tier" /\ syncs[u].max = ceiling
      BY <2>1 DEF SyncToCome
    <3>2. syncs'[u] = syncs[u]
      BY <1>2, <1>5, <3>1
    <3> QED
      BY <1>1, <3>1, <3>2 DEF PlanIsFollowed, SyncToCome
  <2>2. CASE max = ceiling
    <3>1. WithinPlan'
      BY <1>1, <1>4, <2>2 DEF WithinPlan, Keeps, Least
    <3> QED
      BY <3>1 DEF PlanIsFollowed
  <2> QED
    BY <1>2, <2>1, <2>2
<1> QED
  BY <1>6, <1>7, <1>8 DEF SettingIsKept

LEMMA SettingStep ==
  ASSUME RetentionAssumption, RetentionForms, Ages, SettingIsKept, Clean, Clean',
         [RetentionNext]_retentionVars
  PROVE  SettingIsKept'
<1>1. ASSUME UNCHANGED <<now, ceiling, settings, syncs, chosen, lostAt>> PROVE SettingIsKept'
  BY <1>1 DEF SettingIsKept, EffectiveDays, GraceIsGiven, KeptDay, PlanIsFollowed, SyncToCome, WithinPlan, Days
<1>2. CASE \E d \in Days : CheckEdit(d)
  BY <1>1, <1>2 DEF CheckEdit, history
<1>3. ASSUME NEW s \in Syncs, ApplyPatch(s) PROVE SettingIsKept'
  BY <1>3, PatchEffect, KeptWrites, KeptWritesNothing DEF RetentionForms
<1>4. CASE \E s \in Syncs : SyncFails(s)
  BY <1>4 DEF SyncFails, Clean
<1>5. CASE \E p \in Purges : StartPurge(p) \/ \E t \in Tables : Delete(p, t) \/ DeleteFails(p, t)
  BY <1>1, <1>5 DEF StartPurge, Delete, DeleteFails, history
<1>6. CASE UNCHANGED retentionVars
  BY <1>1, <1>6 DEF retentionVars
<1> QED
  BY <1>2, <1>3, <1>4, <1>5, <1>6, RetentionSteps, KeptNextDay, KeptApplyEdit, KeptChangeTier, KeptReadSettings

\* No purge deletes what is expected: a run goes by the days that counted when it
\* started, and what is expected gets older no faster than its cutoff.
LEMMA DataStep ==
  ASSUME RetentionAssumption, RetentionForms, Ages, SettingIsKept, DataIsKept,
         [RetentionNext]_retentionVars
  PROVE  DataIsKept'
<1> USE DEF RetentionForms
<1>1. ASSUME UNCHANGED <<purges, held>>, expected' \in Nat, expected' <= expected PROVE DataIsKept'
  BY <1>1, RetentionNumbers DEF DataIsKept
<1>2. CASE NextDay
  <2>1. expected' \in Nat /\ expected' <= expected + 1
    <3>1. now + 1 \in Nat
      BY RetentionNumbers
    <3>2. chosen' \in Nat
      BY <1>2, <3>1, CoveredIsCovered, CeilingsAreDays DEF NextDay
    <3>3. expected + 1 \in Nat /\ expected' = Least(expected + 1, chosen')
      BY <1>2, RetentionNumbers DEF NextDay
    <3> QED
      BY <3>2, <3>3, LeastOfTwo
  <2>2. \A t \in Tables : expected' <= held'[t]
    <3>1. \A t \in Tables : held'[t] = held[t] + 1
      BY <1>2 DEF NextDay
    <3> QED
      BY <2>1, <3>1, RetentionNumbers DEF DataIsKept
  <2>3. ASSUME NEW p \in Purges, purges'[p].left # {} PROVE expected' <= purges'[p].days + purges'[p].age
    <3>1. purges[p] \in PurgeRecord /\ NoPurge.left = {}
      BY DEF RetentionTypes, NoPurge
    <3>2. purges'[p] = [purges[p] EXCEPT !.age = @ + 1]
      BY <1>2, <2>3, <3>1 DEF NextDay
    <3>3. /\ purges'[p].days = purges[p].days /\ purges'[p].age = purges[p].age + 1
          /\ purges'[p].left = purges[p].left
      BY <3>1, <3>2 DEF PurgeRecord
    <3> QED
      BY <2>1, <2>3, <3>3, RetentionNumbers DEF DataIsKept
  <2> QED
    BY <2>2, <2>3 DEF DataIsKept
<1>3. CASE ApplyEdit
  BY <1>1, <1>3, RetentionNumbers, LeastOfTwo DEF ApplyEdit
<1>4. ASSUME NEW p \in Purges, StartPurge(p) PROVE DataIsKept'
  <2>1. held' = held /\ expected' = expected
    BY <1>4 DEF StartPurge, history
  <2>2. expected <= EffectiveDays + 0
    BY RetentionNumbers, EffectiveIsDay DEF Ages, SettingIsKept
  <2>3. \A u \in Purges : IF u = p THEN purges'[u].days = EffectiveDays /\ purges'[u].age = 0
                          ELSE purges'[u] = purges[u]
    BY <1>4 DEF StartPurge, RetentionTypes
  <2> QED
    BY <2>1, <2>2, <2>3 DEF DataIsKept
<1>5. ASSUME NEW p \in Purges, NEW t \in Tables, purges' = [purges EXCEPT ![p] = Rest(p, t)], expected' = expected
      PROVE  \A u \in Purges : purges'[u].left # {} => expected' <= purges'[u].days + purges'[u].age
  <2>1. \A u \in Purges : IF u = p THEN purges'[u] = Rest(p, t) ELSE purges'[u] = purges[u]
    BY <1>5 DEF RetentionTypes
  <2> QED
    BY <1>5, <2>1, RestOfPurge DEF DataIsKept
<1>6. ASSUME NEW p \in Purges, NEW t \in Tables, Delete(p, t) PROVE DataIsKept'
  <2> DEFINE h == Least(held[t], purges[p].days + purges[p].age)
  <2>1. purges' = [purges EXCEPT ![p] = Rest(p, t)] /\ expected' = expected /\ held' = [held EXCEPT ![t] = h]
    BY <1>6 DEF Delete, history
  <2>2. expected <= purges[p].days + purges[p].age /\ expected <= held[t]
    BY <1>6 DEF Delete, DataIsKept
  <2>3. purges[p].days + purges[p].age \in Nat /\ held[t] \in Nat /\ expected \in Nat
    BY RetentionNumbers
  <2>4. expected <= h
    BY <2>2, <2>3, LeastOfTwo
  <2> HIDE DEF h
  <2>5. \A u \in Tables : held'[u] = held[u] \/ held'[u] = h
    BY <2>1 DEF RetentionTypes
  <2>6. \A u \in Tables : expected' <= held'[u]
    BY <2>1, <2>4, <2>5 DEF DataIsKept
  <2> QED
    BY <1>5, <2>1, <2>6 DEF DataIsKept
<1>7. ASSUME NEW p \in Purges, NEW t \in Tables, DeleteFails(p, t) PROVE DataIsKept'
  <2>1. purges' = [purges EXCEPT ![p] = Rest(p, t)] /\ expected' = expected /\ held' = held
    BY <1>7 DEF DeleteFails, history
  <2> QED
    BY <1>5, <2>1 DEF DataIsKept
<1>8. CASE \E d \in Days : CheckEdit(d)
  BY <1>1, <1>8, RetentionNumbers DEF CheckEdit, history
<1>9. CASE \E s \in Syncs, max \in Ceilings : ChangeTier(s, max)
  BY <1>1, <1>9, RetentionNumbers DEF ChangeTier
<1>10. CASE \E s \in Syncs : ReadSettings(s) \/ ApplyPatch(s) \/ SyncFails(s)
  BY <1>1, <1>10, RetentionNumbers DEF ReadSettings, ApplyPatch, SyncFails, history
<1>11. CASE UNCHANGED retentionVars
  BY <1>1, <1>11, RetentionNumbers DEF retentionVars
<1> QED
  BY <1>2, <1>3, <1>4, <1>6, <1>7, <1>8, <1>9, <1>10, <1>11, RetentionSteps

-----------------------------------------------------------------------------
(* The theorems.                                                           *)

LEMMA RetentionInvariantInit ==
  ASSUME RetentionAssumption, RetentionInit
  PROVE  RetentionInvariant
<1> DEFINE max == Max(Ceilings)
<1>1. max \in Ceilings /\ max \in Nat \ {0} /\ max \in Days
  BY CeilingsAreDays
<1>2. /\ now = 0 /\ ceiling = max /\ settings = [days |-> max, restore |-> 0, until |-> 0]
      /\ syncs = [s \in Syncs |-> NoSync] /\ edit = 0
      /\ purges = [p \in Purges |-> NoPurge] /\ held = [t \in Tables |-> 0]
      /\ changes = 0 /\ failures = 0 /\ chosen = max /\ lostAt = [d \in Days |-> 0] /\ expected = 0
  BY DEF RetentionInit
<1>3. clobbered \in BOOLEAN /\ missed \in BOOLEAN
  BY DEF RetentionInit
<1> HIDE DEF max
<1>4. settings.days = max /\ settings.restore = 0 /\ settings.until = 0
  BY <1>2
<1>5. MaxDay \in Nat /\ Grace \in Nat \ {0} /\ MaxChanges \in Nat /\ MaxFailures \in Nat
  BY DEF RetentionAssumption
<1>6. settings \in Settings
  BY <1>1, <1>2, <1>5 DEF Settings
<1>7. NoSync \in SyncRecord /\ SyncShape(NoSync) /\ NoSync.at = "idle"
  BY DEF NoSync, SyncRecord, SyncShape
<1>8. NoPurge \in PurgeRecord /\ NoPurge.age = 0 /\ NoPurge.left = {}
  BY <1>5 DEF NoPurge, PurgeRecord
<1>9. RetentionTypes
  BY <1>1, <1>2, <1>3, <1>5, <1>6, <1>7, <1>8 DEF RetentionTypes
<1>10. GraceRestores /\ SyncShapes /\ PatchesAreCurrent
  BY <1>2, <1>4, <1>7 DEF GraceRestores, SyncShapes, PatchesAreCurrent
<1>11. Ages
  BY <1>1, <1>2, <1>8 DEF Ages
<1>12. ChosenIsCovered
  BY <1>1, <1>2 DEF ChosenIsCovered
<1>13. SettingIsKept
  <2>1. chosen <= EffectiveDays
    BY <1>1, <1>2, <1>4 DEF EffectiveDays
  <2>2. GraceIsGiven
    BY <1>2, <1>4 DEF GraceIsGiven, KeptDay
  <2>3. WithinPlan
    BY <1>1, <1>2, <1>4 DEF WithinPlan, Least
  <2> QED
    BY <2>1, <2>2, <2>3 DEF SettingIsKept, PlanIsFollowed
<1>14. DataIsKept
  BY <1>2, <1>8 DEF DataIsKept
<1> QED
  BY <1>9, <1>10, <1>11, <1>12, <1>13, <1>14 DEF RetentionInvariant

LEMMA RetentionInvariantStep ==
  ASSUME RetentionAssumption, RetentionInvariant, [RetentionNext]_retentionVars
  PROVE  RetentionInvariant'
<1>1. RetentionForms /\ Ages /\ ChosenIsCovered
  BY DEF RetentionInvariant, RetentionForms
<1>2. RetentionTypes' /\ GraceRestores' /\ SyncShapes' /\ Ages' /\ PatchesAreCurrent' /\ ChosenIsCovered'
  BY <1>1, FormsStep, AgesStep, CurrentPatches, ChosenStep
<1>3. ASSUME Clean' PROVE SettingIsKept' /\ DataIsKept'
  <2>1. Clean /\ SettingIsKept /\ DataIsKept
    BY <1>3, CleanBefore DEF RetentionInvariant
  <2> QED
    BY <1>1, <1>3, <2>1, SettingStep, DataStep
<1> QED
  BY <1>2, <1>3 DEF RetentionInvariant

\* The invariant of tier changes, edits, days and purges: a setting, its grace
\* period or a sync under way keeps every day that is covered or was recently.
THEOREM RetentionInvariantHolds == RetentionSpec => []RetentionInvariant
<1>1. RetentionInit => RetentionInvariant
  BY RetentionAssumption, RetentionInvariantInit
<1>2. RetentionInvariant /\ [RetentionNext]_retentionVars => RetentionInvariant'
  BY RetentionAssumption, RetentionInvariantStep
<1> QED
  BY <1>1, <1>2, PTL DEF RetentionSpec

\* Every variable has its type, a sync writes one patch at most, and a grace
\* period restores more than the setting unless the row was clobbered
\* (applyTierChangeToRetention).
THEOREM RetentionTypesHold == RetentionSpec => []RetentionTypeOK
<1>1. RetentionInvariant => RetentionTypeOK
  <2> SUFFICES ASSUME RetentionInvariant PROVE RetentionTypeOK
    OBVIOUS
  <2>1. RetentionTypes /\ GraceRestores /\ SyncShapes
    BY DEF RetentionInvariant
  <2>2. ASSUME NEW s \in Syncs
        PROVE  /\ syncs[s].at \in {"idle", "tier", "read", "stale"} /\ syncs[s].max \in Ceilings \cup {0}
               /\ syncs[s].patch \subseteq Settings \cup [days : Days] /\ Cardinality(syncs[s].patch) <= 1
    <3>1. syncs[s] \in SyncRecord /\ SyncShape(syncs[s])
      BY <2>1 DEF RetentionTypes, SyncShapes
    <3>2. Cardinality(syncs[s].patch) = 0 \/ Cardinality(syncs[s].patch) = 1
      BY <3>1, FS_EmptySet, FS_Singleton DEF SyncShape
    <3>3. Cardinality(syncs[s].patch) <= 1
      BY <3>2
    <3>4. /\ syncs[s].at \in {"idle", "tier", "read", "stale"} /\ syncs[s].max \in Ceilings \cup {0}
          /\ syncs[s].patch \in SUBSET Patches
      BY <3>1 DEF SyncRecord
    <3> QED
      BY <3>3, <3>4 DEF Patches
  <2> QED
    BY <2>1, <2>2 DEF RetentionTypeOK, RetentionTypes, PurgeRecord
<1> QED
  BY <1>1, RetentionInvariantHolds, PTL

\* No purge deletes data the user may count on: through chains of downgrades,
\* partial and full upgrades and edits, with purges that go by what they read days
\* ago, everything younger than the covered choice is there (runRetentionPurge,
\* applyTierChangeToRetention).
THEOREM ExpectedDataIsHeld == RetentionSpec => []ExpectedIsHeld
<1>1. RetentionInvariant => ExpectedIsHeld
  BY DEF RetentionInvariant, ExpectedIsHeld, DataIsKept, Clean
<1> QED
  BY <1>1, RetentionInvariantHolds, PTL

\* When no change is being handled the setting is within the plan, and as far as the
\* plan covers it what the user chose (applyTierChangeToRetention).
THEOREM SettingFollowsThePlan == RetentionSpec => []SettingFollowsPlan
<1>1. RetentionInvariant => SettingFollowsPlan
  <2> SUFFICES ASSUME RetentionInvariant, ~clobbered, ~missed, ~Handling PROVE WithinPlan
    BY DEF SettingFollowsPlan, WithinPlan
  <2>1. PlanIsFollowed
    BY DEF RetentionInvariant, Clean, SettingIsKept
  <2>2. \A s \in Syncs : syncs[s].at = "idle"
    BY DEF Handling, NoSync
  <2> QED
    BY <2>1, <2>2 DEF PlanIsFollowed, SyncToCome
<1> QED
  BY <1>1, RetentionInvariantHolds, PTL
=============================================================================
