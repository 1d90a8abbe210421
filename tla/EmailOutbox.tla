---------------------------- MODULE EmailOutbox ----------------------------
(***************************************************************************)
(* The mail outbox of the dashboard: scans that find out which letters are *)
(* due and enqueue them (worker/jobs), the queue send-email of pg-boss     *)
(* (worker/queue.ts), and the handler that sends a letter and records it   *)
(* (worker/jobs/email/send-email.job.ts).                                  *)
(*                                                                         *)
(* A letter is a pair of recipient key and campaign key: the singleton key *)
(* of its job and the primary key of its row in SentEmail.  Recipients are *)
(* the letters of one report in one period, Candidates those of the usage, *)
(* subscription and onboarding scans.  Mail is enabled for all of them.    *)
(*                                                                         *)
(* Several worker processes may run.  A handler that takes longer than its *)
(* job's expireInSeconds is given up by pg-boss but not interrupted: it    *)
(* goes on beside the handler of the retry.                                *)
(***************************************************************************)
EXTENDS Naturals, FiniteSets, Functions

CONSTANTS
  Recipients,   \* letters of the report of this period
  Candidates,   \* letters of the other scans, due for the whole behaviour
  RetryLimit,   \* retryLimit of the jobs
  Scans,        \* bound: scans that can run at once
  MaxFaults     \* bound: errors, expirations and crashes

ASSUME OutboxAssumption ==
  /\ Recipients \cap Candidates = {}
  /\ RetryLimit \in Nat /\ MaxFaults \in Nat

Letters == Recipients \cup Candidates

VARIABLES
  job,        \* job[l]: the last job of the letter, at most one of them is live
  sentEmail,  \* the letters with a row in SentEmail
  handler,    \* handler[l]: where the handler that pg-boss waits for is
  strays,     \* strays[l][p]: number of handlers at p whose job has expired
  scans,      \* scans[s]: an invocation of a scan's handler
  reportSent, \* lastWeeklyReportSentAt lies in this period
  faults,     \* bounded by MaxFaults
  mailed,     \* history: how often the provider took the letter
  lapses,     \* history: handlers that were lost between check and record
  swallowed   \* history: recipients whose enqueue failed in a report

vars == <<job, sentEmail, handler, strays, scans, reportSent, faults, mailed, lapses, swallowed>>
scanVars == <<scans, reportSent, swallowed>>
sendVars == <<job, sentEmail, handler, strays, mailed, lapses>>

Live == {"queued", "active"}   \* "queued" stands for created and for retry
NoJob == [state |-> "none", tries |-> 0]
Over == [state |-> "over", tries |-> 0]   \* completed or failed
Place == {"send", "record"}
NoScan == [kind |-> "none", left |-> {}]

TypeOK ==
  /\ job \in [Letters -> [state : Live \cup {"none", "over"}, tries : 0..RetryLimit]]
  /\ sentEmail \subseteq Letters
  /\ handler \in [Letters -> Place \cup {"none", "return"}]
  /\ \A l \in Letters : handler[l] # "none" => job[l].state = "active"
  /\ strays \in [Letters -> [Place -> 0..MaxFaults]]
  /\ scans \in [Scans -> [kind : {"none", "report", "candidates"}, left : SUBSET Letters]]
  /\ reportSent \in BOOLEAN
  /\ faults \in 0..MaxFaults
  /\ mailed \in [Letters -> Nat] /\ lapses \in [Letters -> Nat]
  /\ swallowed \subseteq Recipients

Init ==
  /\ job = [l \in Letters |-> NoJob]
  /\ sentEmail = {}
  /\ handler = [l \in Letters |-> "none"]
  /\ strays = [l \in Letters |-> [p \in Place |-> 0]]
  /\ scans = [s \in Scans |-> NoScan]
  /\ reportSent = FALSE
  /\ faults = 0
  /\ mailed = [l \in Letters |-> 0] /\ lapses = [l \in Letters |-> 0]
  /\ swallowed = {}

Fault == faults < MaxFaults /\ faults' = faults + 1

----------------------------------------------------------------------------
(* Scans.  What a scan read when it started is what it goes by: the report  *)
(* job the time of the last report, the onboarding job the rows of          *)
(* SentEmail (the other scans enqueue every candidate each time).           *)

\* Invocations are interchangeable: the next one takes this free slot.
IdleScan == LET idle == {s \in Scans : scans[s] = NoScan} IN
            IF idle = {} THEN {} ELSE {CHOOSE s \in idle : TRUE}

StartScan(s, kind, left) ==
  /\ s \in IdleScan /\ left # {}
  /\ scans' = [scans EXCEPT ![s] = [kind |-> kind, left |-> left]]
  /\ UNCHANGED <<sendVars, reportSent, faults, swallowed>>

StartReport(s) == ~reportSent /\ StartScan(s, "report", Recipients)

StartCandidateScan(s) ==
  \E left \in {Candidates, Candidates \ sentEmail} : StartScan(s, "candidates", left)

\* Faults: the queue has no singleton keys, or never forgets them.
EnqueuedAlways(l) == [job EXCEPT ![l] = [state |-> "queued", tries |-> 0]]
EnqueuedOnce(l) == IF job[l].state # "none" THEN job
                   ELSE [job EXCEPT ![l] = [state |-> "queued", tries |-> 0]]

\* The job of a letter is created unless one of the same singleton key is
\* queued or active (policy "exclusive").
Enqueued(l) == IF job[l].state \in Live THEN job
               ELSE [job EXCEPT ![l] = [state |-> "queued", tries |-> 0]]

\* The letters are enqueued one after the other, in a fixed order.  Nothing
\* follows the last letter of a scan of candidates.
NextOf(s) == CHOOSE l \in scans[s].left : TRUE
Rest(s) == LET left == scans[s].left \ {NextOf(s)} IN
           IF left = {} /\ scans[s].kind = "candidates" THEN NoScan
           ELSE [scans[s] EXCEPT !.left = left]

ScanStep(s) ==
  /\ scans[s].left # {}
  /\ job' = Enqueued(NextOf(s))
  /\ scans' = [scans EXCEPT ![s] = Rest(s)]
  /\ UNCHANGED <<sentEmail, handler, strays, reportSent, faults, mailed, lapses, swallowed>>

\* The error is caught and the loop goes on.
EnqueueFails(s) ==
  /\ Fault
  /\ scans[s].left # {}
  /\ scans' = [scans EXCEPT ![s] = Rest(s)]
  /\ swallowed' = IF scans[s].kind = "report" THEN swallowed \cup {NextOf(s)} ELSE swallowed
  /\ UNCHANGED <<sendVars, reportSent>>

\* Fault: the time of the last report is updated first.
ReportEndsEarly(s) ==
  /\ scans[s].kind = "report" /\ ~reportSent
  /\ reportSent' = TRUE
  /\ UNCHANGED <<sendVars, scans, faults, swallowed>>

\* Last, the report updates lastWeeklyReportSentAt.
ReportEnds(s) ==
  /\ scans[s].kind = "report" /\ scans[s].left = {}
  /\ scans' = [scans EXCEPT ![s] = NoScan]
  /\ reportSent' = TRUE
  /\ UNCHANGED <<sendVars, faults, swallowed>>

\* The process dies, or the update above fails.
ScanBreaksOff(s) ==
  /\ Fault
  /\ scans[s].kind # "none"
  /\ scans' = [scans EXCEPT ![s] = NoScan]
  /\ UNCHANGED <<sendVars, reportSent, swallowed>>

----------------------------------------------------------------------------
(* The handler of send-email.                                              *)

\* Fault: the handler does not look for the row of SentEmail.
FetchUnchecked(l) ==
  /\ job[l].state = "queued"
  /\ handler' = [handler EXCEPT ![l] = "send"]
  /\ job' = [job EXCEPT ![l].state = "active"]
  /\ UNCHANGED <<sentEmail, strays, scanVars, faults, mailed, lapses>>

\* The handler starts with the query for the row of SentEmail; a handler
\* given up before the answer could only do less than one given up after it.
Fetch(l) ==
  /\ job[l].state = "queued"
  /\ handler' = [handler EXCEPT ![l] = IF l \in sentEmail THEN "return" ELSE "send"]
  /\ job' = [job EXCEPT ![l].state = "active"]
  /\ UNCHANGED <<sentEmail, strays, scanVars, faults, mailed, lapses>>

\* A handler of l goes from place p to place q.  It is the awaited one or a
\* stray; the end of a stray changes nothing.
Move(l, p, q) ==
  \/ /\ handler[l] = p
     /\ handler' = [handler EXCEPT ![l] = q]
     /\ UNCHANGED strays
  \/ /\ p \in Place /\ strays[l][p] > 0
     /\ strays' = [strays EXCEPT ![l] = [r \in Place |->
                     @[r] - (IF r = p THEN 1 ELSE 0) + (IF r = q THEN 1 ELSE 0)]]
     /\ UNCHANGED handler

DispatchEmail(l) ==
  /\ Move(l, "send", "record")
  /\ mailed' = [mailed EXCEPT ![l] = @ + 1]
  /\ UNCHANGED <<job, sentEmail, scanVars, faults, lapses>>

RecordSent(l) ==
  /\ Move(l, "record", "return")
  /\ sentEmail' = sentEmail \cup {l}
  /\ UNCHANGED <<job, scanVars, faults, mailed, lapses>>

\* pg-boss completes the job.
Return(l) ==
  /\ handler[l] = "return"
  /\ handler' = [handler EXCEPT ![l] = "none"]
  /\ job' = [job EXCEPT ![l] = Over]
  /\ UNCHANGED <<sentEmail, strays, scanVars, faults, mailed, lapses>>

\* What pg-boss does with an attempt that failed or expired.
Retried(l) == [job EXCEPT ![l] = IF @.tries < RetryLimit
                                 THEN [state |-> "queued", tries |-> @.tries + 1]
                                 ELSE Over]

\* A query or the dispatch throws, the first query among them.  out: the
\* provider took the letter all the same, as it has if the record failed.
HandlerThrows(l, p, out) ==
  /\ Fault
  /\ p = "record" => out
  /\ Move(l, p, "none")
  /\ job' = IF handler' = handler THEN job ELSE Retried(l)
  /\ lapses' = [lapses EXCEPT ![l] = IF out /\ handler' # handler THEN @ + 1 ELSE @]
  /\ mailed' = [mailed EXCEPT ![l] = IF out /\ p = "send" THEN @ + 1 ELSE @]
  /\ UNCHANGED <<sentEmail, scanVars>>

\* The handler takes longer than expireInSeconds.
Expire(l) ==
  /\ Fault
  /\ handler[l] \in Place
  /\ handler' = [handler EXCEPT ![l] = "none"]
  /\ strays' = [strays EXCEPT ![l][handler[l]] = @ + 1]
  /\ job' = Retried(l)
  /\ lapses' = [lapses EXCEPT ![l] = @ + 1]
  /\ UNCHANGED <<sentEmail, scanVars, mailed>>

\* Worker processes die with the handlers they ran: the awaited handlers of
\* the letters in die, and the strays of the letters in lost.
Crash(die, lost) ==
  /\ Fault
  /\ \A l \in die : handler[l] # "none"
  /\ \A l \in lost : \E p \in Place : strays[l][p] > 0
  /\ handler' = [l \in Letters |-> IF l \in die THEN "none" ELSE handler[l]]
  /\ strays' = [l \in Letters |-> IF l \in lost THEN [p \in Place |-> 0] ELSE strays[l]]
  /\ lapses' = [l \in Letters |-> lapses[l] + (IF l \in die /\ handler[l] = "record" THEN 1 ELSE 0)]
  /\ UNCHANGED <<job, sentEmail, scanVars, mailed>>

\* The job of a handler that died expires all the same.
ExpireOrphan(l) ==
  /\ job[l].state = "active" /\ handler[l] = "none"
  /\ job' = Retried(l)
  /\ UNCHANGED <<sentEmail, handler, strays, scanVars, faults, mailed, lapses>>

HandlerStep(l) == DispatchEmail(l) \/ RecordSent(l) \/ Return(l)

Next ==
  \/ \E s \in Scans : \/ StartReport(s) \/ StartCandidateScan(s)
                      \/ ScanStep(s) \/ EnqueueFails(s) \/ ReportEnds(s) \/ ScanBreaksOff(s)
  \/ \E l \in Letters : Fetch(l) \/ HandlerStep(l) \/ Expire(l) \/ ExpireOrphan(l)
  \/ \E l \in Letters, p \in Place, out \in BOOLEAN : HandlerThrows(l, p, out)
  \/ \E die, lost \in SUBSET Letters : die \cup lost # {} /\ Crash(die, lost)

\* Scans of candidates are scheduled again and again, and one of their slots
\* gets free again and again.  What a handler or a scan awaits ends in one way
\* or another, and workers fetch the jobs in the order they were created.
Fairness ==
  /\ \A s \in Scans : WF_vars(ScanStep(s) \/ ReportEnds(s))
  /\ SF_vars(\E s \in Scans : StartCandidateScan(s))
  /\ \A l \in Letters : WF_vars(Fetch(l) \/ HandlerStep(l) \/ ExpireOrphan(l))

Spec == Init /\ [][Next]_vars /\ Fairness

----------------------------------------------------------------------------
\* A recipient gets a letter a second time only for a handler that was lost
\* after its check and before its record: overlapping scans, retries, several
\* workers and jobs created anew after a letter was sent never cost a mail.
DuplicatesHaveACause == \A l \in Letters : mailed[l] <= 1 + lapses[l]

\* A report that counts as sent was enqueued for every recipient, whatever
\* broke off in between, except those whose enqueue failed: their error is
\* swallowed and no later scan of the day makes up for it.
SentReportIsEnqueued ==
  reportSent => \A l \in Recipients : job[l].state # "none" \/ l \in swallowed

\* A letter that stays due is mailed in the end, also when all retries of a
\* job were used up or its enqueue failed: the next scan enqueues it again.
CandidatesAreMailed == \A l \in Candidates : <>(mailed[l] > 0)

============================================================================
