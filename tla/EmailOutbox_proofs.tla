------------------------- MODULE EmailOutbox_proofs -------------------------
(***************************************************************************)
(* Proofs about EmailOutbox, for any letters, retry limit, scans at once   *)
(* and number of faults.  The argument for duplicates counts, of a letter, *)
(* the mails that are out and those that handlers past their check may     *)
(* still send: there is one more than handlers were lost only if a handler *)
(* or the row of SentEmail keeps the next one from being added.            *)
(***************************************************************************)
EXTENDS EmailOutbox, TLAPS

Job == [state : Live \cup {"none", "over"}, tries : 0..RetryLimit]
Scan == [kind : {"none", "report", "candidates"}, left : SUBSET Letters]
Count == [Place -> 0..MaxFaults]

\* Mails of l that are out or may still go out without another check.
Mails(l) == mailed[l] + strays[l]["send"] + (IF handler[l] = "send" THEN 1 ELSE 0)

\* What makes the next check find the letter in progress or done.
Guarded(l) == l \in sentEmail \/ handler[l] \in Place

Counted(l) ==
  /\ Mails(l) <= lapses[l] + (IF Guarded(l) THEN 1 ELSE 0)
  /\ strays[l]["send"] + strays[l]["record"] <= faults

\* A handler that only has to return has recorded its letter.
ReturnsRecorded == \A l \in Letters : handler[l] = "return" => l \in sentEmail

Dealt(l) == job[l].state # "none" \/ l \in swallowed

\* A report leaves nobody out behind it.
ReportsInOrder ==
  \A s \in Scans : scans[s].kind = "report" =>
    scans[s].left \subseteq Recipients /\ \A l \in Recipients \ scans[s].left : Dealt(l)

OutboxInvariant ==
  /\ TypeOK /\ (\A l \in Letters : Counted(l)) /\ ReturnsRecorded
  /\ ReportsInOrder /\ SentReportIsEnqueued

-----------------------------------------------------------------------------
LEMMA OutboxInit == Init => OutboxInvariant
<1> SUFFICES ASSUME Init PROVE OutboxInvariant
  OBVIOUS
<1>1. RetryLimit \in Nat /\ MaxFaults \in Nat
  BY OutboxAssumption DEF OutboxAssumption
<1>2. NoJob \in Job /\ NoScan \in Scan /\ NoScan.kind = "none"
  BY <1>1 DEF NoJob, NoScan, Job, Scan
<1>3. TypeOK
  <2>1. job \in [Letters -> Job] /\ scans \in [Scans -> Scan]
    BY <1>2 DEF Init
  <2>2. handler \in [Letters -> Place \cup {"none", "return"}] /\ \A l \in Letters : handler[l] = "none"
    BY DEF Init
  <2>3. strays \in [Letters -> Count] /\ faults \in 0..MaxFaults
    BY <1>1 DEF Init, Count
  <2>4. sentEmail \subseteq Letters /\ reportSent \in BOOLEAN /\ swallowed \subseteq Recipients
    BY DEF Init
  <2>5. mailed \in [Letters -> Nat] /\ lapses \in [Letters -> Nat]
    BY DEF Init
  <2> QED
    BY <2>1, <2>2, <2>3, <2>4, <2>5 DEF TypeOK, Job, Scan, Count
<1>4. \A l \in Letters : Counted(l)
  BY <1>1 DEF Init, Counted, Mails, Guarded, Place
<1>5. ReturnsRecorded /\ ReportsInOrder /\ SentReportIsEnqueued
  BY <1>2 DEF Init, ReturnsRecorded, ReportsInOrder, SentReportIsEnqueued
<1> QED
  BY <1>3, <1>4, <1>5 DEF OutboxInvariant

\* Jobs of a letter never go back to there being none.
LEMMA StaysDealt ==
  ASSUME OutboxInvariant, \A l \in Letters : Dealt(l) => Dealt(l)', UNCHANGED <<scans, reportSent>>
  PROVE  ReportsInOrder' /\ SentReportIsEnqueued'
<1>1. Recipients \subseteq Letters
  BY DEF Letters
<1>2. ReportsInOrder'
  BY <1>1 DEF OutboxInvariant, ReportsInOrder
<1>3. SentReportIsEnqueued'
  <2> SUFFICES ASSUME reportSent, NEW l \in Recipients PROVE Dealt(l)'
    BY DEF SentReportIsEnqueued, Dealt
  <2>1. Dealt(l)
    BY DEF OutboxInvariant, SentReportIsEnqueued, Dealt
  <2> QED
    BY <1>1, <2>1
<1> QED
  BY <1>2, <1>3

\* Types of a handler's step; all functions of letters change at one letter.
LEMMA Faulted ==
  ASSUME OutboxInvariant, Fault
  PROVE  faults' \in 0..MaxFaults /\ faults' = faults + 1 /\ faults \in Nat /\ MaxFaults \in Nat
  BY OutboxAssumption DEF OutboxAssumption, OutboxInvariant, TypeOK, Fault

LEMMA CountsAre ==
  ASSUME TypeOK, NEW l \in Letters
  PROVE  /\ mailed[l] \in Nat /\ lapses[l] \in Nat /\ faults \in Nat
         /\ strays[l] \in Count /\ strays[l]["send"] \in Nat /\ strays[l]["record"] \in Nat
         /\ job[l] \in Job /\ job[l].tries \in 0..RetryLimit
         /\ handler[l] \in {"send", "record", "none", "return"}
         /\ handler[l] # "none" => job[l].state = "active"
  BY OutboxAssumption DEF OutboxAssumption, TypeOK, Place, Job, Count

-----------------------------------------------------------------------------
(* Scans.                                                                  *)

LEMMA ScanLeft ==
  ASSUME OutboxInvariant, NEW s \in Scans, scans[s].left # {}
  PROVE  /\ NextOf(s) \in scans[s].left /\ NextOf(s) \in Letters
         /\ Rest(s) \in Scan
         /\ Rest(s).kind = "report" => scans[s].kind = "report" /\ Rest(s).left = scans[s].left \ {NextOf(s)}
<1>1. scans[s] \in Scan
  BY DEF OutboxInvariant, TypeOK, Scan
<1>2. NextOf(s) \in scans[s].left
  BY DEF NextOf
<1> DEFINE n == NextOf(s)
<1> HIDE DEF n
<1>3. n \in scans[s].left
  BY <1>2 DEF n
<1>4. Rest(s) = (IF scans[s].left \ {n} = {} /\ scans[s].kind = "candidates" THEN NoScan
                 ELSE [scans[s] EXCEPT !.left = scans[s].left \ {n}])
  BY DEF Rest, n
<1>5. /\ Rest(s) \in Scan
      /\ Rest(s).kind = "report" => scans[s].kind = "report" /\ Rest(s).left = scans[s].left \ {n}
  BY <1>1, <1>4 DEF Scan, NoScan
<1>6. n \in Letters
  BY <1>1, <1>3 DEF Scan
<1> QED
  BY <1>3, <1>5, <1>6 DEF n

LEMMA ScanSteps ==
  ASSUME OutboxInvariant, NEW s \in Scans,
         \/ StartReport(s) \/ StartCandidateScan(s) \/ ScanStep(s) \/ EnqueueFails(s)
         \/ ReportEnds(s) \/ ScanBreaksOff(s)
  PROVE  OutboxInvariant'
<1>1. scans \in [Scans -> Scan] /\ Recipients \subseteq Letters /\ Candidates \subseteq Letters
  BY DEF OutboxInvariant, TypeOK, Scan, Letters
<1>2. CASE StartReport(s) \/ StartCandidateScan(s)
  <2>1. PICK kind \in {"report", "candidates"}, left \in SUBSET Letters :
          /\ StartScan(s, kind, left) /\ (kind = "report" => left = Recipients)
    BY <1>1, <1>2 DEF StartReport, StartCandidateScan
  <2>2. UNCHANGED <<sendVars, reportSent, faults, swallowed>>
    BY <2>1 DEF StartScan
  <2>3. scans' = [scans EXCEPT ![s] = [kind |-> kind, left |-> left]]
    BY <2>1 DEF StartScan
  <2>4. scans' \in [Scans -> Scan]
    BY <1>1, <2>3 DEF Scan
  <2>5. TypeOK'
    BY <2>2, <2>4 DEF OutboxInvariant, TypeOK, sendVars, Scan
  <2>6. ReportsInOrder'
    BY <1>1, <2>1, <2>2, <2>3 DEF OutboxInvariant, ReportsInOrder, Dealt, sendVars
  <2>7. (\A l \in Letters : Counted(l))' /\ ReturnsRecorded' /\ SentReportIsEnqueued'
    BY <2>2 DEF OutboxInvariant, Counted, Mails, Guarded, ReturnsRecorded, SentReportIsEnqueued, sendVars
  <2> QED
    BY <2>5, <2>6, <2>7 DEF OutboxInvariant
<1>3. CASE ScanStep(s)
  <2>1. PICK n \in Letters, r \in Scan :
          /\ n = NextOf(s) /\ r = Rest(s) /\ n \in scans[s].left
          /\ r.kind = "report" => scans[s].kind = "report" /\ r.left = scans[s].left \ {n}
    BY <1>3, ScanLeft DEF ScanStep
  <2>2. /\ job' = (IF job[n].state \in Live THEN job ELSE [job EXCEPT ![n] = [state |-> "queued", tries |-> 0]])
        /\ scans' = [scans EXCEPT ![s] = r]
        /\ UNCHANGED <<sentEmail, handler, strays, reportSent, faults, mailed, lapses, swallowed>>
    BY <1>3, <2>1 DEF ScanStep, Enqueued
  <2>3. [state |-> "queued", tries |-> 0] \in Job
    BY OutboxAssumption DEF OutboxAssumption, Job, Live
  <2>4. job \in [Letters -> Job]
    BY DEF OutboxInvariant, TypeOK, Job
  <2>5. /\ job' \in [Letters -> Job] /\ job'[n].state # "none"
        /\ \A l \in Letters : job'[l] = job[l] \/ (job[l].state \notin Live /\ job'[l].state # "none")
    BY <2>1, <2>2, <2>3, <2>4 DEF Live
  <2>6. scans' \in [Scans -> Scan]
    BY <1>1, <2>1, <2>2
  <2>7. \A l \in Letters : handler[l] # "none" => job'[l].state = "active"
    BY <2>5 DEF OutboxInvariant, TypeOK, Live
  <2>8. TypeOK'
    BY <2>2, <2>5, <2>6, <2>7 DEF OutboxInvariant, TypeOK, Job, Scan
  <2>9. \A l \in Letters : Dealt(l) => Dealt(l)'
    BY <2>2, <2>5 DEF Dealt
  <2>10. ReportsInOrder'
    <3> SUFFICES ASSUME NEW t \in Scans, scans'[t].kind = "report"
                 PROVE  scans'[t].left \subseteq Recipients /\ \A l \in Recipients \ scans'[t].left : Dealt(l)'
      BY DEF ReportsInOrder
    <3>1. CASE t = s
      <4>1. scans[s].kind = "report" /\ scans'[s].left = scans[s].left \ {n}
        BY <1>1, <2>1, <2>2, <3>1
      <4>2. Dealt(n)'
        BY <2>5 DEF Dealt
      <4>3. scans[s].left \subseteq Recipients /\ \A l \in Recipients \ scans[s].left : Dealt(l)
        BY <4>1 DEF OutboxInvariant, ReportsInOrder
      <4> QED
        BY <1>1, <2>9, <3>1, <4>1, <4>2, <4>3
    <3>2. CASE t # s
      BY <1>1, <2>2, <2>9, <3>2 DEF OutboxInvariant, ReportsInOrder
    <3> QED
      BY <3>1, <3>2
  <2>11. SentReportIsEnqueued'
    BY <1>1, <2>2, <2>5 DEF OutboxInvariant, SentReportIsEnqueued
  <2>12. (\A l \in Letters : Counted(l))' /\ ReturnsRecorded'
    BY <2>2 DEF OutboxInvariant, Counted, Mails, Guarded, ReturnsRecorded
  <2> QED
    BY <2>8, <2>10, <2>11, <2>12 DEF OutboxInvariant
<1>4. CASE EnqueueFails(s)
  <2>1. PICK n \in Letters, r \in Scan :
          /\ n = NextOf(s) /\ r = Rest(s) /\ n \in scans[s].left
          /\ r.kind = "report" => scans[s].kind = "report" /\ r.left = scans[s].left \ {n}
    BY <1>4, ScanLeft DEF EnqueueFails
  <2>2. /\ swallowed' = (IF scans[s].kind = "report" THEN swallowed \cup {n} ELSE swallowed)
        /\ scans' = [scans EXCEPT ![s] = r] /\ UNCHANGED <<sendVars, reportSent>> /\ Fault
    BY <1>4, <2>1 DEF EnqueueFails
  <2>3. faults' \in 0..MaxFaults /\ faults <= faults' /\ faults \in Nat /\ faults' \in Nat
    BY <2>2, Faulted
  <2>4. swallowed' \subseteq Recipients /\ swallowed \subseteq swallowed'
    BY <2>1, <2>2 DEF OutboxInvariant, ReportsInOrder, TypeOK
  <2>5. scans' \in [Scans -> Scan]
    BY <1>1, <2>1, <2>2
  <2>6. TypeOK'
    BY <2>2, <2>3, <2>4, <2>5 DEF OutboxInvariant, TypeOK, Scan, sendVars
  <2>7. ReportsInOrder'
    <3> SUFFICES ASSUME NEW t \in Scans, scans'[t].kind = "report"
                 PROVE  scans'[t].left \subseteq Recipients /\ \A l \in Recipients \ scans'[t].left : Dealt(l)'
      BY DEF ReportsInOrder
    <3>1. \A l : Dealt(l) => Dealt(l)'
      BY <2>2, <2>4 DEF Dealt, sendVars
    <3>2. CASE t = s
      <4>1. scans[s].kind = "report" /\ scans'[s].left = scans[s].left \ {n} /\ n \in swallowed'
        BY <1>1, <2>1, <2>2, <3>2
      <4>2. scans[s].left \subseteq Recipients /\ \A l \in Recipients \ scans[s].left : Dealt(l)
        BY <4>1 DEF OutboxInvariant, ReportsInOrder
      <4>3. Dealt(n)'
        BY <4>1 DEF Dealt
      <4> QED
        BY <3>1, <3>2, <4>1, <4>2, <4>3
    <3>3. CASE t # s
      BY <1>1, <2>2, <3>1, <3>3 DEF OutboxInvariant, ReportsInOrder
    <3> QED
      BY <3>2, <3>3
  <2>8. SentReportIsEnqueued'
    BY <2>2, <2>4 DEF OutboxInvariant, SentReportIsEnqueued, sendVars
  <2>9. (\A l \in Letters : Counted(l))'
    <3> SUFFICES ASSUME NEW l \in Letters PROVE Counted(l)'
      OBVIOUS
    <3>1. Counted(l) /\ strays[l]["send"] \in Nat /\ strays[l]["record"] \in Nat
      BY CountsAre DEF OutboxInvariant
    <3> QED
      BY <2>2, <2>3, <3>1 DEF Counted, Mails, Guarded, sendVars
  <2>10. ReturnsRecorded'
    BY <2>2 DEF OutboxInvariant, ReturnsRecorded, sendVars
  <2> QED
    BY <2>6, <2>7, <2>8, <2>9, <2>10 DEF OutboxInvariant
<1>5. CASE ReportEnds(s)
  <2>1. /\ scans[s].kind = "report" /\ scans[s].left = {} /\ reportSent' = TRUE
        /\ scans' = [scans EXCEPT ![s] = NoScan] /\ UNCHANGED <<sendVars, faults, swallowed>>
    BY <1>5 DEF ReportEnds
  <2>2. NoScan \in Scan /\ NoScan.kind = "none"
    BY DEF NoScan, Scan
  <2>3. scans' \in [Scans -> Scan]
    BY <1>1, <2>1, <2>2
  <2>4. TypeOK'
    BY <2>1, <2>3 DEF OutboxInvariant, TypeOK, Scan, sendVars
  <2>5. ReportsInOrder'
    BY <1>1, <2>1, <2>2 DEF OutboxInvariant, ReportsInOrder, Dealt, sendVars
  <2>6. SentReportIsEnqueued'
    BY <2>1 DEF OutboxInvariant, ReportsInOrder, Dealt, SentReportIsEnqueued, sendVars
  <2>7. (\A l \in Letters : Counted(l))' /\ ReturnsRecorded'
    BY <2>1 DEF OutboxInvariant, Counted, Mails, Guarded, ReturnsRecorded, sendVars
  <2> QED
    BY <2>4, <2>5, <2>6, <2>7 DEF OutboxInvariant
<1>6. CASE ScanBreaksOff(s)
  <2>1. /\ Fault /\ scans' = [scans EXCEPT ![s] = NoScan] /\ UNCHANGED <<sendVars, reportSent, swallowed>>
    BY <1>6 DEF ScanBreaksOff
  <2>2. NoScan \in Scan /\ NoScan.kind = "none"
    BY DEF NoScan, Scan
  <2>3. scans' \in [Scans -> Scan]
    BY <1>1, <2>1, <2>2
  <2>4. faults' \in 0..MaxFaults /\ faults <= faults' /\ faults \in Nat /\ faults' \in Nat
    BY <2>1, Faulted
  <2>5. TypeOK'
    BY <2>1, <2>3, <2>4 DEF OutboxInvariant, TypeOK, Scan, sendVars
  <2>6. ReportsInOrder'
    BY <1>1, <2>1, <2>2 DEF OutboxInvariant, ReportsInOrder, Dealt, sendVars
  <2>7. (\A l \in Letters : Counted(l))'
    <3> SUFFICES ASSUME NEW l \in Letters PROVE Counted(l)'
      OBVIOUS
    <3>1. Counted(l) /\ strays[l]["send"] \in Nat /\ strays[l]["record"] \in Nat
      BY CountsAre DEF OutboxInvariant
    <3> QED
      BY <2>1, <2>4, <3>1 DEF Counted, Mails, Guarded, sendVars
  <2>8. ReturnsRecorded' /\ SentReportIsEnqueued'
    BY <2>1 DEF OutboxInvariant, ReturnsRecorded, SentReportIsEnqueued, sendVars
  <2> QED
    BY <2>5, <2>6, <2>7, <2>8 DEF OutboxInvariant
<1> QED
  BY <1>2, <1>3, <1>4, <1>5, <1>6
-----------------------------------------------------------------------------
(* Handlers: each of their steps is about one letter.                      *)

LEMMA LetterStep ==
  ASSUME OutboxInvariant, TypeOK', NEW l \in Letters, UNCHANGED scanVars, faults <= faults',
         \A m \in Letters \ {l} :
           /\ job'[m] = job[m] /\ handler'[m] = handler[m] /\ strays'[m] = strays[m]
           /\ mailed'[m] = mailed[m] /\ lapses'[m] = lapses[m] /\ (m \in sentEmail' <=> m \in sentEmail),
         job[l].state # "none" => job'[l].state # "none",
         handler'[l] = "return" => l \in sentEmail',
         Counted(l)'
  PROVE  OutboxInvariant'
<1>1. \A m \in Letters : job[m].state # "none" => job'[m].state # "none"
  OBVIOUS
<1>2. \A m \in Letters : Dealt(m) => Dealt(m)'
  BY <1>1 DEF Dealt, scanVars
<1>3. ReportsInOrder' /\ SentReportIsEnqueued'
  BY <1>2, StaysDealt DEF scanVars
<1>4. ReturnsRecorded'
  BY DEF OutboxInvariant, ReturnsRecorded
<1>5. ASSUME NEW m \in Letters \ {l} PROVE Counted(m)'
  <2>1. Counted(m) /\ strays[m]["send"] \in Nat /\ strays[m]["record"] \in Nat /\ faults \in Nat
    BY CountsAre DEF OutboxInvariant
  <2>2. faults' \in Nat
    BY OutboxAssumption DEF OutboxAssumption, TypeOK
  <2> QED
    BY <2>1, <2>2 DEF Counted, Mails, Guarded
<1> QED
  BY <1>3, <1>4, <1>5 DEF OutboxInvariant

\* What a letter's job becomes after a failed or an expired attempt.
LEMMA RetriedIs ==
  ASSUME TypeOK, NEW l \in Letters
  PROVE  /\ Retried(l) \in [Letters -> Job]
         /\ Retried(l)[l].state # "none" /\ \A m \in Letters \ {l} : Retried(l)[m] = job[m]
<1>1. job \in [Letters -> Job] /\ job[l].tries \in 0..RetryLimit /\ RetryLimit \in Nat
  BY OutboxAssumption DEF OutboxAssumption, TypeOK, Job
<1> DEFINE v == IF job[l].tries < RetryLimit THEN [state |-> "queued", tries |-> job[l].tries + 1] ELSE Over
<1>2. v \in Job /\ v.state # "none"
  BY <1>1 DEF Job, Live, Over
<1>3. Retried(l) = [job EXCEPT ![l] = v]
  BY DEF Retried
<1> HIDE DEF v
<1> QED
  BY <1>1, <1>2, <1>3

LEMMA Moved ==
  ASSUME OutboxInvariant, NEW l \in Letters, NEW p \in Place, NEW q \in {"record", "none", "return"},
         p # q, Move(l, p, q)
  PROVE  /\ strays' \in [Letters -> Count]
         /\ handler' \in [Letters -> Place \cup {"none", "return"}]
         /\ \A m \in Letters \ {l} : handler'[m] = handler[m] /\ strays'[m] = strays[m]
         /\ \/ /\ handler[l] = p /\ handler'[l] = q /\ handler' # handler /\ strays' = strays
            \/ /\ handler' = handler /\ strays[l][p] > 0
               /\ strays'[l]["send"] = strays[l]["send"] - (IF p = "send" THEN 1 ELSE 0)
               /\ strays'[l]["record"] = strays[l]["record"] - (IF p = "record" THEN 1 ELSE 0)
                                                             + (IF q = "record" THEN 1 ELSE 0)
<1>1. /\ strays \in [Letters -> Count] /\ handler \in [Letters -> Place \cup {"none", "return"}]
      /\ MaxFaults \in Nat /\ faults \in 0..MaxFaults
  BY OutboxAssumption DEF OutboxAssumption, OutboxInvariant, TypeOK, Count
<1>2. CASE handler[l] = p /\ handler' = [handler EXCEPT ![l] = q] /\ UNCHANGED strays
  BY <1>1, <1>2 DEF Place
<1>3. CASE /\ strays[l][p] > 0 /\ UNCHANGED handler
           /\ strays' = [strays EXCEPT ![l] = [r \in Place |->
                           @[r] - (IF r = p THEN 1 ELSE 0) + (IF r = q THEN 1 ELSE 0)]]
  <2> DEFINE d == [r \in Place |-> strays[l][r] - (IF r = p THEN 1 ELSE 0) + (IF r = q THEN 1 ELSE 0)]
  <2>1. /\ strays[l]["send"] \in Nat /\ strays[l]["record"] \in Nat
        /\ strays[l]["send"] + strays[l]["record"] <= faults
        /\ strays[l] \in Count
    BY CountsAre DEF OutboxInvariant, Counted
  <2>2. /\ d["send"] = strays[l]["send"] - (IF p = "send" THEN 1 ELSE 0)
        /\ d["record"] = strays[l]["record"] - (IF p = "record" THEN 1 ELSE 0) + (IF q = "record" THEN 1 ELSE 0)
    BY <2>1 DEF Place
  <2>3. d["send"] \in 0..MaxFaults /\ d["record"] \in 0..MaxFaults
    BY <1>1, <1>3, <2>1, <2>2 DEF Place
  <2>4. d \in Count
    BY <2>3 DEF Count, Place
  <2>5. strays' = [strays EXCEPT ![l] = d]
    BY <1>3
  <2> HIDE DEF d
  <2> QED
    BY <1>1, <1>3, <2>2, <2>4, <2>5
<1> QED
  BY <1>2, <1>3 DEF Move

LEMMA HandlerSteps ==
  ASSUME OutboxInvariant, NEW l \in Letters,
         Fetch(l) \/ DispatchEmail(l) \/ RecordSent(l) \/ Return(l) \/ Expire(l) \/ ExpireOrphan(l)
  PROVE  OutboxInvariant'
<1>1. TypeOK /\ Counted(l) /\ (handler[l] = "return" => l \in sentEmail)
  BY DEF OutboxInvariant, ReturnsRecorded
<1>2. /\ mailed[l] \in Nat /\ lapses[l] \in Nat /\ faults \in Nat
      /\ strays[l]["send"] \in Nat /\ strays[l]["record"] \in Nat
      /\ (handler[l] # "none" => job[l].state = "active")
  BY <1>1, CountsAre
<1>3. /\ job \in [Letters -> Job] /\ handler \in [Letters -> Place \cup {"none", "return"}]
      /\ strays \in [Letters -> Count]
      /\ mailed \in [Letters -> Nat] /\ lapses \in [Letters -> Nat] /\ sentEmail \subseteq Letters
      /\ \A m \in Letters : handler[m] # "none" => job[m].state = "active"
  BY <1>1 DEF TypeOK, Job, Count
<1>4. CASE Fetch(l)
  <2>1. /\ job[l].state = "queued" /\ job' = [job EXCEPT ![l].state = "active"]
        /\ handler' = [handler EXCEPT ![l] = IF l \in sentEmail THEN "return" ELSE "send"]
        /\ UNCHANGED <<sentEmail, strays, scanVars, faults, mailed, lapses>>
    BY <1>4 DEF Fetch
  <2>2. /\ job' \in [Letters -> Job] /\ job'[l].state = "active"
        /\ \A m \in Letters \ {l} : job'[m] = job[m] /\ handler'[m] = handler[m]
    BY <1>3, <2>1 DEF Job, Live
  <2>3. /\ handler[l] = "none" /\ handler' \in [Letters -> Place \cup {"none", "return"}]
        /\ handler'[l] = IF l \in sentEmail THEN "return" ELSE "send"
    BY <1>2, <1>3, <2>1 DEF Place
  <2>4. TypeOK'
    BY <1>1, <1>3, <2>1, <2>2, <2>3 DEF TypeOK, Job, scanVars
  <2>5. Counted(l)'
    BY <1>1, <1>2, <2>1, <2>3 DEF Counted, Mails, Guarded, Place
  <2> QED
    BY <1>2, <2>1, <2>2, <2>3, <2>4, <2>5, LetterStep
<1>5. CASE DispatchEmail(l)
  <2>1. /\ Move(l, "send", "record") /\ mailed' = [mailed EXCEPT ![l] = @ + 1]
        /\ UNCHANGED <<job, sentEmail, scanVars, faults, lapses>>
    BY <1>5 DEF DispatchEmail
  <2>2. /\ strays' \in [Letters -> Count]
        /\ handler' \in [Letters -> Place \cup {"none", "return"}]
        /\ \A m \in Letters \ {l} : handler'[m] = handler[m] /\ strays'[m] = strays[m]
        /\ \/ handler[l] = "send" /\ handler'[l] = "record" /\ strays' = strays
           \/ /\ handler' = handler /\ strays'[l]["send"] = strays[l]["send"] - 1
              /\ strays'[l]["record"] = strays[l]["record"] + 1
    BY <1>2, <2>1, Moved DEF Place
  <2>3. /\ mailed' \in [Letters -> Nat] /\ mailed'[l] = mailed[l] + 1
        /\ \A m \in Letters \ {l} : mailed'[m] = mailed[m]
    BY <1>2, <1>3, <2>1
  <2>4. TypeOK'
    BY <1>1, <1>3, <2>1, <2>2, <2>3 DEF TypeOK, Count, scanVars
  <2>5. Counted(l)'
    BY <1>1, <1>2, <2>1, <2>2, <2>3 DEF Counted, Mails, Guarded, Place
  <2>6. handler'[l] = "return" => l \in sentEmail'
    BY <1>1, <2>1, <2>2
  <2> QED
    BY <1>2, <2>1, <2>2, <2>3, <2>4, <2>5, <2>6, LetterStep
<1>6. CASE RecordSent(l)
  <2>1. /\ Move(l, "record", "return") /\ sentEmail' = sentEmail \cup {l}
        /\ UNCHANGED <<job, scanVars, faults, mailed, lapses>>
    BY <1>6 DEF RecordSent
  <2>2. /\ strays' \in [Letters -> Count]
        /\ handler' \in [Letters -> Place \cup {"none", "return"}]
        /\ \A m \in Letters \ {l} : handler'[m] = handler[m] /\ strays'[m] = strays[m]
        /\ \/ handler[l] = "record" /\ handler'[l] = "return" /\ strays' = strays
           \/ /\ handler' = handler /\ strays'[l]["send"] = strays[l]["send"]
              /\ strays'[l]["record"] = strays[l]["record"] - 1
    BY <1>2, <2>1, Moved DEF Place
  <2>3. TypeOK'
    BY <1>1, <1>3, <2>1, <2>2 DEF TypeOK, Count, scanVars
  <2>4. Counted(l)'
    BY <1>1, <1>2, <2>1, <2>2 DEF Counted, Mails, Guarded, Place
  <2> QED
    BY <1>2, <2>1, <2>2, <2>3, <2>4, LetterStep
<1>7. CASE Return(l)
  <2>1. /\ handler[l] = "return" /\ handler' = [handler EXCEPT ![l] = "none"]
        /\ job' = [job EXCEPT ![l] = Over]
        /\ UNCHANGED <<sentEmail, strays, scanVars, faults, mailed, lapses>>
    BY <1>7 DEF Return
  <2>2. Over \in Job /\ Over.state # "none"
    BY OutboxAssumption DEF OutboxAssumption, Over, Job
  <2>3. /\ job' \in [Letters -> Job] /\ job'[l].state # "none" /\ handler'[l] = "none"
        /\ handler' \in [Letters -> Place \cup {"none", "return"}]
        /\ \A m \in Letters \ {l} : job'[m] = job[m] /\ handler'[m] = handler[m]
    BY <1>3, <2>1, <2>2
  <2>4. TypeOK'
    BY <1>1, <1>3, <2>1, <2>3 DEF TypeOK, Job, scanVars
  <2>5. Counted(l)'
    BY <1>1, <1>2, <2>1, <2>3 DEF Counted, Mails, Guarded, Place
  <2> QED
    BY <1>2, <2>1, <2>3, <2>4, <2>5, LetterStep
<1>8. CASE Expire(l)
  <2>1. /\ Fault /\ handler[l] \in Place /\ handler' = [handler EXCEPT ![l] = "none"]
        /\ strays' = [strays EXCEPT ![l][handler[l]] = @ + 1] /\ job' = Retried(l)
        /\ lapses' = [lapses EXCEPT ![l] = @ + 1] /\ UNCHANGED <<sentEmail, scanVars, mailed>>
    BY <1>8 DEF Expire
  <2>2. faults' \in 0..MaxFaults /\ faults' = faults + 1 /\ MaxFaults \in Nat
    BY <2>1, Faulted
  <2>3. /\ job' \in [Letters -> Job] /\ job'[l].state # "none"
        /\ \A m \in Letters \ {l} : job'[m] = job[m]
    BY <1>1, <2>1, RetriedIs
  <2>4. /\ handler' \in [Letters -> Place \cup {"none", "return"}] /\ handler'[l] = "none"
        /\ lapses' \in [Letters -> Nat] /\ lapses'[l] = lapses[l] + 1
        /\ \A m \in Letters \ {l} : handler'[m] = handler[m] /\ lapses'[m] = lapses[m]
    BY <1>2, <1>3, <2>1
  <2>5. strays[l][handler[l]] + 1 \in 0..MaxFaults
    BY <1>1, <1>2, <2>1, <2>2 DEF Counted, Place
  <2>6. /\ strays' \in [Letters -> Count]
        /\ \A m \in Letters \ {l} : strays'[m] = strays[m]
        /\ strays'[l]["send"] = strays[l]["send"] + (IF handler[l] = "send" THEN 1 ELSE 0)
        /\ strays'[l]["record"] = strays[l]["record"] + (IF handler[l] = "record" THEN 1 ELSE 0)
    <3> DEFINE d == [strays[l] EXCEPT ![handler[l]] = @ + 1]
    <3>1. d \in Count
      BY <1>3, <2>1, <2>5 DEF Count
    <3>2. /\ d["send"] = strays[l]["send"] + (IF handler[l] = "send" THEN 1 ELSE 0)
          /\ d["record"] = strays[l]["record"] + (IF handler[l] = "record" THEN 1 ELSE 0)
      BY <1>2, <1>3, <2>1 DEF Count, Place
    <3>3. strays' = [strays EXCEPT ![l] = d]
      BY <1>3, <2>1
    <3> HIDE DEF d
    <3> QED
      BY <1>3, <3>1, <3>2, <3>3
  <2>7. TypeOK'
    BY <1>1, <1>3, <2>1, <2>2, <2>3, <2>4, <2>6 DEF TypeOK, Job, Count, scanVars
  <2>8. Counted(l)'
    BY <1>1, <1>2, <2>1, <2>2, <2>4, <2>6 DEF Counted, Mails, Guarded, Place
  <2> QED
    BY <1>2, <2>1, <2>2, <2>3, <2>4, <2>6, <2>7, <2>8, LetterStep
<1>9. CASE ExpireOrphan(l)
  <2>1. /\ handler[l] = "none" /\ job' = Retried(l)
        /\ UNCHANGED <<sentEmail, handler, strays, scanVars, faults, mailed, lapses>>
    BY <1>9 DEF ExpireOrphan
  <2>2. /\ job' \in [Letters -> Job] /\ job'[l].state # "none"
        /\ \A m \in Letters \ {l} : job'[m] = job[m]
    BY <1>1, <2>1, RetriedIs
  <2>3. TypeOK'
    BY <1>1, <1>3, <2>1, <2>2 DEF TypeOK, Job, scanVars
  <2>4. Counted(l)'
    BY <1>1, <2>1 DEF Counted, Mails, Guarded
  <2> QED
    BY <1>2, <2>1, <2>2, <2>3, <2>4, LetterStep
<1> QED
  BY <1>4, <1>5, <1>6, <1>7, <1>8, <1>9

LEMMA HandlerThrowsStep ==
  ASSUME OutboxInvariant, NEW l \in Letters, NEW p \in Place, NEW out \in BOOLEAN, HandlerThrows(l, p, out)
  PROVE  OutboxInvariant'
<1>1. TypeOK /\ Counted(l) /\ (handler[l] = "return" => l \in sentEmail)
  BY DEF OutboxInvariant, ReturnsRecorded
<1>2. /\ mailed[l] \in Nat /\ lapses[l] \in Nat /\ faults \in Nat
      /\ strays[l]["send"] \in Nat /\ strays[l]["record"] \in Nat
  BY <1>1, CountsAre
<1>3. /\ job \in [Letters -> Job] /\ mailed \in [Letters -> Nat] /\ lapses \in [Letters -> Nat]
      /\ \A m \in Letters : handler[m] # "none" => job[m].state = "active"
  BY <1>1 DEF TypeOK, Job
<1>4. /\ Fault /\ (p = "record" => out) /\ Move(l, p, "none")
      /\ job' = (IF handler' = handler THEN job ELSE Retried(l))
      /\ lapses' = [lapses EXCEPT ![l] = IF out /\ handler' # handler THEN @ + 1 ELSE @]
      /\ mailed' = [mailed EXCEPT ![l] = IF out /\ p = "send" THEN @ + 1 ELSE @]
      /\ UNCHANGED <<sentEmail, scanVars>>
  BY DEF HandlerThrows
<1>5. faults' \in 0..MaxFaults /\ faults' = faults + 1
  BY <1>4, Faulted
<1>6. /\ strays' \in [Letters -> Count]
      /\ handler' \in [Letters -> Place \cup {"none", "return"}]
      /\ \A m \in Letters \ {l} : handler'[m] = handler[m] /\ strays'[m] = strays[m]
      /\ \/ handler[l] = p /\ handler'[l] = "none" /\ handler' # handler /\ strays' = strays
         \/ /\ handler' = handler
            /\ strays'[l]["send"] = strays[l]["send"] - (IF p = "send" THEN 1 ELSE 0)
            /\ strays'[l]["record"] = strays[l]["record"] - (IF p = "record" THEN 1 ELSE 0)
  BY <1>2, <1>4, Moved DEF Place
<1>7. /\ job' \in [Letters -> Job] /\ \A m \in Letters \ {l} : job'[m] = job[m]
      /\ job[l].state # "none" => job'[l].state # "none"
      /\ handler' = handler => job' = job
  BY <1>1, <1>3, <1>4, RetriedIs
<1>8. /\ mailed' \in [Letters -> Nat] /\ lapses' \in [Letters -> Nat]
      /\ \A m \in Letters \ {l} : mailed'[m] = mailed[m] /\ lapses'[m] = lapses[m]
      /\ mailed'[l] = mailed[l] + (IF out /\ p = "send" THEN 1 ELSE 0)
      /\ lapses'[l] = lapses[l] + (IF out /\ handler' # handler THEN 1 ELSE 0)
  BY <1>2, <1>3, <1>4
<1>9. \A m \in Letters : handler'[m] # "none" => job'[m].state = "active"
  BY <1>3, <1>6, <1>7
<1>10. TypeOK'
  BY <1>1, <1>4, <1>5, <1>6, <1>7, <1>8, <1>9 DEF TypeOK, Job, Count, scanVars
<1>11. Counted(l)'
  BY <1>1, <1>2, <1>4, <1>5, <1>6, <1>8 DEF Counted, Mails, Guarded, Place
<1>12. handler'[l] = "return" => l \in sentEmail'
  BY <1>1, <1>4, <1>6
<1> QED
  BY <1>2, <1>4, <1>5, <1>6, <1>7, <1>8, <1>10, <1>11, <1>12, LetterStep

\* A crash is about many letters at once, but adds no mail and no job.
LEMMA CrashStep ==
  ASSUME OutboxInvariant, NEW die \in SUBSET Letters, NEW lost \in SUBSET Letters, Crash(die, lost)
  PROVE  OutboxInvariant'
<1>1. /\ Fault
      /\ handler' = [l \in Letters |-> IF l \in die THEN "none" ELSE handler[l]]
      /\ strays' = [l \in Letters |-> IF l \in lost THEN [p \in Place |-> 0] ELSE strays[l]]
      /\ lapses' = [l \in Letters |-> lapses[l] + (IF l \in die /\ handler[l] = "record" THEN 1 ELSE 0)]
      /\ UNCHANGED <<job, sentEmail, scanVars, mailed>>
  BY DEF Crash
<1>2. faults' \in 0..MaxFaults /\ faults' = faults + 1 /\ faults \in Nat /\ MaxFaults \in Nat
  BY <1>1, Faulted
<1>3. /\ handler \in [Letters -> Place \cup {"none", "return"}] /\ strays \in [Letters -> Count]
      /\ lapses \in [Letters -> Nat] /\ \A l \in Letters : handler[l] # "none" => job[l].state = "active"
  BY DEF OutboxInvariant, TypeOK, Count
<1>4. [p \in Place |-> 0] \in Count
  BY <1>2 DEF Count
<1>5. handler' \in [Letters -> Place \cup {"none", "return"}]
  BY <1>1, <1>3
<1>6. strays' \in [Letters -> Count]
  BY <1>1, <1>3, <1>4
<1>7. lapses' \in [Letters -> Nat]
  BY <1>1, <1>3
<1>8. TypeOK'
  BY <1>1, <1>2, <1>3, <1>5, <1>6, <1>7 DEF OutboxInvariant, TypeOK, Count, scanVars
<1>9. ASSUME NEW l \in Letters PROVE Counted(l)'
  <2>1. /\ Counted(l) /\ (handler[l] = "return" => l \in sentEmail)
        /\ mailed[l] \in Nat /\ lapses[l] \in Nat
        /\ strays[l]["send"] \in Nat /\ strays[l]["record"] \in Nat
        /\ handler[l] \in {"send", "record", "none", "return"}
    BY CountsAre DEF OutboxInvariant, ReturnsRecorded
  <2>2. /\ handler'[l] = (IF l \in die THEN "none" ELSE handler[l])
        /\ lapses'[l] = lapses[l] + (IF l \in die /\ handler[l] = "record" THEN 1 ELSE 0)
        /\ mailed'[l] = mailed[l] /\ (l \in sentEmail' <=> l \in sentEmail)
    BY <1>1
  <2>3. /\ strays'[l]["send"] = IF l \in lost THEN 0 ELSE strays[l]["send"]
        /\ strays'[l]["record"] = IF l \in lost THEN 0 ELSE strays[l]["record"]
    BY <1>1 DEF Place
  <2> QED
    BY <1>2, <2>1, <2>2, <2>3 DEF Counted, Mails, Guarded, Place
<1>10. ReturnsRecorded'
  BY <1>1 DEF OutboxInvariant, ReturnsRecorded
<1>11. ReportsInOrder' /\ SentReportIsEnqueued'
  <2>1. \A l \in Letters : Dealt(l) => Dealt(l)'
    BY <1>1 DEF Dealt, scanVars
  <2> QED
    BY <1>1, <2>1, StaysDealt DEF scanVars
<1> QED
  BY <1>8, <1>9, <1>10, <1>11 DEF OutboxInvariant

LEMMA OutboxStep == OutboxInvariant /\ [Next]_vars => OutboxInvariant'
<1> SUFFICES ASSUME OutboxInvariant, [Next]_vars PROVE OutboxInvariant'
  OBVIOUS
<1>1. CASE \E s \in Scans : \/ StartReport(s) \/ StartCandidateScan(s)
                            \/ ScanStep(s) \/ EnqueueFails(s) \/ ReportEnds(s) \/ ScanBreaksOff(s)
  BY <1>1, ScanSteps
<1>2. CASE \E l \in Letters : Fetch(l) \/ HandlerStep(l) \/ Expire(l) \/ ExpireOrphan(l)
  BY <1>2, HandlerSteps DEF HandlerStep
<1>3. CASE \E l \in Letters, p \in Place, out \in BOOLEAN : HandlerThrows(l, p, out)
  BY <1>3, HandlerThrowsStep
<1>4. CASE \E die, lost \in SUBSET Letters : die \cup lost # {} /\ Crash(die, lost)
  BY <1>4, CrashStep
<1>5. CASE UNCHANGED vars
  BY <1>5 DEF OutboxInvariant, TypeOK, Counted, Mails, Guarded, ReturnsRecorded, ReportsInOrder,
              Dealt, SentReportIsEnqueued, vars
<1> QED
  BY <1>1, <1>2, <1>3, <1>4, <1>5 DEF Next

-----------------------------------------------------------------------------
(* The theorems.                                                           *)

\* In every behaviour, the mails of a letter are accounted for by its row, its
\* handlers and those that were lost, and reports leave nobody behind.
THEOREM OutboxSafe == Spec => []OutboxInvariant
<1>1. Init => OutboxInvariant
  BY OutboxInit
<1>2. OutboxInvariant /\ [Next]_vars => OutboxInvariant'
  BY OutboxStep
<1> QED
  BY <1>1, <1>2, PTL DEF Spec

\* Variables keep their types; in particular a handler pg-boss waits for has an
\* active job, and there are never more strays than faults.
THEOREM OutboxTypes == Spec => []TypeOK
<1>1. OutboxInvariant => TypeOK
  BY DEF OutboxInvariant
<1> QED
  BY <1>1, OutboxSafe, PTL

\* A recipient gets a letter once more at most for every handler that was lost
\* between the check for the row of SentEmail and the write of it.
THEOREM OutboxDuplicates == Spec => []DuplicatesHaveACause
<1>1. OutboxInvariant => DuplicatesHaveACause
  <2> SUFFICES ASSUME OutboxInvariant, NEW l \in Letters PROVE mailed[l] <= 1 + lapses[l]
    BY DEF DuplicatesHaveACause
  <2>1. Counted(l) /\ mailed[l] \in Nat /\ lapses[l] \in Nat /\ strays[l]["send"] \in Nat
    BY CountsAre DEF OutboxInvariant
  <2> QED
    BY <2>1 DEF Counted, Mails
<1> QED
  BY <1>1, OutboxSafe, PTL

\* A report that counts as sent has a job for every recipient, except for those
\* whose enqueue failed.
THEOREM OutboxReportEnqueued == Spec => []SentReportIsEnqueued
<1>1. OutboxInvariant => SentReportIsEnqueued
  BY DEF OutboxInvariant
<1> QED
  BY <1>1, OutboxSafe, PTL
=============================================================================
