----------------------- MODULE EventInserter_proofs -----------------------
(***************************************************************************)
(* Proofs about EventInserter for every set of events, every capacity and  *)
(* every deduplication window.                                             *)
(***************************************************************************)
EXTENDS EventInserter, TLAPS

FlushRecord == [rows : SUBSET Event, since : Nat, block : Nat]

\* What is in memory was accepted, and an event is in one place only.
HeldInv ==
  /\ channel \subseteq accepted
  /\ batch \subseteq accepted
  /\ channel \cap batch = {}
  /\ ~InserterAlive => channel = {} /\ batch = {} /\ token = 0

\* A flush owns its rows for good: they are in no other flush, not in the
\* channel and, but for the flush in progress, not in the batch.
FlushInv ==
  /\ \A t \in DOMAIN flushes : flushes[t].rows \subseteq accepted \ channel
  /\ \A t \in DOMAIN flushes : t # token => flushes[t].rows \cap batch = {}
  /\ \A t, u \in DOMAIN flushes : t # u => flushes[t].rows \cap flushes[u].rows = {}
  /\ token # 0 => token = Len(flushes) /\ flushes[token].rows = batch

\* A block has a number above the count its flush started at.
BlockOrder ==
  \A t \in DOMAIN flushes : /\ flushes[t].since <= blocks
                            /\ flushes[t].block <= blocks
                            /\ flushes[t].block # 0 => flushes[t].since < flushes[t].block

\* The server still remembers the flush in progress if it executed it: the
\* blocks inserted since then belong to older flushes, which must have been
\* executed within a window of their own start.
WindowInv ==
  /\ BlockOrder
  /\ token # 0 => /\ \A t \in DOMAIN flushes : flushes[t].since <= flushes[token].since
                  /\ flushes[token].block # 0 => Remembered(token)

\* The table holds an event once if a flush with it was executed, else not.
CountInv ==
  \A e \in Event :
    rows[e] = IF \E t \in DOMAIN flushes : e \in flushes[t].rows /\ flushes[t].block # 0
              THEN 1 ELSE 0

IInv == TypeOK /\ HeldInv /\ FlushInv /\ WindowInv /\ CountInv /\ NoSilentLoss

-----------------------------------------------------------------------------
(* What a new flush leaves alone.                                          *)

LEMMA AppendFlush ==
  ASSUME NEW fs \in Seq(FlushRecord), NEW r \in FlushRecord
  PROVE  /\ Append(fs, r) \in Seq(FlushRecord)
         /\ Len(Append(fs, r)) = Len(fs) + 1
         /\ DOMAIN Append(fs, r) = DOMAIN fs \cup {Len(fs) + 1}
         /\ \A t \in DOMAIN fs : Append(fs, r)[t] = fs[t]
         /\ Append(fs, r)[Len(fs) + 1] = r
         /\ Len(fs) + 1 \notin DOMAIN fs
  OBVIOUS

\* What stamping one flush leaves alone.
LEMMA OverwriteFlush ==
  ASSUME NEW fs \in Seq(FlushRecord), NEW t \in DOMAIN fs, NEW r \in FlushRecord
  PROVE  /\ [fs EXCEPT ![t] = r] \in Seq(FlushRecord)
         /\ DOMAIN [fs EXCEPT ![t] = r] = DOMAIN fs
         /\ Len([fs EXCEPT ![t] = r]) = Len(fs)
         /\ [fs EXCEPT ![t] = r][t] = r
         /\ \A u \in DOMAIN fs : u # t => [fs EXCEPT ![t] = r][u] = fs[u]
  OBVIOUS

-----------------------------------------------------------------------------
THEOREM InserterInit == Init => IInv
<1>. SUFFICES ASSUME Init PROVE IInv
  OBVIOUS
<1>. USE InserterAssumption DEF Init
<1>1. flushes \in Seq(FlushRecord) /\ Len(flushes) = 0 /\ DOMAIN flushes = {}
  OBVIOUS
<1>2. TypeOK
  BY <1>1 DEF TypeOK, Phases, FlushRecord
<1>. QED
  BY <1>1, <1>2 DEF IInv, HeldInv, FlushInv, WindowInv, BlockOrder, CountInv, NoSilentLoss, InserterAlive

\* One execution of an insert by the server, on behalf of a flush that is in
\* progress or was started less than a window ago.
LEMMA ServerInsertsLemma ==
  ASSUME IInv, NEW t \in DOMAIN flushes, ServerInserts(t),
         t = token \/ blocks - flushes[t].since < DedupWindow
  PROVE  /\ flushes' \in Seq(FlushRecord) /\ DOMAIN flushes' = DOMAIN flushes
         /\ Len(flushes') = Len(flushes)
         /\ \A u \in DOMAIN flushes : /\ flushes'[u].rows = flushes[u].rows
                                      /\ flushes'[u].since = flushes[u].since
         /\ blocks' \in Nat /\ rows' \in [Event -> Nat]
         /\ BlockOrder'
         /\ token # 0 /\ flushes'[token].block # 0 =>
               blocks' - flushes'[token].block < DedupWindow
         /\ CountInv'
         /\ flushes[t].rows \subseteq Stored'
         /\ Stored \subseteq Stored'
<1>. USE InserterAssumption DEF IInv
<1>1. flushes \in Seq(FlushRecord) /\ blocks \in Nat /\ rows \in [Event -> Nat]
  BY DEF TypeOK, FlushRecord
<1>2. \A u \in DOMAIN flushes : flushes[u] \in FlushRecord
  BY <1>1
<1>3. CASE Remembered(t)
  <2>1. UNCHANGED <<blocks, rows, flushes>>
    BY <1>3 DEF ServerInserts
  <2>2. BlockOrder' /\ CountInv'
    BY <2>1 DEF WindowInv, BlockOrder, CountInv
  <2>4. token # 0 /\ flushes'[token].block # 0 => blocks' - flushes'[token].block < DedupWindow
    BY <2>1 DEF WindowInv, Remembered
  <2>3. \A e \in flushes[t].rows : rows[e] = 1
    BY <1>2, <1>3 DEF CountInv, Remembered, FlushRecord
  <2>. QED
    BY <1>1, <1>2, <2>1, <2>2, <2>4, <2>3 DEF Stored, FlushRecord
<1>4. CASE ~Remembered(t)
  <2>1. /\ blocks' = blocks + 1
        /\ rows' = [e \in Event |-> IF e \in flushes[t].rows THEN rows[e] + 1 ELSE rows[e]]
        /\ flushes' = [flushes EXCEPT ![t].block = blocks + 1]
    BY <1>4 DEF ServerInserts
  <2>2. /\ flushes' \in Seq(FlushRecord) /\ DOMAIN flushes' = DOMAIN flushes
        /\ Len(flushes') = Len(flushes)
        /\ \A u \in DOMAIN flushes : /\ flushes'[u].rows = flushes[u].rows
                                     /\ flushes'[u].since = flushes[u].since
                                     /\ u # t => flushes'[u].block = flushes[u].block
        /\ flushes'[t].block = blocks + 1
    <3>1. flushes[t] \in FlushRecord
      BY <1>2
    <3>2. PICK r : r = [flushes[t] EXCEPT !.block = blocks + 1]
      OBVIOUS
    <3>3. r = [rows |-> flushes[t].rows, since |-> flushes[t].since, block |-> blocks + 1]
      BY <3>1, <3>2 DEF FlushRecord
    <3>4. r \in FlushRecord
      BY <1>1, <3>1, <3>3 DEF FlushRecord
    <3>5. flushes' = [flushes EXCEPT ![t] = r]
      BY <2>1, <3>2, Zenon
    <3>6. /\ flushes' \in Seq(FlushRecord) /\ DOMAIN flushes' = DOMAIN flushes
          /\ Len(flushes') = Len(flushes)
          /\ flushes'[t] = r
          /\ \A u \in DOMAIN flushes : u # t => flushes'[u] = flushes[u]
      BY <1>1, <3>4, <3>5, OverwriteFlush, Zenon
    <3>. QED
      BY <3>3, <3>6
  <2>3. flushes[t].block = 0
    BY <1>1, <1>2, <1>4 DEF WindowInv, BlockOrder, Remembered, FlushRecord
  <2>4. BlockOrder'
    <3>. SUFFICES ASSUME NEW u \in DOMAIN flushes'
                  PROVE  /\ flushes'[u].since <= blocks'
                         /\ flushes'[u].block <= blocks'
                         /\ flushes'[u].block # 0 => flushes'[u].since < flushes'[u].block
      BY DEF BlockOrder
    <3>1. /\ u \in DOMAIN flushes /\ flushes[u] \in FlushRecord
          /\ flushes'[u].since = flushes[u].since
          /\ flushes'[u].block = IF u = t THEN blocks + 1 ELSE flushes[u].block
      BY <1>2, <2>2
    <3>2. flushes[u].since \in Nat /\ flushes[u].block \in Nat
      BY <3>1 DEF FlushRecord
    <3>. QED
      BY <1>1, <2>1, <3>1, <3>2 DEF WindowInv, BlockOrder
  <2>5. ASSUME token # 0, flushes'[token].block # 0
        PROVE  blocks' - flushes'[token].block < DedupWindow
    <3>1. token \in DOMAIN flushes
      BY <1>1, <2>5 DEF TypeOK
    <3>2. CASE t = token
      BY <1>1, <2>1, <2>2, <3>2
    <3>3. CASE t # token
      <4>1. blocks - flushes[t].since < DedupWindow
        BY <3>3
      <4>2. flushes[token].block # 0 /\ flushes'[token].block = flushes[token].block
        BY <2>2, <2>5, <3>1, <3>3
      <4>3. flushes[t].since <= flushes[token].since /\ flushes[token].since < flushes[token].block
        BY <2>5, <3>1, <4>2 DEF WindowInv, BlockOrder
      <4>. QED
        BY <1>1, <1>2, <2>1, <3>1, <4>1, <4>2, <4>3 DEF FlushRecord
    <3>. QED
      BY <3>2, <3>3
  <2>6. CountInv'
    <3>1. SUFFICES ASSUME NEW e \in Event
                   PROVE rows'[e] = IF \E u \in DOMAIN flushes' :
                                         e \in flushes'[u].rows /\ flushes'[u].block # 0
                                    THEN 1 ELSE 0
      BY DEF CountInv
    <3>2. CASE e \in flushes[t].rows
      <4>1. \A u \in DOMAIN flushes : e \in flushes[u].rows => u = t
        BY <3>2 DEF FlushInv
      <4>2. rows[e] = 0
        BY <2>3, <4>1 DEF CountInv
      <4>. QED
        BY <1>1, <2>1, <2>2, <3>2, <4>2
    <3>3. CASE e \notin flushes[t].rows
      <4>1. \A u \in DOMAIN flushes : e \in flushes[u].rows => u # t
        BY <3>3
      <4>. QED
        BY <2>1, <2>2, <3>3, <4>1 DEF CountInv
    <3>. QED
      BY <3>2, <3>3
  <2>7. rows' \in [Event -> Nat] /\ blocks' \in Nat
    BY <1>1, <2>1
  <2>8. Stored \subseteq Stored' /\ flushes[t].rows \subseteq Stored'
    <3>1. flushes[t].rows \subseteq Event
      BY <1>2 DEF FlushRecord
    <3>2. \A e \in Event : /\ rows[e] \in Nat
                           /\ rows'[e] = IF e \in flushes[t].rows THEN rows[e] + 1 ELSE rows[e]
      BY <1>1, <2>1
    <3>3. \A e \in Event : /\ rows[e] > 0 => rows'[e] > 0
                           /\ e \in flushes[t].rows => rows'[e] > 0
      BY <3>2
    <3>4. Stored' = {e \in Event : rows'[e] > 0}
      BY DEF Stored
    <3>. QED
      BY <3>1, <3>3, <3>4 DEF Stored
  <2>. QED
    BY <2>2, <2>4, <2>5, <2>6, <2>7, <2>8
<1>. QED
  BY <1>3, <1>4

\* A fresh flush of the rows S, of which only those just taken from the
\* channel were not in the batch before.
LEMMA StartFlushLemma ==
  ASSUME IInv, token = 0, NEW S \in SUBSET accepted, StartFlush(S),
         batch' = S, S \subseteq batch \cup channel, S \cap channel' = {},
         channel' \subseteq channel, UNCHANGED <<accepted, blocks, rows>>
  PROVE  /\ flushes' \in Seq(FlushRecord) /\ Len(flushes') = Len(flushes) + 1
         /\ token' \in 0 .. Len(flushes') /\ rejected' = 0
         /\ FlushInv' /\ WindowInv' /\ CountInv'
<1>. DEFINE r == [rows |-> S, since |-> blocks, block |-> 0]
            n == Len(flushes) + 1
<1>1. flushes \in Seq(FlushRecord) /\ Len(flushes) \in Nat /\ r \in FlushRecord
  BY DEF IInv, TypeOK, FlushRecord
<1>2. /\ flushes' \in Seq(FlushRecord) /\ Len(flushes') = n
      /\ DOMAIN flushes' = DOMAIN flushes \cup {n}
      /\ \A t \in DOMAIN flushes : flushes'[t] = flushes[t]
      /\ flushes'[n] = r
      /\ n \notin DOMAIN flushes
  BY <1>1, AppendFlush DEF StartFlush
<1>3. token' = n /\ rejected' = 0 /\ n # 0
  BY <1>1 DEF StartFlush
<1>4. r.rows = S /\ r.since = blocks /\ r.block = 0
  OBVIOUS
<1>. HIDE DEF r, n
<1>5. \A t \in DOMAIN flushes : t # token
  BY <1>1
<1>6. \A t \in DOMAIN flushes : flushes[t].rows \cap S = {}
  BY <1>5 DEF IInv, FlushInv
<1>7. FlushInv'
  BY <1>2, <1>3, <1>4, <1>6 DEF IInv, FlushInv
<1>8. blocks \in Nat /\ \A t \in DOMAIN flushes : flushes[t].since <= blocks
  BY DEF IInv, TypeOK, WindowInv, BlockOrder
<1>9. WindowInv'
  BY <1>2, <1>3, <1>4, <1>8 DEF IInv, WindowInv, BlockOrder
<1>10. CountInv'
  BY <1>2, <1>4 DEF IInv, CountInv
<1>11. token' \in 0 .. Len(flushes')
  BY <1>1, <1>2, <1>3 DEF n
<1>. QED
  BY <1>2, <1>3, <1>7, <1>9, <1>10, <1>11 DEF n

-----------------------------------------------------------------------------
\* Every step keeps the invariant.
THEOREM InserterStep == IInv /\ [Next]_vars => IInv'
<1>. SUFFICES ASSUME IInv, [Next]_vars PROVE IInv'
  OBVIOUS
<1>. USE InserterAssumption
<1>1. ASSUME NEW e \in Event, TrySend(e) PROVE IInv'
  <2>1. TypeOK'
    BY <1>1 DEF IInv, TypeOK, TrySend, serverVars
  <2>2. HeldInv'
    BY <1>1 DEF IInv, HeldInv, TrySend, InserterAlive
  <2>3. FlushInv'
    BY <1>1 DEF IInv, FlushInv, TrySend, serverVars
  <2>4. WindowInv' /\ CountInv'
    BY <1>1 DEF IInv, WindowInv, BlockOrder, CountInv, TrySend, serverVars, Remembered
  <2>5. NoSilentLoss'
    BY <1>1 DEF IInv, NoSilentLoss, TrySend, serverVars, Stored, WrittenOff
  <2>. QED
    BY <2>1, <2>2, <2>3, <2>4, <2>5 DEF IInv
<1>2. ASSUME NEW e \in Event, Recv(e) PROVE IInv'
  <2>1. /\ InserterAlive /\ token = 0 /\ e \in channel /\ channel' = channel \ {e}
        /\ UNCHANGED <<phase, starts, abandoned, blocks, rows, accepted, refused, gaveUp, lost>>
    BY <1>2 DEF Recv, Flushing
  <2>2. CASE /\ e \in UnknownType /\ skipped' = skipped \cup {e}
             /\ UNCHANGED <<batch, token, rejected, flushes>>
    <3>1. TypeOK' /\ HeldInv'
      BY <2>1, <2>2 DEF IInv, TypeOK, HeldInv, InserterAlive
    <3>2. FlushInv' /\ WindowInv' /\ CountInv'
      BY <2>1, <2>2 DEF IInv, FlushInv, WindowInv, BlockOrder, CountInv, Remembered
    <3>3. NoSilentLoss'
      BY <2>1, <2>2 DEF IInv, NoSilentLoss, Stored, WrittenOff
    <3>. QED
      BY <3>1, <3>2, <3>3 DEF IInv
  <2>3. ASSUME e \notin UnknownType, batch' = batch \cup {e}, UNCHANGED skipped
        PROVE  HeldInv' /\ NoSilentLoss'
    BY <2>1, <2>3 DEF IInv, HeldInv, NoSilentLoss, InserterAlive, Stored, WrittenOff
  <2>4. CASE /\ e \notin UnknownType /\ batch' = batch \cup {e}
             /\ UNCHANGED <<skipped, token, rejected, flushes>>
    <3>1. TypeOK'
      BY <2>1, <2>4 DEF IInv, TypeOK
    <3>2. FlushInv' /\ WindowInv' /\ CountInv'
      BY <2>1, <2>4 DEF IInv, FlushInv, WindowInv, BlockOrder, CountInv, Remembered
    <3>. QED
      BY <2>3, <2>4, <3>1, <3>2 DEF IInv
  <2>5. CASE /\ e \notin UnknownType /\ batch' = batch \cup {e} /\ StartFlush(batch')
             /\ UNCHANGED skipped
    <3>1. /\ batch' \in SUBSET accepted /\ batch' \cap channel' = {}
          /\ batch' \subseteq batch \cup channel /\ channel' \subseteq channel
      BY <2>1, <2>5 DEF IInv, HeldInv
    <3>2. /\ flushes' \in Seq(FlushRecord) /\ Len(flushes') = Len(flushes) + 1
          /\ token' \in 0 .. Len(flushes') /\ rejected' = 0
          /\ FlushInv' /\ WindowInv' /\ CountInv'
      BY <2>1, <2>5, <3>1, StartFlushLemma
    <3>3. abandoned' \subseteq 1 .. Len(flushes') /\ rejected' \in 0 .. RejectedAttempts - 1
      BY <2>1, <3>2 DEF IInv, TypeOK
    <3>4. TypeOK'
      BY <2>1, <2>5, <3>2, <3>3 DEF IInv, TypeOK, FlushRecord
    <3>. QED
      BY <2>3, <2>5, <3>2, <3>4 DEF IInv
  <2>. QED
    BY <1>2, <2>2, <2>4, <2>5 DEF Recv
<1>3. ASSUME FlushRest PROVE IInv'
  <2>1. /\ InserterAlive /\ token = 0 /\ StartFlush(batch)
        /\ UNCHANGED <<phase, starts, channel, batch, abandoned, blocks, rows,
                       accepted, refused, skipped, gaveUp, lost>>
    BY <1>3 DEF FlushRest, Flushing, historyVars
  <2>2. /\ flushes' \in Seq(FlushRecord) /\ Len(flushes') = Len(flushes) + 1
        /\ token' \in 0 .. Len(flushes') /\ rejected' = 0
        /\ FlushInv' /\ WindowInv' /\ CountInv'
    <3>1. batch \in SUBSET accepted /\ batch \cap channel' = {} /\ batch' = batch
      BY <2>1 DEF IInv, HeldInv
    <3>. QED
      BY <2>1, <3>1, StartFlushLemma
  <2>3. abandoned' \subseteq 1 .. Len(flushes') /\ rejected' \in 0 .. RejectedAttempts - 1
    BY <2>1, <2>2 DEF IInv, TypeOK
  <2>4. TypeOK'
    BY <2>1, <2>2, <2>3 DEF IInv, TypeOK, FlushRecord
  <2>5. HeldInv' /\ NoSilentLoss'
    BY <2>1 DEF IInv, HeldInv, NoSilentLoss, InserterAlive, Stored, WrittenOff
  <2>. QED
    BY <2>2, <2>4, <2>5 DEF IInv
<1>4. ASSUME InsertConfirmed PROVE IInv'
  <2>1. /\ InserterAlive /\ token # 0 /\ ServerInserts(token)
        /\ batch' = {} /\ token' = 0 /\ rejected' = 0
        /\ UNCHANGED <<phase, starts, channel, abandoned,
                       accepted, refused, skipped, gaveUp, lost>>
    BY <1>4 DEF InsertConfirmed, EndFlush, Flushing, historyVars
  <2>2. token \in DOMAIN flushes /\ batch = flushes[token].rows
    BY <2>1 DEF IInv, TypeOK, FlushInv
  <2>3. /\ flushes' \in Seq(FlushRecord) /\ DOMAIN flushes' = DOMAIN flushes
        /\ Len(flushes') = Len(flushes)
        /\ \A u \in DOMAIN flushes : flushes'[u].rows = flushes[u].rows
        /\ blocks' \in Nat /\ rows' \in [Event -> Nat]
        /\ BlockOrder' /\ CountInv'
        /\ batch \subseteq Stored' /\ Stored \subseteq Stored'
    BY <2>1, <2>2, ServerInsertsLemma
  <2>4. TypeOK'
    <3>1. token' \in 0 .. Len(flushes') /\ rejected' \in 0 .. RejectedAttempts - 1
      BY <2>1, <2>3 DEF IInv, TypeOK
    <3>2. batch' \subseteq Event /\ abandoned' \subseteq 1 .. Len(flushes')
      BY <2>1, <2>3 DEF IInv, TypeOK
    <3>. QED
      BY <2>1, <2>3, <3>1, <3>2 DEF IInv, TypeOK, FlushRecord
  <2>5. HeldInv'
    BY <2>1 DEF IInv, HeldInv, InserterAlive
  <2>6. FlushInv' /\ WindowInv'
    BY <2>1, <2>3 DEF IInv, FlushInv, WindowInv
  <2>7. NoSilentLoss'
    BY <2>1, <2>3 DEF IInv, NoSilentLoss, WrittenOff
  <2>. QED
    BY <2>3, <2>4, <2>5, <2>6, <2>7 DEF IInv
<1>5. ASSUME InsertFails PROVE IInv'
  <2>1. TypeOK'
    BY <1>5 DEF IInv, TypeOK, InsertFails, Flushing, historyVars
  <2>2. HeldInv' /\ FlushInv'
    BY <1>5 DEF IInv, HeldInv, FlushInv, InsertFails, historyVars, InserterAlive
  <2>3. NoSilentLoss'
    BY <1>5 DEF IInv, NoSilentLoss, InsertFails, historyVars, Stored, WrittenOff
  <2>4. WindowInv' /\ CountInv'
    BY <1>5 DEF IInv, WindowInv, BlockOrder, CountInv, InsertFails, Remembered
  <2>. QED
    BY <2>1, <2>2, <2>3, <2>4 DEF IInv
<1>6. ASSUME InsertRejected PROVE IInv'
  <2>1. /\ InserterAlive /\ token # 0
        /\ UNCHANGED <<phase, starts, channel, flushes, abandoned, blocks, rows,
                       accepted, refused, skipped, lost>>
    BY <1>6 DEF InsertRejected, Flushing, serverVars
  <2>2. CASE rejected + 1 >= RejectedAttempts
    <3>1. gaveUp' = gaveUp \cup batch /\ batch' = {} /\ token' = 0 /\ rejected' = 0
      BY <1>6, <2>2 DEF InsertRejected, EndFlush
    <3>2. TypeOK'
      BY <2>1, <3>1 DEF IInv, TypeOK
    <3>3. HeldInv' /\ FlushInv' /\ NoSilentLoss'
      BY <2>1, <3>1 DEF IInv, HeldInv, FlushInv, NoSilentLoss, InserterAlive, Stored, WrittenOff
    <3>4. WindowInv' /\ CountInv'
      BY <2>1, <3>1 DEF IInv, WindowInv, BlockOrder, CountInv
    <3>. QED
      BY <3>2, <3>3, <3>4 DEF IInv
  <2>3. CASE ~(rejected + 1 >= RejectedAttempts)
    <3>1. rejected' = rejected + 1 /\ UNCHANGED <<batch, token, gaveUp>>
      BY <1>6, <2>3 DEF InsertRejected
    <3>2. TypeOK'
      BY <2>1, <2>3, <3>1 DEF IInv, TypeOK
    <3>3. HeldInv' /\ FlushInv' /\ NoSilentLoss'
      BY <2>1, <3>1 DEF IInv, HeldInv, FlushInv, NoSilentLoss, InserterAlive, Stored, WrittenOff
    <3>4. WindowInv' /\ CountInv'
      BY <2>1, <3>1 DEF IInv, WindowInv, BlockOrder, CountInv, Remembered
    <3>. QED
      BY <3>2, <3>3, <3>4 DEF IInv
  <2>. QED
    BY <2>2, <2>3
<1>7. ASSUME ShutdownSignal \/ HttpServerStopped \/ DrainComplete \/ Restart PROVE IInv'
  <2>1. /\ phase' \in Phases /\ starts' \in Nat
        /\ ~InserterAlive' => channel = {} /\ batch = {} /\ token = 0
        /\ UNCHANGED <<channel, batch, token, rejected, flushes, abandoned, blocks, rows,
                       accepted, refused, skipped, gaveUp, lost>>
    BY <1>7 DEF ShutdownSignal, HttpServerStopped, DrainComplete, Restart, Flushing,
                InserterAlive, Phases, IInv, TypeOK, serverVars, historyVars
  <2>2. TypeOK'
    BY <2>1 DEF IInv, TypeOK
  <2>3. HeldInv' /\ FlushInv' /\ NoSilentLoss'
    BY <2>1 DEF IInv, HeldInv, FlushInv, NoSilentLoss, Stored, WrittenOff
  <2>4. WindowInv' /\ CountInv'
    BY <2>1 DEF IInv, WindowInv, BlockOrder, CountInv, Remembered
  <2>. QED
    BY <2>2, <2>3, <2>4 DEF IInv
<1>8. ASSUME Killed PROVE IInv'
  <2>1. /\ phase' = "killed" /\ lost' = lost \cup channel \cup batch
        /\ channel' = {} /\ batch' = {} /\ token' = 0 /\ rejected' = 0
        /\ abandoned' \subseteq abandoned \cup (IF token # 0 THEN {token} ELSE {})
        /\ UNCHANGED <<starts, flushes, blocks, rows, accepted, refused, skipped, gaveUp>>
    BY <1>8 DEF Killed, EndFlush, Flushing
  <2>2. TypeOK'
    BY <2>1 DEF IInv, TypeOK, Phases
  <2>3. HeldInv' /\ FlushInv' /\ NoSilentLoss'
    BY <2>1 DEF IInv, HeldInv, FlushInv, NoSilentLoss, Stored, WrittenOff
  <2>4. WindowInv' /\ CountInv'
    BY <2>1 DEF IInv, WindowInv, BlockOrder, CountInv
  <2>. QED
    BY <2>2, <2>3, <2>4 DEF IInv
<1>9. ASSUME NEW t \in DOMAIN flushes, ServerInsertsLate(t) PROVE IInv'
  <2>1. /\ ServerInserts(t) /\ blocks - flushes[t].since < DedupWindow
        /\ UNCHANGED <<phase, starts, channel, batch, token, rejected, abandoned,
                       accepted, refused, skipped, gaveUp, lost>>
    BY <1>9 DEF ServerInsertsLate, historyVars
  <2>2. /\ flushes' \in Seq(FlushRecord) /\ DOMAIN flushes' = DOMAIN flushes
        /\ Len(flushes') = Len(flushes)
        /\ \A u \in DOMAIN flushes : /\ flushes'[u].rows = flushes[u].rows
                                     /\ flushes'[u].since = flushes[u].since
        /\ blocks' \in Nat /\ rows' \in [Event -> Nat]
        /\ BlockOrder' /\ CountInv'
        /\ token # 0 /\ flushes'[token].block # 0 =>
              blocks' - flushes'[token].block < DedupWindow
        /\ Stored \subseteq Stored'
    BY <2>1, ServerInsertsLemma
  <2>3. TypeOK'
    BY <2>1, <2>2 DEF IInv, TypeOK, FlushRecord
  <2>4. HeldInv' /\ NoSilentLoss'
    BY <2>1, <2>2 DEF IInv, HeldInv, InserterAlive, NoSilentLoss, WrittenOff
  <2>5. token # 0 => token \in DOMAIN flushes
    BY DEF IInv, TypeOK
  <2>6. FlushInv'
    BY <2>1, <2>2, <2>5 DEF IInv, FlushInv
  <2>7. WindowInv'
    BY <2>1, <2>2, <2>5 DEF IInv, WindowInv, Remembered
  <2>. QED
    BY <2>2, <2>3, <2>4, <2>6, <2>7 DEF IInv
<1>10. ASSUME NEW t \in DOMAIN flushes, ServerDrops(t) PROVE IInv'
  <2>1. TypeOK'
    BY <1>10 DEF IInv, TypeOK, ServerDrops, historyVars
  <2>2. HeldInv' /\ FlushInv' /\ NoSilentLoss'
    BY <1>10 DEF IInv, HeldInv, FlushInv, NoSilentLoss, ServerDrops, historyVars,
                 InserterAlive, Stored, WrittenOff
  <2>3. WindowInv' /\ CountInv'
    BY <1>10 DEF IInv, WindowInv, BlockOrder, CountInv, ServerDrops, Remembered
  <2>. QED
    BY <2>1, <2>2, <2>3 DEF IInv
<1>11. ASSUME UNCHANGED vars PROVE IInv'
  <2>1. TypeOK' /\ HeldInv' /\ FlushInv' /\ NoSilentLoss'
    BY <1>11 DEF vars, serverVars, historyVars, IInv, TypeOK, HeldInv, FlushInv, NoSilentLoss,
                 InserterAlive, Stored, WrittenOff
  <2>2. WindowInv' /\ CountInv'
    BY <1>11 DEF vars, serverVars, IInv, WindowInv, BlockOrder, CountInv, Remembered
  <2>. QED
    BY <2>1, <2>2 DEF IInv
<1>. QED
  BY <1>1, <1>2, <1>3, <1>4, <1>5, <1>6, <1>7, <1>8, <1>9, <1>10, <1>11
  DEF Next, Inserter, Main, Server

-----------------------------------------------------------------------------
\* The invariant holds throughout.
THEOREM InserterInvariant == Spec => []IInv
<1>. QED
  BY InserterInit, InserterStep, PTL DEF Spec

\* Every variable of the pipeline keeps its type.
THEOREM InserterTypes == Spec => []TypeOK
<1>1. IInv => TypeOK
  BY DEF IInv
<1>. QED
  BY <1>1, InserterInvariant, PTL

\* No event is in its table twice, for any set of events, batch size, number
\* of restarts and positive dedup window.
THEOREM InserterAtMostOnce == Spec => []AtMostOnce
<1>1. IInv => AtMostOnce
  BY DEF IInv, CountInv, AtMostOnce
<1>. QED
  BY <1>1, InserterInvariant, PTL

\* An accepted event is in memory, in the table, or written off.
THEOREM InserterNoSilentLoss == Spec => []NoSilentLoss
<1>1. IInv => NoSilentLoss
  BY DEF IInv
<1>. QED
  BY <1>1, InserterInvariant, PTL

\* After an exit with status 0 nothing accepted is left in memory.
THEOREM InserterDrainContract == Spec => []DrainContract
<1>1. IInv => DrainContract
  BY DEF IInv, HeldInv, NoSilentLoss, DrainContract, InserterAlive
<1>. QED
  BY <1>1, InserterInvariant, PTL

\* Rows leave the batch only into the table, into gaveUp at the last
\* rejection, or with the process.
THEOREM InserterBatchCleared == Spec => BatchClearedOnlyWhenSettled
<1>. DEFINE Settled == batch \ batch' # {} =>
                         \/ batch \subseteq Stored'
                         \/ rejected = RejectedAttempts - 1 /\ batch \subseteq gaveUp'
                         \/ phase' = "killed"
<1>1. ASSUME IInv, [Next]_vars PROVE [Settled]_vars
  <2>. USE InserterAssumption
  <2>1. ASSUME UNCHANGED batch PROVE Settled
    BY <2>1
  <2>2. ASSUME NEW e \in Event, TrySend(e) \/ Recv(e) PROVE Settled
    BY <2>2 DEF TrySend, Recv
  <2>3. ASSUME InsertConfirmed PROVE Settled
    <3>1. token \in DOMAIN flushes /\ batch = flushes[token].rows /\ ServerInserts(token)
      BY <1>1, <2>3 DEF InsertConfirmed, Flushing, IInv, TypeOK, FlushInv
    <3>2. batch \subseteq Stored'
      BY <1>1, <3>1, ServerInsertsLemma
    <3>. QED
      BY <3>2
  <2>4. ASSUME InsertRejected PROVE Settled
    <3>1. CASE rejected + 1 >= RejectedAttempts
      BY <1>1, <2>4, <3>1 DEF InsertRejected, IInv, TypeOK
    <3>2. CASE ~(rejected + 1 >= RejectedAttempts)
      BY <2>4, <3>2 DEF InsertRejected
    <3>. QED
      BY <3>1, <3>2
  <2>5. ASSUME FlushRest \/ InsertFails PROVE Settled
    BY <2>5 DEF FlushRest, InsertFails
  <2>6. ASSUME Main PROVE Settled
    BY <2>6 DEF Main, ShutdownSignal, HttpServerStopped, DrainComplete, Killed, Restart
  <2>7. ASSUME Server PROVE Settled
    BY <2>7 DEF Server, ServerInsertsLate, ServerDrops
  <2>. QED
    BY <1>1, <2>1, <2>2, <2>3, <2>4, <2>5, <2>6, <2>7 DEF Next, Inserter
<1>. QED
  BY <1>1, InserterInvariant, PTL DEF Spec, BatchClearedOnlyWhenSettled

-----------------------------------------------------------------------------
\* The flushes have the type of a flush.
LEMMA FlushTypes == IInv => \A t \in DOMAIN flushes : flushes[t] \in FlushRecord
<1>1. IInv => flushes \in Seq(FlushRecord)
  BY DEF IInv, TypeOK, FlushRecord
<1>. QED
  BY <1>1

\* An execution of a flush either leaves the table alone or stores, at once,
\* rows none of which it holds.
LEMMA ExecutionStores ==
  ASSUME IInv, NEW t \in DOMAIN flushes, ServerInserts(t),
         t = token \/ blocks - flushes[t].since < DedupWindow,
         UNCHANGED <<accepted, skipped, gaveUp, lost>>
  PROVE  Ledger!Store(flushes[t].rows) \/ UNCHANGED rows
<1>1. CASE Remembered(t)
  BY <1>1 DEF ServerInserts
<1>2. CASE ~Remembered(t)
  <2>1. rows' = [e \in Event |-> IF e \in flushes[t].rows THEN rows[e] + 1 ELSE rows[e]]
    BY <1>2 DEF ServerInserts
  <2>2. /\ flushes[t] \in FlushRecord /\ flushes[t].rows \subseteq accepted
        /\ flushes[t].block = 0
    <3>1. flushes[t] \in FlushRecord /\ blocks \in Nat
      BY FlushTypes DEF IInv, TypeOK
    <3>2. flushes[t].rows \subseteq accepted
      BY DEF IInv, FlushInv
    <3>3. flushes[t].block = 0
      BY <1>2, <3>1, InserterAssumption DEF IInv, TypeOK, WindowInv, BlockOrder, Remembered, FlushRecord
    <3>. QED
      BY <3>1, <3>2, <3>3
  <2>3. \A e \in flushes[t].rows : e \in Event /\ rows[e] = 0
    <3>. SUFFICES ASSUME NEW e \in flushes[t].rows PROVE e \in Event /\ rows[e] = 0
      OBVIOUS
    <3>1. e \in Event
      BY <2>2 DEF FlushRecord
    <3>2. \A u \in DOMAIN flushes : e \in flushes[u].rows => u = t
      BY DEF IInv, FlushInv
    <3>. QED
      BY <2>2, <3>1, <3>2 DEF IInv, CountInv
  <2>4. rows' = [e \in Event |-> IF e \in flushes[t].rows THEN 1 ELSE rows[e]]
    BY <2>1, <2>3
  <2>5. UNCHANGED WrittenOff
    BY DEF WrittenOff
  <2>. QED
    BY <2>2, <2>3, <2>4, <2>5 DEF Ledger!Store
<1>. QED
  BY <1>1, <1>2

\* The pipeline implements the ledger: every step of it accepts an event,
\* stores a whole batch, writes events off, or is invisible.
THEOREM InserterImplementsLedger == Spec => ImplementsLedger
<1>1. Init => Ledger!LedgerInit
  BY DEF Init, Ledger!LedgerInit, WrittenOff
<1>2. ASSUME IInv, [Next]_vars PROVE [Ledger!LedgerNext]_(Ledger!ledgerVars)
  <2>. USE DEF Ledger!LedgerNext, Ledger!ledgerVars
  <2>1. ASSUME NEW e \in Event, TrySend(e) PROVE [Ledger!LedgerNext]_(Ledger!ledgerVars)
    <3>1. /\ UNCHANGED rows /\ UNCHANGED WrittenOff
          /\ accepted' = accepted \/ (e \notin accepted /\ accepted' = accepted \cup {e})
      BY <2>1 DEF TrySend, serverVars, WrittenOff
    <3>. QED
      BY <3>1 DEF Ledger!Accept
  <2>2. ASSUME NEW S \in SUBSET accepted, WrittenOff' = WrittenOff \cup S, UNCHANGED <<accepted, rows>>
        PROVE  [Ledger!LedgerNext]_(Ledger!ledgerVars)
    <3>1. S \in SUBSET Event
      BY <1>2 DEF IInv, TypeOK
    <3>. QED
      BY <2>2, <3>1 DEF Ledger!WriteOff
  <2>3. ASSUME NEW e \in Event, Recv(e) PROVE [Ledger!LedgerNext]_(Ledger!ledgerVars)
    <3>1. e \in accepted /\ UNCHANGED <<accepted, rows, gaveUp, lost>>
      BY <1>2, <2>3 DEF Recv, IInv, HeldInv
    <3>2. skipped' = skipped \/ skipped' = skipped \cup {e}
      BY <2>3 DEF Recv
    <3>3. WrittenOff' = WrittenOff \/ WrittenOff' = WrittenOff \cup {e}
      BY <3>1, <3>2 DEF WrittenOff
    <3>. QED
      BY <2>2, <3>1, <3>3
  <2>4. ASSUME InsertConfirmed PROVE [Ledger!LedgerNext]_(Ledger!ledgerVars)
    <3>1. token \in DOMAIN flushes /\ ServerInserts(token) /\ UNCHANGED historyVars
      BY <1>2, <2>4 DEF InsertConfirmed, Flushing, IInv, TypeOK
    <3>2. Ledger!Store(flushes[token].rows) \/ UNCHANGED rows
      BY <1>2, <3>1, ExecutionStores DEF historyVars
    <3>3. flushes[token].rows \in SUBSET Event
      BY <1>2, <3>1, FlushTypes DEF FlushRecord
    <3>. QED
      BY <3>1, <3>2, <3>3 DEF historyVars, WrittenOff
  <2>5. ASSUME InsertRejected PROVE [Ledger!LedgerNext]_(Ledger!ledgerVars)
    <3>1. batch \subseteq accepted /\ UNCHANGED <<accepted, rows, skipped, lost>>
      BY <1>2, <2>5 DEF InsertRejected, serverVars, IInv, HeldInv
    <3>2. gaveUp' = gaveUp \/ gaveUp' = gaveUp \cup batch
      BY <2>5 DEF InsertRejected
    <3>3. WrittenOff' = WrittenOff \/ WrittenOff' = WrittenOff \cup batch
      BY <3>1, <3>2 DEF WrittenOff
    <3>. QED
      BY <2>2, <3>1, <3>3
  <2>6. ASSUME Killed PROVE [Ledger!LedgerNext]_(Ledger!ledgerVars)
    <3>1. /\ channel \cup batch \subseteq accepted
          /\ UNCHANGED <<accepted, rows, skipped, gaveUp>>
          /\ lost' = lost \cup channel \cup batch
      BY <1>2, <2>6 DEF Killed, IInv, HeldInv
    <3>2. WrittenOff' = WrittenOff \cup (channel \cup batch)
      BY <3>1 DEF WrittenOff
    <3>. QED
      BY <2>2, <3>1, <3>2
  <2>7. ASSUME NEW t \in DOMAIN flushes, ServerInsertsLate(t)
        PROVE  [Ledger!LedgerNext]_(Ledger!ledgerVars)
    <3>1. /\ ServerInserts(t) /\ UNCHANGED historyVars
          /\ blocks - flushes[t].since < DedupWindow
      BY <2>7 DEF ServerInsertsLate
    <3>2. Ledger!Store(flushes[t].rows) \/ UNCHANGED rows
      BY <1>2, <3>1, ExecutionStores DEF historyVars
    <3>3. flushes[t].rows \in SUBSET Event
      BY <1>2, FlushTypes DEF FlushRecord
    <3>. QED
      BY <3>1, <3>2, <3>3 DEF historyVars, WrittenOff
  <2>8. ASSUME UNCHANGED <<rows, historyVars>> PROVE [Ledger!LedgerNext]_(Ledger!ledgerVars)
    BY <2>8 DEF historyVars, WrittenOff
  <2>9. FlushRest \/ InsertFails => UNCHANGED <<rows, historyVars>>
    BY DEF FlushRest, InsertFails
  <2>10. ShutdownSignal \/ HttpServerStopped \/ DrainComplete \/ Restart
           => UNCHANGED <<rows, historyVars>>
    BY DEF ShutdownSignal, HttpServerStopped, DrainComplete, Restart, serverVars
  <2>11. (\E t \in DOMAIN flushes : ServerDrops(t)) \/ UNCHANGED vars
           => UNCHANGED <<rows, historyVars>>
    BY DEF ServerDrops, vars, serverVars
  <2>. QED
    BY <1>2, <2>1, <2>3, <2>4, <2>5, <2>6, <2>7, <2>8, <2>9, <2>10, <2>11
    DEF Next, Inserter, Main, Server
<1>. QED
  BY <1>1, <1>2, InserterInvariant, PTL DEF Spec, ImplementsLedger, Ledger!LedgerSpec
=============================================================================
