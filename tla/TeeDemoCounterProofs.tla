------------------------- MODULE TeeDemoCounterProofs -------------------------
(* That the demo TA's counter implements the monotonic counter. *)
EXTENDS TeeDemoCounter, TLAPS

USE SlotsAssumption, ValueAssumption, EmptyAssumption

\* A new log holds one record.
LEMMA FreshLog ==
  ASSUME NEW v \in Nat
  PROVE  /\ Fresh(v) \in [Slot -> Nat \cup {Empty}]
         /\ Prefix(Fresh(v), 1)
         /\ Fresh(v)[1] = v
BY DEF Fresh, AllEmpty, Prefix, Slot

\* A prefix is scanned to its end.
LEMMA ScanOfPrefix ==
  ASSUME NEW l \in [Slot -> Nat \cup {Empty}], NEW m \in 0..Slots, NEW n \in 0..Slots,
         Prefix(l, n), ScanEnd(l, m)
  PROVE  m = n
<1>1. CASE m < n
  BY <1>1 DEF Prefix, ScanEnd
<1>2. CASE m > n
  BY <1>2 DEF Prefix, ScanEnd, Readable
<1> QED BY <1>1, <1>2

\* While the cache is loaded, a log on flash ends at the cached value or above.
LEMMA CacheBelowLog ==
  ASSUME TypeOK, CacheInv, loaded
  PROVE  /\ kind = "log" => \E n \in 1..Slots : Prefix(log, n) /\ log[n] >= value
         /\ kind \notin {"absent", "torn", "old"}
<1>1. kind \notin {"absent", "torn", "old"}
  BY DEF CacheInv
<1>2. CASE kind = "log" /\ next >= 1 /\ Prefix(log, next) /\ value = log[next]
  BY <1>1, <1>2 DEF TypeOK
<1>3. CASE next = Slots /\ kind \in {"zeroed", "log"} /\ (kind = "log" => log = Fresh(value + 1))
  BY <1>1, <1>3, FreshLog DEF TypeOK
<1> QED BY <1>2, <1>3 DEF CacheInv

LEMMA InitIndInv == Init => IndInv
<1> SUFFICES ASSUME Init PROVE IndInv
  OBVIOUS
<1>1. log \in [Slot -> Nat \cup {Empty}] /\ next \in 0..Slots
  BY DEF Init, AllEmpty
<1>2. TypeOK
  BY <1>1, StartAssumption DEF Init, TypeOK
<1>3. FlashInv /\ CacheInv /\ CommandInv
  BY StartAssumption DEF Init, FlashInv, CacheInv, CommandInv
<1> QED BY <1>2, <1>3 DEF IndInv

LEMMA NextTyped == TypeOK /\ [Next]_vars => TypeOK'
<1> SUFFICES ASSUME TypeOK, [Next]_vars PROVE TypeOK'
  OBVIOUS
<1> USE DEF TypeOK
<1>1. ASSUME NEW c \in {"read", "inc"}, Begin(c) PROVE TypeOK'
  BY <1>1 DEF Begin, cache, told
<1>2. CASE ScanLog
  <2>1. next' \in 0..Slots /\ value' \in Nat
    BY <1>2 DEF ScanLog, Last, Readable, Slot
  <2>2. loaded' \in BOOLEAN /\ intact' \in BOOLEAN
    BY <1>2 DEF ScanLog
  <2> QED BY <1>2, <2>1, <2>2 DEF ScanLog, Goto, told
<1>3. CASE ScanAbsent
  BY <1>3 DEF ScanAbsent, Report, Create, cache, told
<1>4. CASE ScanRejected
  BY <1>4 DEF ScanRejected, Fail, cache, told
<1>5. CASE Migrate
  <2>1. intact' \in BOOLEAN
    BY <1>5 DEF Migrate
  <2>3. new' \in Nat
    BY <1>5 DEF Migrate, Create, Fail
  <2>2. /\ kind' \in {"absent", "torn", "zeroed", "old", "log"}
        /\ pc' \in {"idle", "zeroize"} /\ resume' \in {"serve", "reply"}
        /\ UNCHANGED <<log, loaded, value, next, cmd, seen, odd>>
    BY <1>5 DEF Migrate, Create, Fail, cache, told
  <2> QED BY <2>1, <2>2, <2>3
<1>6. CASE CreateZeroize
  BY <1>6 DEF CreateZeroize, Goto, Fail, cache, told, AllEmpty
<1>7. CASE CreateName
  BY <1>7 DEF CreateName, Goto, Fail, cache, told
<1>8. CASE CreateFill
  <2>1. Fresh(new) \in [Slot -> Nat \cup {Empty}]
    BY FreshLog
  <2> QED BY <1>8, <2>1 DEF CreateFill, Goto, Fail, cache, told, AllEmpty
<1>15. CASE CreateReturn
  <2>1. value' \in Nat /\ next' \in 0..Slots /\ loaded' \in BOOLEAN
    <3>1. 1 \in 0..Slots
      OBVIOUS
    <3> QED BY <1>15, <3>1 DEF CreateReturn, SetCache, cache
  <2> QED BY <1>15, <2>1 DEF CreateReturn, Goto, Fail, told
<1>16. CASE Reformat
  BY <1>16 DEF Reformat, cache, told, AllEmpty
<1>9. CASE ServeRead
  BY <1>9 DEF ServeRead, Report, cache
<1>10. CASE Compact
  BY <1>10 DEF Compact, Create, cache, told
<1>11. CASE Append
  <2>1. log' \in [Slot -> Nat \cup {Empty}]
    BY <1>11 DEF Append
  <2>2. value' \in Nat /\ next' \in 0..Slots
    BY <1>11 DEF Append, SetCache, cache
  <2>5. loaded' \in BOOLEAN
    BY <1>11 DEF Append, SetCache, cache
  <2>3. kind' \in {"absent", "torn", "zeroed", "old", "log"} /\ intact' \in BOOLEAN
    BY <1>11 DEF Append
  <2>4. pc' \in {"idle", "reply"} /\ UNCHANGED <<cmd, new, resume, seen, odd>>
    BY <1>11 DEF Append, Goto, Fail, told
  <2> QED BY <2>1, <2>2, <2>3, <2>4, <2>5
<1>12. CASE Reply
  BY <1>12 DEF Reply, Report, cache
<1>13. CASE Restart
  <2>1. value' \in Nat /\ next' \in 0..Slots
    BY <1>13 DEF Restart
  <2> QED BY <1>13, <2>1 DEF Restart, told
<1>14. CASE UNCHANGED vars
  BY <1>14 DEF vars, cache, told
<1> QED
  BY <1>1, <1>2, <1>3, <1>4, <1>5, <1>6, <1>7, <1>8, <1>9, <1>10, <1>11, <1>12,
     <1>13, <1>14, <1>15, <1>16 DEF Next

\* A flash failure that has hit stays hit.
LEMMA IntactStays == Next => (intact' => intact)
BY DEF Next, Begin, ScanLog, ScanAbsent, ScanRejected, Migrate, CreateZeroize,
       CreateName, CreateFill, CreateReturn, ServeRead, Compact, Append, Reply,
       Restart, Reformat

LEMMA NextIndInv == IndInv /\ [Next]_vars => IndInv'
<1> DEFINE Rest == FlashInv /\ CacheInv /\ CommandInv
<1> SUFFICES ASSUME IndInv, [Next]_vars, intact' PROVE Rest'
  BY NextTyped DEF IndInv
<1>0. TypeOK /\ TypeOK'
  BY NextTyped DEF IndInv
<1>x. CASE UNCHANGED vars
  BY <1>x DEF vars, cache, told, IndInv, FlashInv, CacheInv, CommandInv
<1>y. CASE Next
  <2>0. intact /\ FlashInv /\ CacheInv /\ CommandInv
    BY <1>y, IntactStays DEF IndInv
  <2>1. ASSUME NEW c \in {"read", "inc"}, Begin(c) PROVE Rest'
    BY <2>1, <2>0, <1>0 DEF Begin, cache, told, FlashInv, CacheInv, CommandInv, TypeOK
  <2>2. CASE ScanLog
    <3>1. PICK n \in 0..Slots : /\ ScanEnd(log, n)
                                /\ loaded' = TRUE /\ value' = Last(log, n) /\ next' = n
      BY <2>2 DEF ScanLog
    <3>2. PICK k \in 1..Slots : Prefix(log, k) /\ log[k] >= seen
      BY <2>2, <2>0 DEF ScanLog, FlashInv
    <3>3. n = k
      BY <3>1, <3>2, <1>0, ScanOfPrefix DEF TypeOK
    <3>4. value' = log[k] /\ next' = k /\ loaded'
      BY <3>1, <3>3 DEF Last
    <3>5. kind = "log" /\ pc' = "serve"
          /\ UNCHANGED <<kind, log, cmd, new, resume, seen, odd>>
      BY <2>2 DEF ScanLog, Goto, told
    <3> QED BY <3>2, <3>4, <3>5, <2>0 DEF FlashInv, CacheInv, CommandInv
  <2>3. CASE ScanAbsent
    BY <2>3, <2>0, <1>0 DEF ScanAbsent, Report, Create, cache, told, FlashInv,
                            CacheInv, CommandInv, TypeOK
  <2>4. CASE ScanRejected
    BY <2>4, <2>0, <1>0 DEF ScanRejected, Fail, cache, told, FlashInv,
                            CacheInv, CommandInv, TypeOK
  <2>5. CASE Migrate
    <3>1. /\ seen = 0 /\ ~loaded /\ UNCHANGED <<loaded, seen>>
          /\ \/ kind' = "absent" /\ pc' = "zeroize" /\ new' \in Nat /\ resume' = "serve"
             \/ kind' = "old" /\ pc' = "idle"
      BY <2>5, <2>0, ValueAssumption DEF Migrate, Create, Fail, cache, told, FlashInv
    <3> QED BY <3>1 DEF FlashInv, CacheInv, CommandInv
  <2>6. CASE CreateZeroize
    BY <2>6, <2>0, <1>0 DEF CreateZeroize, Goto, Fail, cache, told, FlashInv,
                            CacheInv, CommandInv, TypeOK
  <2>7. CASE CreateName
    BY <2>7, <2>0, <1>0 DEF CreateName, Goto, Fail, cache, told, FlashInv,
                            CacheInv, CommandInv, TypeOK
  <2>8. CASE CreateFill
    <3>1. /\ kind' = "log" /\ log' = Fresh(new) /\ pc' = "stored"
          /\ UNCHANGED <<loaded, value, next, cmd, new, resume, seen, odd>>
      BY <2>8 DEF CreateFill, Goto, cache, told
    <3>2. new \in Nat /\ Prefix(log', 1) /\ log'[1] = new /\ new >= seen
      BY <3>1, <2>8, <2>0, <1>0, FreshLog DEF CreateFill, CommandInv, TypeOK
    <3>3. FlashInv'
      BY <3>1, <3>2 DEF FlashInv
    <3>4. CacheInv'
      BY <3>1, <2>8, <2>0 DEF CreateFill, CommandInv, CacheInv
    <3>5. CommandInv'
      BY <3>1, <2>8, <2>0 DEF CreateFill, CommandInv
    <3> QED BY <3>3, <3>4, <3>5
  <2>14. CASE CreateReturn
    <3>1. /\ kind = "log" /\ log = Fresh(new) /\ new \in Nat
          /\ UNCHANGED <<kind, log, cmd, new, resume, seen, odd>>
      BY <2>14, <2>0, <1>0 DEF CreateReturn, Goto, Fail, CommandInv, TypeOK, told
    <3>2. CASE SetCache(new, 1) /\ Goto(resume)
      <4>1. Prefix(log, 1) /\ log[1] = new /\ new >= seen
        BY <3>1, <2>14, <2>0, FreshLog DEF CreateReturn, CommandInv
      <4>2. FlashInv' /\ CacheInv'
        BY <3>1, <3>2, <4>1, <2>0 DEF SetCache, FlashInv, CacheInv
      <4>3. CommandInv'
        BY <3>1, <3>2, <2>14, <2>0, <1>0 DEF CreateReturn, SetCache, Goto, CommandInv, TypeOK
      <4> QED BY <4>2, <4>3
    <3>3. CASE Fail /\ UNCHANGED cache
      BY <3>1, <3>3, <2>0 DEF Fail, cache, FlashInv, CacheInv, CommandInv
    <3> QED BY <2>14, <3>2, <3>3 DEF CreateReturn
  <2>15. CASE Reformat
    BY <2>15 DEF Reformat
  <2>9. CASE ServeRead
    <3>1. loaded /\ seen' = value /\ pc' = "idle"
          /\ UNCHANGED <<kind, log, loaded, value, next, cmd, new, resume>>
      BY <2>9, <2>0 DEF ServeRead, Report, cache, CommandInv
    <3>2. CacheInv' /\ CommandInv'
      BY <3>1, <2>0, <1>0 DEF CacheInv, CommandInv, TypeOK
    <3>3. FlashInv'
      <4>1. /\ kind = "log" => \E n \in 1..Slots : Prefix(log, n) /\ log[n] >= value
            /\ kind \notin {"absent", "torn", "old"}
        BY <3>1, <2>0, <1>0, CacheBelowLog
      <4> QED BY <3>1, <4>1 DEF FlashInv
    <3> QED BY <3>2, <3>3
  <2>10. CASE Compact
    BY <2>10, <2>0, <1>0 DEF Compact, Create, cache, told, FlashInv, CacheInv,
                             CommandInv, TypeOK
  <2>11. CASE Append
    <3>1. /\ loaded /\ cmd = "inc" /\ kind = "log" /\ next \in 1..Slots /\ next < Slots
          /\ Prefix(log, next) /\ value = log[next] /\ value >= seen
      BY <2>11, <2>0, <1>0 DEF Append, CacheInv, CommandInv, TypeOK
    <3>2. UNCHANGED <<kind, cmd, new, resume, seen, odd>>
      BY <2>11, <3>1 DEF Append, Goto, Fail, told
    <3>3. CASE log' = [log EXCEPT ![next + 1] = value + 1] /\ SetCache(value + 1, next + 1)
               /\ pc' = "reply"
      <4>1. Prefix(log', next') /\ log'[next'] = value + 1
        <5>1. value + 1 \in Nat /\ log \in [Slot -> Nat \cup {Empty}] /\ next \in 0..Slots
          BY <1>0 DEF TypeOK
        <5>2. Prefix(log', next + 1) /\ log'[next + 1] = value + 1
          BY <3>1, <3>3, <5>1 DEF Prefix, Slot
        <5> QED BY <3>3, <5>2 DEF SetCache
      <4>2. loaded' /\ value' = value + 1 /\ value \in Nat /\ seen \in Nat /\ next' \in 1..Slots
        BY <3>1, <3>3, <1>0 DEF SetCache, TypeOK
      <4>3. FlashInv'
        BY <4>1, <4>2, <3>1, <3>2 DEF FlashInv
      <4>4. CacheInv'
        BY <4>1, <4>2, <3>1, <3>2 DEF CacheInv
      <4>5. CommandInv'
        BY <4>2, <3>1, <3>2, <3>3 DEF CommandInv
      <4> QED BY <4>3, <4>4, <4>5
    <3>4. CASE pc' = "idle" /\ UNCHANGED <<log, loaded, value, next>>
      BY <3>1, <3>2, <3>4, <2>0 DEF FlashInv, CacheInv, CommandInv
    <3> QED BY <2>11, <3>1, <3>3, <3>4 DEF Append, Goto, Fail, cache
  <2>12. CASE Reply
    <3>1. loaded /\ seen' = value /\ pc' = "idle"
          /\ UNCHANGED <<kind, log, loaded, value, next, cmd, new, resume>>
      BY <2>12, <2>0 DEF Reply, Report, cache, CommandInv
    <3>2. CacheInv' /\ CommandInv'
      BY <3>1, <2>0, <1>0 DEF CacheInv, CommandInv, TypeOK
    <3>3. FlashInv'
      <4>1. /\ kind = "log" => \E n \in 1..Slots : Prefix(log, n) /\ log[n] >= value
            /\ kind \notin {"absent", "torn", "old"}
        BY <3>1, <2>0, <1>0, CacheBelowLog
      <4> QED BY <3>1, <4>1 DEF FlashInv
    <3> QED BY <3>2, <3>3
  <2>13. CASE Restart
    BY <2>13, <2>0, <1>0 DEF Restart, told, FlashInv, CacheInv, CommandInv
  <2> QED
    BY <1>y, <2>1, <2>2, <2>3, <2>4, <2>5, <2>6, <2>7, <2>8, <2>9, <2>10, <2>11,
       <2>12, <2>13, <2>14, <2>15 DEF Next
<1> QED BY <1>x, <1>y
-----------------------------------------------------------------------------
(* Theorems *)

\* IndInv is inductive, so it always holds.
THEOREM Inductive == Spec => []IndInv
<1>1. Init => IndInv
  BY InitIndInv
<1>2. IndInv /\ [Next]_vars => IndInv'
  BY NextIndInv
<1> QED BY <1>1, <1>2, PTL DEF Spec

\* Every variable of the counter TA keeps its type.
THEOREM TypeCorrect == Spec => []TypeOK
<1>1. IndInv => TypeOK
  BY DEF IndInv
<1> QED BY <1>1, Inductive, PTL

\* Between commands g_mc_value and g_mc_next agree with the log on flash,
\* through every compaction that was interrupted.
THEOREM CacheAgrees == Spec => []CacheMatchesLog
<1>1. IndInv => CacheMatchesLog
  BY DEF IndInv, TypeOK, CacheInv, CacheMatchesLog, Prefix, ScanEnd, Readable, Last
<1> QED BY <1>1, Inductive, PTL

\* Only the end of a command reports a value, and none below the last.
LEMMA StepReports ==
  ASSUME TypeOK, intact => CacheInv /\ CommandInv /\ FlashInv, Next, intact'
  PROVE  \/ UNCHANGED <<seen, odd>>
         \/ cmd = "read" /\ seen' >= seen /\ UNCHANGED odd
         \/ cmd = "inc" /\ seen' > seen /\ odd' = ~odd
<1>1. intact /\ CacheInv /\ CommandInv /\ FlashInv
  BY IntactStays
<1>2. ASSUME NEW v, cmd = "read", Report(v) PROVE seen' = v /\ UNCHANGED odd
  <2>1. odd' = (odd # FALSE)
    BY <1>2 DEF Report
  <2> QED BY <1>2, <2>1 DEF Report, TypeOK
<1>3. ASSUME NEW v, cmd = "inc", Report(v) PROVE seen' = v /\ odd' = ~odd
  <2>1. odd' = (odd # TRUE)
    BY <1>3 DEF Report
  <2> QED BY <1>3, <2>1 DEF Report, TypeOK
<1>4. CASE ScanAbsent
  <2>1. CASE cmd = "read" /\ Report(0)
    <3>1. seen = 0
      BY <1>1, <1>4 DEF ScanAbsent, FlashInv
    <3> QED BY <1>2, <2>1, <3>1
  <2>2. CASE cmd = "inc" /\ Create(1, "reply")
    BY <2>2 DEF Create, told
  <2> QED BY <1>4, <2>1, <2>2 DEF ScanAbsent
<1>5. CASE ServeRead
  <2>1. value >= seen
    BY <1>1, <1>5 DEF ServeRead, CommandInv, CacheInv
  <2> QED BY <1>2, <1>5, <2>1 DEF ServeRead
<1>6. CASE Reply
  <2>1. cmd = "inc" /\ value > seen
    BY <1>1, <1>6 DEF Reply, CommandInv
  <2> QED BY <1>3, <1>6, <2>1 DEF Reply
<1>7. CASE ~(ScanAbsent \/ ServeRead \/ Reply)
  BY <1>7 DEF Next, Begin, ScanLog, ScanRejected, Migrate, CreateZeroize, CreateName,
              CreateFill, CreateReturn, Compact, Append, Restart, Reformat, Fail, Goto,
              Create, told
<1> QED BY <1>4, <1>5, <1>6, <1>7

\* Until a flash failure hits a scan, an acknowledged commit or the write of a
\* new log, increments report ever larger values and a read reports at least
\* the last one, across power losses, compactions and the migration.
THEOREM ImplementsMonotonic == Spec => Monotonic
<1>1. Init => Abstract!Init
  BY DEF Init, Abstract!Init
<1>2. IndInv /\ [Next]_vars => [Abstract!Next]_(Abstract!state)
  <2> SUFFICES ASSUME IndInv, [Next]_vars
               PROVE  Abstract!Next \/ UNCHANGED Abstract!state
    OBVIOUS
  <2>1. CASE UNCHANGED vars
    BY <2>1 DEF vars, told, Abstract!state
  <2>2. CASE Next /\ ~intact'
    BY <2>2 DEF Abstract!Next, Abstract!Break
  <2>3. CASE Next /\ intact'
    <3>1. intact
      BY <2>3, IntactStays
    <3>2. \/ UNCHANGED <<seen, odd>>
          \/ cmd = "read" /\ seen' >= seen /\ UNCHANGED odd
          \/ cmd = "inc" /\ seen' > seen /\ odd' = ~odd
      BY <2>3, StepReports DEF IndInv
    <3>3. seen \in Nat
      BY DEF IndInv, TypeOK
    <3>4. CASE UNCHANGED <<seen, odd>>
      BY <2>3, <3>1, <3>3, <3>4 DEF Abstract!Next, Abstract!Read
    <3>5. CASE seen' >= seen /\ UNCHANGED odd
      BY <2>3, <3>1, <3>5 DEF Abstract!Next, Abstract!Read
    <3>6. CASE seen' > seen /\ odd' = ~odd
      BY <2>3, <3>1, <3>6 DEF Abstract!Next, Abstract!Increment
    <3> QED BY <3>2, <3>4, <3>5, <3>6
  <2> QED BY <2>1, <2>2, <2>3
<1> QED BY <1>1, <1>2, Inductive, PTL DEF Spec, Monotonic, Abstract!Spec
=============================================================================
