---------------------------- MODULE TeeDemoCounter ----------------------------
(***************************************************************************)
(* The append-only log counter of tee_demo_ta.c: COUNTER_READ, COUNTER_INC *)
(* and the helpers mc_log_create and mc_log_scan.                          *)
(*                                                                         *)
(* The TA is single-instance: commands are serialized, and the cached      *)
(* globals live until power is lost or the last session is closed.  The    *)
(* object is stored by tee_lfs_storage.c, whose create with OVERWRITE      *)
(* commits three times: zeros over the old object, the (empty) name, the   *)
(* new content.  The OP-TEE core (external) rejects an object without a    *)
(* valid head, and may delete one that is too short to have a head.        *)
(***************************************************************************)
EXTENDS Naturals

CONSTANTS
  Slots,      \* MC_LOG_SLOTS
  MaxValue,   \* bound: increments stop there
  OldValue,   \* the value an object of the old demo_mc format holds
  Start,      \* what the flash may hold when this firmware first runs
  Empty,      \* an unwritten (0xFF) slot
  Fault       \* the failures that may happen: "error" (a storage call returns
              \* an error), "sync" (it reports success and commits nothing),
              \* "read" (a record cannot be read)

ASSUME SlotsAssumption == Slots \in Nat \ {0}
ASSUME ValueAssumption == MaxValue \in Nat /\ OldValue \in Nat
ASSUME EmptyAssumption == Empty \notin Nat
ASSUME StartAssumption == Start \subseteq {"absent", "old"}

VARIABLES
  kind,     \* the object "w77q_mc" on flash
  log,      \* its records, when it is a log
  loaded,   \* g_mc_loaded
  value,    \* g_mc_value
  next,     \* g_mc_next: the slots in use
  pc,       \* where the running command is
  cmd,      \* which command it is
  new,      \* initial_value of mc_log_create
  resume,   \* where mc_log_create returns to
  seen,     \* history: the value reported last
  odd,      \* history: parity of the number of increments reported
  intact    \* history: no failure has hit a scan, an acknowledged commit, the
            \* write of a new log or the mount of a boot

cache == <<loaded, value, next>>
told  == <<seen, odd>>
vars  == <<kind, log, cache, pc, cmd, new, resume, told, intact>>

-----------------------------------------------------------------------------
Slot     == 1..Slots
AllEmpty == [s \in Slot |-> Empty]
Fresh(v) == [AllEmpty EXCEPT ![1] = v]
Fails(f) == f \in Fault

\* mc_log_scan reads the slots in order and stops at the first empty one.
Readable(l, n) == \A s \in 1..n : l[s] # Empty
ScanEnd(l, n)  == Readable(l, n) /\ (n < Slots => l[n + 1] = Empty)
Last(l, n) == IF n = 0 THEN 0 ELSE l[n]

\* A bound: no increment is asked for once a value has reached MaxValue.
BelowBound == value < MaxValue /\ \A s \in Slot : log[s] # Empty => log[s] < MaxValue

Fail      == pc' = "idle" /\ UNCHANGED <<cmd, new, resume, told>>
Report(v) == pc' = "idle" /\ seen' = v /\ odd' = (odd # (cmd = "inc"))
             /\ UNCHANGED <<cmd, new, resume>>
Goto(l)   == pc' = l /\ UNCHANGED <<cmd, new, resume, told>>
Create(v, back) == pc' = "zeroize" /\ new' = v /\ resume' = back /\ UNCHANGED <<cmd, told>>

Init ==
  /\ kind \in Start
  /\ log = AllEmpty
  /\ loaded = FALSE /\ value = 0 /\ next = 0
  /\ pc = "idle" /\ cmd = "read" /\ new = 0 /\ resume = "serve"
  /\ seen = 0 /\ odd = FALSE /\ intact = TRUE

-----------------------------------------------------------------------------
Begin(c) ==
  /\ pc = "idle"
  /\ c = "inc" => BelowBound
  /\ cmd' = c
  /\ pc' = IF loaded THEN "serve" ELSE "scan"
  /\ UNCHANGED <<kind, log, cache, new, resume, told, intact>>

\* mc_log_scan of a log.  A record that cannot be read ends it early.
ScanLog ==
  /\ pc = "scan" /\ kind = "log"
  /\ \E n \in 0..Slots :
       /\ Readable(log, n)
       /\ ScanEnd(log, n) \/ Fails("read")
       /\ loaded' = TRUE /\ value' = Last(log, n) /\ next' = n
       /\ intact' = (intact /\ ScanEnd(log, n))
  /\ Goto("serve")
  /\ UNCHANGED <<kind, log>>

\* TEE_ERROR_ITEM_NOT_FOUND: a read reports 0, an increment creates the log.
ScanAbsent ==
  /\ pc = "scan" /\ kind = "absent"
  /\ \/ cmd = "read" /\ Report(0)
     \/ cmd = "inc" /\ Create(1, "reply")
  /\ UNCHANGED <<kind, log, cache, intact>>

\* Any other error of the open is returned.
ScanRejected ==
  /\ pc = "scan"
  /\ \/ kind = "torn" /\ kind' \in {"torn", "absent"}
     \/ (kind = "zeroed" \/ Fails("error")) /\ UNCHANGED kind
  /\ Fail
  /\ UNCHANGED <<log, cache, intact>>

\* An object of the old format is deleted, then its value is written to a new
\* log; the result of reading it is not looked at, and a delete that fails
\* panics (TEE_CloseAndDeletePersistentObject1).
Migrate ==
  /\ pc = "scan" /\ kind = "old"
  /\ \/ kind' = "absent" /\ Create(OldValue, "serve") /\ UNCHANGED intact
     \/ Fails("read") /\ kind' = "absent" /\ Create(0, "serve") /\ intact' = FALSE
     \/ Fails("error") /\ Fail /\ UNCHANGED <<kind, intact>>
  /\ UNCHANGED <<log, cache>>

\* mc_log_create: there is no memory for the image of the log, or
\* TEE_CreatePersistentObject with OVERWRITE
CreateZeroize ==
  /\ pc = "zeroize"
  /\ \/ kind \in {"log", "zeroed"} /\ kind' = "zeroed" /\ log' = AllEmpty /\ Goto("creat")
     \/ kind \in {"absent", "torn"} /\ Goto("creat") /\ UNCHANGED <<kind, log>>
     \/ Fails("error") /\ (Goto("creat") \/ Fail) /\ UNCHANGED <<kind, log>>
  /\ UNCHANGED <<cache, intact>>

CreateName ==
  /\ pc = "creat"
  /\ \/ kind' = (IF kind = "absent" THEN "torn" ELSE kind) /\ Goto("fill")
     \/ Fails("error") /\ Fail /\ UNCHANGED kind
  /\ UNCHANGED <<log, cache, intact>>

\* The write and its commit; a write that fails has its object removed, or that
\* fails too; and a commit that fails is reported as success.
CreateFill ==
  /\ pc = "fill"
  /\ \/ kind' = "log" /\ log' = Fresh(new) /\ Goto("stored") /\ UNCHANGED intact
     \/ /\ Fails("error") /\ Fail /\ intact' = FALSE
        /\ \/ kind' = "absent" /\ log' = AllEmpty
           \/ UNCHANGED <<kind, log>>
     \/ Fails("sync") /\ Goto("stored") /\ intact' = FALSE /\ UNCHANGED <<kind, log>>
  /\ UNCHANGED cache

SetCache(v, n) == loaded' = TRUE /\ value' = v /\ next' = n

\* Mutant: g_mc_next is left at the value it had.
CreateKeepsNext ==
  /\ pc = "stored"
  /\ SetCache(new, next) /\ Goto(resume)
  /\ UNCHANGED <<kind, log, intact>>

\* The object is opened again for the caller, or that fails.
CreateReturn ==
  /\ pc = "stored"
  /\ \/ SetCache(new, 1) /\ Goto(resume)
     \/ Fails("error") /\ Fail /\ UNCHANGED cache
  /\ UNCHANGED <<kind, log, intact>>

ServeRead ==
  /\ pc = "serve" /\ cmd = "read"
  /\ Report(value)
  /\ UNCHANGED <<kind, log, cache, intact>>

\* Mutant: compaction starts the new log at the old value.
CompactSameValue ==
  /\ pc = "serve" /\ cmd = "inc" /\ next >= Slots
  /\ Create(value, "reply")
  /\ UNCHANGED <<kind, log, cache, intact>>

Compact ==
  /\ pc = "serve" /\ cmd = "inc" /\ next >= Slots
  /\ Create(value + 1, "reply")
  /\ UNCHANGED <<kind, log, cache, intact>>

\* Mutant: the log counts as full one slot late.
AppendLate ==
  /\ pc = "serve" /\ cmd = "inc" /\ next <= Slots /\ kind = "log"
  /\ log' = [log EXCEPT ![next + 1] = value + 1]
  /\ SetCache(value + 1, next + 1) /\ Goto("reply")
  /\ UNCHANGED <<kind, intact>>

Append ==
  /\ pc = "serve" /\ cmd = "inc" /\ next < Slots
  /\ \/ /\ kind = "log"
        /\ log' = [log EXCEPT ![next + 1] = value + 1]
        /\ SetCache(value + 1, next + 1) /\ Goto("reply")
        /\ UNCHANGED <<kind, intact>>
     \/ \* success is reported, nothing is committed
        /\ Fails("sync") /\ kind = "log"
        /\ SetCache(value + 1, next + 1) /\ Goto("reply")
        /\ intact' = FALSE /\ UNCHANGED <<kind, log>>
     \/ \* the open, the seek or the write failed
        /\ kind # "log" \/ Fails("error")
        /\ kind' \in {kind} \cup (IF kind = "torn" THEN {"absent"} ELSE {})
        /\ Fail /\ UNCHANGED <<log, cache, intact>>

Reply ==
  /\ pc = "reply"
  /\ Report(value)
  /\ UNCHANGED <<kind, log, cache, intact>>

\* Power is lost, or between two commands the last session is closed.
Restart ==
  /\ loaded' = FALSE /\ value' = 0 /\ next' = 0
  /\ pc' = "idle"
  /\ UNCHANGED <<kind, log, cmd, new, resume, told, intact>>

\* A boot whose mount fails formats the flash (tee_lfs_storage.c).
Reformat ==
  /\ pc = "idle" /\ ~loaded
  /\ Fails("error") /\ kind # "absent"
  /\ kind' = "absent" /\ log' = AllEmpty
  /\ intact' = FALSE
  /\ UNCHANGED <<cache, pc, cmd, new, resume, told>>

Next ==
  \/ \E c \in {"read", "inc"} : Begin(c)
  \/ ScanLog \/ ScanAbsent \/ ScanRejected \/ Migrate
  \/ CreateZeroize \/ CreateName \/ CreateFill \/ CreateReturn
  \/ ServeRead \/ Compact \/ Append \/ Reply
  \/ Restart \/ Reformat

Spec == Init /\ [][Next]_vars

-----------------------------------------------------------------------------
(* Properties *)

\* Every variable has its type.
TypeOK ==
  /\ kind \in {"absent", "torn", "zeroed", "old", "log"}
  /\ log \in [Slot -> Nat \cup {Empty}]
  /\ loaded \in BOOLEAN
  /\ value \in Nat
  /\ next \in 0..Slots
  /\ pc \in {"idle", "scan", "serve", "zeroize", "creat", "fill", "stored", "reply"}
  /\ cmd \in {"read", "inc"}
  /\ new \in Nat
  /\ resume \in {"serve", "reply"}
  /\ seen \in Nat
  /\ odd \in BOOLEAN
  /\ intact \in BOOLEAN

\* The counter implements the monotonic counter its interface promises,
\* whatever is interrupted and wherever power is lost, until a flash failure
\* hits a scan, an acknowledged commit, the write of a new log or a mount.
Abstract == INSTANCE MonotonicCounter WITH seen <- seen, odd <- odd, intact <- intact
Monotonic == Abstract!Spec

\* Between commands the cache agrees with the flash: the same record is last,
\* or the log is full and being replaced.
CacheMatchesLog ==
  pc = "idle" /\ loaded /\ intact =>
    \/ kind = "log" /\ ScanEnd(log, next) /\ value = Last(log, next)
    \/ next = Slots /\ kind \in {"zeroed", "log"} /\ (kind = "log" => log = Fresh(value + 1))

\* What makes Monotonic and CacheMatchesLog inductive, while intact.
Prefix(l, n) ==
  /\ \A s \in 1..n : l[s] # Empty
  /\ \A s \in (n + 1)..Slots : l[s] = Empty

\* The last record on flash is not below what was reported.
FlashInv ==
  /\ kind = "log" => \E n \in 1..Slots : Prefix(log, n) /\ log[n] >= seen
  /\ kind \in {"absent", "torn", "old"} => seen = 0 /\ ~loaded

\* Nor is the cache, which names the last record unless the full log is, or
\* was, being replaced.
CacheInv ==
  loaded =>
    /\ value >= seen
    /\ \/ kind = "log" /\ next >= 1 /\ Prefix(log, next) /\ value = log[next]
       \/ next = Slots /\ kind \in {"zeroed", "log"} /\ (kind = "log" => log = Fresh(value + 1))

\* A running command knows where it is.
CommandInv ==
  /\ pc = "scan" => ~loaded
  /\ pc \in {"serve", "reply"} => loaded
  /\ pc = "serve" => kind = "log" \/ next = Slots
  /\ pc = "reply" => cmd = "inc" /\ value > seen
  /\ pc \in {"zeroize", "creat", "fill", "stored"} =>
       /\ new >= seen
       /\ resume = "reply" => cmd = "inc" /\ new > seen
       /\ loaded => next = Slots /\ new = value + 1 /\ resume = "reply"
       /\ pc # "stored" => loaded \/ kind \in {"absent", "torn"}
       /\ pc = "stored" => kind = "log" /\ log = Fresh(new)

IndInv == TypeOK /\ (intact => FlashInv /\ CacheInv /\ CommandInv)

\* "password-gated power-safe increment": a counter that has reported a value
\* can be read at the next boot.
CounterStaysReadable == pc = "idle" /\ seen > 0 => kind = "log"
=============================================================================
