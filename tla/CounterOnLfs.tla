----------------------------- MODULE CounterOnLfs -----------------------------
(***************************************************************************)
(* The demo TA's counter on the storage backend: the control of            *)
(* tee_demo_ta.c (TeeDemoCounter) calling tee_lfs_storage.c                *)
(* (TeeLfsStorage), commit by commit.  A command calls the backend through *)
(* the OP-TEE core (external), which reads the head of an object that it   *)
(* opens and may remove one that has none.                                 *)
(*                                                                         *)
(* The object is a sequence of units: its head, then the records of the    *)
(* log.  The flash is empty when this firmware first runs.                 *)
(***************************************************************************)
EXTENDS Naturals, Sequences

CONSTANTS
  Path, Handle, Absent, Closed, NoCall, Fault,   \* of TeeLfsStorage
  Log,        \* the path of "w77q_mc"
  H,          \* the handle the TA has it open with
  Slots,      \* MC_LOG_SLOTS
  MaxValue,   \* bound: increments stop there
  Empty,      \* an unwritten (0xFF) slot
  HeadUnit        \* the head the core puts in front of an object's data

ASSUME LogAssumption == Log \in Path /\ H \in Handle
ASSUME SlotsAssumption == Slots \in Nat \ {0}
ASSUME ValueAssumption == MaxValue \in Nat
ASSUME UnitAssumption == Empty \notin Nat /\ HeadUnit \notin Nat
ASSUME FaultAssumption == Fault \subseteq {"io", "space", "mem"}

VARIABLES
  files, medium, fs, ready, booting, handles, pc, call, allowed, silent,   \* of TeeLfsStorage
  at,                    \* where the running command is
  loaded, value, next,   \* g_mc_loaded, g_mc_value, g_mc_next
  cmd, new, resume,      \* the command; mc_log_create's argument and return
  seen, odd, intact      \* history, as in TeeDemoCounter

lfs      == <<files, medium, fs, ready, booting, handles, pc, call, allowed, silent>>
cache    == <<loaded, value, next>>
creation == <<new, resume>>
told     == <<seen, odd>>
vars     == <<lfs, at, cache, cmd, creation, told, intact>>

Unit == Nat \cup {Empty, HeadUnit}

Lfs == INSTANCE TeeLfsStorage WITH
         Byte <- Unit, Payload <- Seq(Unit), MaxLen <- Slots + 1,
         Maintenance <- {}, RenameOverwrite <- {}

ASSUME AbsentAssumption == Absent \notin Seq(Unit)
ASSUME ClosedAssumption == Closed \notin Lfs!HandleRec

-----------------------------------------------------------------------------
Slot == 1..Slots

\* The image mc_log_create writes.
Image(v) == [u \in 1..(Slots + 1) |-> IF u = 1 THEN HeadUnit ELSE IF u = 2 THEN v ELSE Empty]

\* What the object is, and the records of a log.
Kind(c) == IF c = Absent THEN "absent"
           ELSE IF c = <<>> THEN "torn"
           ELSE IF c[1] = HeadUnit THEN "log" ELSE "zeroed"
Records(c) == [s \in Slot |-> IF Kind(c) = "log" THEN c[s + 1] ELSE Empty]

\* A read through the open handle: unit 0 is the head, unit s is record s.
Read(s)   == Lfs!ReadBytes(H, s, 1)
HasHead   == Read(0) = <<HeadUnit>>
Record(s) == Read(s)[1]

\* mc_log_scan reads the slots in order and stops at the first empty one.
Readable(n) == \A s \in 1..n : Record(s) # Empty
ScanEnd(n)  == Readable(n) /\ (n < Slots => Record(n + 1) = Empty)

\* A bound: no increment is asked for once a value has reached MaxValue.
BelowBound ==
  /\ value < MaxValue
  /\ \A s \in Slot : Records(files[Log])[s] # Empty => Records(files[Log])[s] < MaxValue

Goto(l)        == at' = l /\ UNCHANGED <<cache, cmd, creation, told, intact>>
SetCache(v, n) == loaded' = TRUE /\ value' = v /\ next' = n
ClearCache     == loaded' = FALSE /\ value' = 0 /\ next' = 0
Report(v)      == at' = "idle" /\ seen' = v /\ odd' = (odd # (cmd = "inc"))
                  /\ UNCHANGED <<lfs, cache, cmd, creation, intact>>
NewLog(v)      == at' = "create" /\ new' = v /\ resume' = "reply"
                  /\ UNCHANGED <<lfs, cache, cmd, told, intact>>

Init ==
  /\ Lfs!Init
  /\ at = "idle"
  /\ loaded = FALSE /\ value = 0 /\ next = 0
  /\ cmd = "read" /\ new = 0 /\ resume = "serve"
  /\ seen = 0 /\ odd = FALSE /\ intact = TRUE

-----------------------------------------------------------------------------
Begin(c) ==
  /\ at = "idle" /\ Lfs!Idle
  /\ c = "inc" => BelowBound
  /\ cmd' = c
  /\ at' = IF loaded THEN "serve" ELSE "scan"
  /\ UNCHANGED <<lfs, cache, creation, told, intact>>

\* TEE_OpenPersistentObject, by mc_log_scan or to append a record
Opening == at = "scan" \/ (at = "serve" /\ cmd = "inc" /\ next < Slots)

OpenLog ==
  /\ Opening
  /\ Lfs!Open(Log, H)
  /\ Goto(IF at = "scan" THEN "scanning" ELSE "appending")

OpenFails ==
  /\ Opening
  /\ \/ ~ready \/ Lfs!ReadMayFail \/ "mem" \in Fault
     \/ at = "serve" /\ files[Log] = Absent
  /\ Goto("idle")
  /\ UNCHANGED lfs

\* TEE_ERROR_ITEM_NOT_FOUND: a read reports 0, an increment creates the log.
ScanAbsent ==
  /\ at = "scan" /\ ready /\ Lfs!LfsUp /\ files[Log] = Absent
  /\ \/ cmd = "read" /\ Report(0)
     \/ cmd = "inc" /\ NewLog(1)

\* The core closes an object whose head it cannot read or does not accept, and
\* may remove one that is too short to have a head.
OpenRejected ==
  /\ at \in {"scanning", "appending"}
  /\ \/ (~HasHead \/ "io" \in Fault) /\ Lfs!Close(H) /\ Goto("idle")
     \/ Read(0) = <<>> /\ Lfs!Remove(H) /\ Goto("drop")

\* Mutant: what failed is tried again.
DropRetries ==
  /\ at = "drop"
  /\ Lfs!Close(H) /\ Goto("serve")

\* TEE_CloseObject after a failure
Drop ==
  /\ at = "drop"
  /\ Lfs!Close(H) /\ Goto("idle")

\* The records, up to the first empty one or one that cannot be read
ScanLog ==
  /\ at = "scanning" /\ HasHead
  /\ \E n \in 0..Slots :
       /\ Readable(n)
       /\ ScanEnd(n) \/ "io" \in Fault
       /\ SetCache(IF n = 0 THEN 0 ELSE Record(n), n)
       /\ intact' = (intact /\ ScanEnd(n))
  /\ Lfs!Close(H)
  /\ at' = "serve"
  /\ UNCHANGED <<cmd, creation, told>>

ServeRead ==
  /\ at = "serve" /\ cmd = "read"
  /\ Report(value)

\* Mutant: the seek is one record short.
AppendShort ==
  /\ at = "appending" /\ HasHead
  /\ Lfs!Write(H, next, <<value + 1>>)
  /\ intact' = (intact /\ files'[Log] = handles'[H].data)
  /\ at' = "written"
  /\ UNCHANGED <<cache, cmd, creation, told>>

\* TEE_WriteObjectData of one record, behind the head and the records there are
AppendRecord ==
  /\ at = "appending" /\ HasHead
  /\ Lfs!Write(H, next + 1, <<value + 1>>)
  /\ intact' = (intact /\ files'[Log] = handles'[H].data)
  /\ at' = "written"
  /\ UNCHANGED <<cache, cmd, creation, told>>

AppendFails ==
  /\ at = "appending" /\ HasHead
  /\ Lfs!WriteFails(H, next + 1, <<value + 1>>)
  /\ Goto("drop")

Appended ==
  /\ at = "written"
  /\ Lfs!Close(H)
  /\ SetCache(value + 1, next + 1)
  /\ at' = "reply"
  /\ UNCHANGED <<cmd, creation, told, intact>>

Compact ==
  /\ at = "serve" /\ cmd = "inc" /\ next >= Slots
  /\ NewLog(value + 1)

\* mc_log_create: no memory for the image, or TEE_CreatePersistentObject
NoMemory ==
  /\ at = "create"
  /\ ~ready \/ "mem" \in Fault
  /\ Goto("idle")
  /\ UNCHANGED lfs

CreateCall ==
  /\ at = "create"
  /\ Lfs!Create(Log, TRUE, Image(new), H)
  /\ Goto("creating")

\* The backend's commits; those it does not report are recorded.
CreateRuns ==
  /\ at = "creating"
  /\ Lfs!CreateStep /\ ~Lfs!Idle'
  /\ intact' = (intact /\ ~call'.lost)
  /\ UNCHANGED <<at, cache, cmd, creation, told>>

CreateReturns ==
  /\ at = "creating"
  /\ Lfs!CreateReopen
  /\ Goto("done")

CreateFails ==
  /\ at = "creating"
  /\ Lfs!CreateStep /\ Lfs!Idle' /\ handles'[H] = Closed
  /\ at' = "idle"
  /\ intact' = (intact /\ pc # "c_undo")
  /\ UNCHANGED <<cache, cmd, creation, told>>

Created ==
  /\ at = "done"
  /\ Lfs!Close(H)
  /\ SetCache(new, 1)
  /\ at' = resume
  /\ UNCHANGED <<cmd, creation, told, intact>>

Reply ==
  /\ at = "reply"
  /\ Report(value)

-----------------------------------------------------------------------------
\* The last session is closed, and with it the instance of the TA.
SessionEnds ==
  /\ at = "idle" /\ loaded
  /\ ClearCache
  /\ UNCHANGED <<lfs, at, cmd, creation, told, intact>>

PowerLoss ==
  /\ Lfs!Crash
  /\ ClearCache
  /\ at' = "idle"
  /\ UNCHANGED <<cmd, creation, told, intact>>

Boot ==
  /\ Lfs!Boot
  /\ intact' = (intact /\ files'[Log] = files[Log])
  /\ UNCHANGED <<at, cache, cmd, creation, told>>

Running ==
  \/ OpenLog \/ OpenFails \/ ScanAbsent \/ OpenRejected \/ Drop \/ ScanLog
  \/ ServeRead \/ AppendRecord \/ AppendFails \/ Appended \/ Compact
  \/ NoMemory \/ CreateCall \/ CreateRuns \/ CreateReturns \/ CreateFails \/ Created
  \/ Reply

Next ==
  \/ \E c \in {"read", "inc"} : Begin(c)
  \/ Running \/ Boot
  \/ SessionEnds \/ PowerLoss

Spec == Init /\ [][Next]_vars

-----------------------------------------------------------------------------
(* Properties *)

\* Where the commands and the backend are, as TeeDemoCounter sees it.
CounterPc ==
  CASE at \in {"idle", "drop"} -> "idle"
    [] at \in {"scan", "scanning"} -> "scan"
    [] at \in {"serve", "appending"} -> "serve"
    [] at \in {"written", "reply"} -> "reply"
    [] at = "create" \/ (at = "creating" /\ pc = "c_zeroize") -> "zeroize"
    [] at = "creating" /\ pc \in {"c_mkdir", "c_creat"} -> "creat"
    [] at = "creating" /\ pc \in {"c_fill", "c_undo", "c_close"} -> "fill"
    [] OTHER -> "stored"

\* A record that has been written counts, though the object is still open.
Ahead == IF at = "written" THEN 1 ELSE 0

\* The counter on the backend, commit by commit, is the counter of
\* TeeDemoCounter: what that module takes a create, a write and a removal to do
\* is what the backend does, wherever power is lost and whatever fails.
Counter == INSTANCE TeeDemoCounter WITH
             kind <- Kind(files[Log]), log <- Records(files[Log]),
             value <- value + Ahead, next <- next + Ahead, pc <- CounterPc,
             OldValue <- 0, Start <- {"absent"},
             Fault <- IF Fault = {} THEN {} ELSE {"error", "sync", "read"}
ImplementsCounter == Counter!Spec

\* What makes the steps of the two fit.
\* The object is absent, torn, zeroed or a log of the TA.
LogContent == {c \in [1..(Slots + 1) -> Unit] :
                 c[1] = HeadUnit /\ \A s \in Slot : c[s + 1] \in Nat \cup {Empty}}
AllZero == [u \in 1..(Slots + 1) |-> 0]
Object  == {Absent, <<>>, AllZero} \cup LogContent

OpenRec == [po : {Log}, data : Object \ {Absent}, size : Nat, dirty : BOOLEAN,
            erred : BOOLEAN, link : {"linked", "closing"}]

Stage == {"idle", "scan", "scanning", "serve", "appending", "written", "create",
          "creating", "done", "drop", "reply"}

TypeOK ==
  /\ files \in [Path -> Object]
  /\ handles \in [Handle -> OpenRec \cup {Closed}]
  /\ pc \in Lfs!PC
  /\ ready \in BOOLEAN
  /\ at \in Stage
  /\ value \in Nat /\ next \in 0..Slots /\ new \in Nat
  /\ cmd \in {"read", "inc"}
  /\ resume \in {"serve", "reply"}
  /\ loaded \in BOOLEAN /\ intact \in BOOLEAN

\* A command is where the backend and the cache let it be.
StageInv ==
  /\ pc \in IF at = "creating" THEN Lfs!CreatePC ELSE Lfs!BootPC \cup {"idle"}
  /\ pc \in Lfs!BootPC => at = "idle" /\ ~ready
  /\ at \notin {"idle", "scan"} \/ loaded => ready
  /\ at \in {"serve", "appending", "written"} => loaded
  /\ at \in {"appending", "written"} => cmd = "inc" /\ next < Slots

\* The handle has just been opened: it has read what is on flash.
Opened == handles[H] = Lfs!FreshHandle(Log, IF files[Log] = <<>> THEN 0 ELSE Slots + 1)

\* A handle that is closed has nothing left to flush.
HandleInv ==
  /\ (handles[H] = Closed) <=> (at \in {"idle", "scan", "serve", "create", "creating", "reply"})
  /\ at \in {"scanning", "appending"} => Opened
  /\ handles[H] # Closed =>
       ~handles[H].dirty \/ handles[H].erred \/ handles[H].link = "closing"

CreateInv ==
  at = "creating" =>
    /\ call = [p |-> Log, q |-> Log, ow |-> TRUE, pay |-> Image(new), h |-> H,
               lost |-> call.lost]
    /\ call.lost => pc = "c_reopen"
    /\ pc = "c_undo" => Fault # {}

\* Without failing calls a boot formats only what holds nothing, and succeeds.
BootInv ==
  /\ ready => Lfs!LfsUp
  /\ pc \in Lfs!BootPC => booting
  /\ pc = "idle" /\ ~ready => "io" \in Fault
  /\ medium # "valid" => files[Log] = Absent
  /\ pc = "format" /\ medium = "valid" => "io" \in Fault
  /\ pc = "remount" => medium = "valid"

IndInv == TypeOK /\ StageInv /\ HandleInv /\ CreateInv /\ BootInv

\* A command that runs comes to its end, whatever fails.
FairSpec == Spec /\ WF_vars(Running)
CommandsReturn == at # "idle" ~> at = "idle"
=============================================================================
