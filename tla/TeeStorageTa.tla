---------------------------- MODULE TeeStorageTa ----------------------------
(***************************************************************************)
(* The tee-storage trusted application, tee_storage_ta.c: one instance per *)
(* session, all on the same TEE_STORAGE_PRIVATE directory, whose           *)
(* enumeration (tee_lfs_storage.c) is modelled here too.                   *)
(*                                                                         *)
(* An action is one call of the GP API, the point where another session    *)
(* may come between.  The OP-TEE core (external) gives an object at most   *)
(* one handle, none of the TA's opens being shared; it does not open an    *)
(* object whose head is damaged; and it reads the head of every object     *)
(* that an enumeration meets.                                              *)
(***************************************************************************)
EXTENDS FiniteSets, Naturals

CONSTANTS
  Session,      \* the sessions of the TA
  Browser,      \* bound: the sessions that list, count or format
  Name,         \* object identifiers,
  Sector,       \* the ones among them that name a sector, "S%08x"
  Value,        \* what clients write
  Empty,        \* the content of an object just created
  Absent,       \* no object under the name
  Torn,         \* an object whose head is damaged
  Room,         \* how many identifiers the buffer of a LIST takes
  Fault         \* the failures that may happen: "error" (a call fails), "dir"
                \* (lfs_dir_read fails)

Content == Value \cup {Empty}

ASSUME NameAssumption == IsFiniteSet(Name)
ASSUME SessionAssumption == Browser \subseteq Session
ASSUME SectorAssumption == Sector \subseteq Name
ASSUME KindsAssumption ==
  /\ Absent # Torn /\ {Absent, Torn} \cap Content = {}
  /\ Empty \notin Value /\ {"none", "ok", "error"} \cap Content = {}

VARIABLES
  store,    \* what each name holds
  pc,       \* the call each session makes next, "idle", or "dead": the TA
            \* panicked
  cmd,      \* its command
  name,     \* the object it is about, or the entry an enumeration is at
  val,      \* the content to write
  seen,     \* the entries that an enumeration has returned
  reply,    \* what the last command returned
  old,      \* history: what a name held before the write under way, if any
  due,      \* history: the objects there since an enumeration began
  cut       \* history: why an enumeration ended before the last entry, if so

run  == <<pc, cmd, name, val>>
vars == <<store, run, seen, reply, old, due, cut>>

-----------------------------------------------------------------------------
Browsing == {"list", "info", "format"}
Live     == {n \in Name : store[n] # Absent}
Fails(f) == f \in Fault

Holds(s) == pc[s] \in {"write", "close", "read", "delete"}
Held(n)  == \E s \in Session : Holds(s) /\ name[s] = n

\* What name n holds from now on; an object that is gone is no longer due.
Put(n, o) ==
  /\ store' = [store EXCEPT ![n] = o]
  /\ due' = [s \in Session |-> IF o = Absent THEN due[s] \ {n} ELSE due[s]]

Same == UNCHANGED <<store, due>>

Goto(s, l) == pc' = [pc EXCEPT ![s] = l] /\ UNCHANGED <<cmd, val, reply, cut>>

Return(s, r) ==
  /\ pc' = [pc EXCEPT ![s] = "idle"]
  /\ reply' = [reply EXCEPT ![s] = r]
  /\ UNCHANGED <<cmd, val, cut>>

\* The end of an enumeration, which the TA takes for success.
EndsEarly(s, why) ==
  /\ pc' = [pc EXCEPT ![s] = "idle"]
  /\ reply' = [reply EXCEPT ![s] = "ok"]
  /\ cut' = [cut EXCEPT ![s] = why]
  /\ UNCHANGED <<cmd, val>>

\* A TEE_CloseAndDeletePersistentObject1 that fails panics: the core closes
\* the TA's handles and the client gets TEE_ERROR_TARGET_DEAD.
Panic(s) ==
  /\ pc' = [pc EXCEPT ![s] = "dead"]
  /\ reply' = [reply EXCEPT ![s] = "error"]
  /\ UNCHANGED <<cmd, val, cut>>

Init ==
  /\ store = [n \in Name |-> Absent]
  /\ pc = [s \in Session |-> "idle"]
  /\ cmd = [s \in Session |-> "info"]
  /\ name \in [Session -> Name] /\ val \in [Session -> Value]
  /\ seen = [s \in Session |-> {}]
  /\ reply = [s \in Session |-> "none"]
  /\ old = store
  /\ due = seen
  /\ cut = [s \in Session |-> "no"]

-----------------------------------------------------------------------------
(* The commands *)

Begin(s, c, l) ==
  /\ pc[s] = "idle"
  /\ cmd' = [cmd EXCEPT ![s] = c]
  /\ pc' = [pc EXCEPT ![s] = l]
  /\ reply' = [reply EXCEPT ![s] = "none"]
  /\ due' = [due EXCEPT ![s] = IF c \in Browsing THEN Live ELSE {}]
  /\ seen' = [seen EXCEPT ![s] = {}]
  /\ cut' = [cut EXCEPT ![s] = "no"]
  /\ UNCHANGED <<store, old>>

Writes(s, n) ==
  /\ Begin(s, "write", "create")
  /\ name' = [name EXCEPT ![s] = n]
  /\ \E v \in Value : val' = [val EXCEPT ![s] = v]

Reads(s, n)  == Begin(s, "read", "openread") /\ name' = [name EXCEPT ![s] = n] /\ UNCHANGED val
Erases(s, n) == Begin(s, "erase", "opendelete") /\ name' = [name EXCEPT ![s] = n] /\ UNCHANGED val
Browses(s, c) == s \in Browser /\ Begin(s, c, "start") /\ UNCHANGED <<name, val>>

CmdWrite(s) == \E n \in Name : Writes(s, n)
CmdRead(s)  == \E n \in Name : Reads(s, n)
CmdErase(s) == \E n \in Name : Erases(s, n)

\* The sector commands differ in where the identifier comes from only.
CmdWriteSector(s) == \E n \in Sector : Writes(s, n)
CmdReadSector(s)  == \E n \in Sector : Reads(s, n)
CmdEraseSector(s) == \E n \in Sector : Erases(s, n)

CmdList(s)   == Browses(s, "list")
CmdInfo(s)   == Browses(s, "info")
CmdFormat(s) == Browses(s, "format")

\* Parameter types, an identifier of no or too many bytes, too much data, or a
\* command that does not exist: refused before anything is done.
Refuse(s) == pc[s] = "idle" /\ Return(s, "error") /\ Same /\ UNCHANGED <<name, seen, old>>

-----------------------------------------------------------------------------
(* Named objects and sectors *)

\* TEE_CreatePersistentObject with OVERWRITE and no data.
Create(s) ==
  /\ pc[s] = "create"
  /\ \/ /\ ~Held(name[s])
        /\ Put(name[s], Empty)
        /\ old' = [old EXCEPT ![name[s]] = store[name[s]]]
        /\ pc' = [pc EXCEPT ![s] = "write"]
        /\ UNCHANGED <<cmd, val, reply, cut>>
     \/ Held(name[s]) /\ Return(s, "error") /\ Same /\ UNCHANGED old
     \/ /\ ~Held(name[s]) /\ Fails("error") /\ Return(s, "error") /\ UNCHANGED old
        /\ \E o \in {store[name[s]], Torn, Absent, Empty} : Put(name[s], o)
  /\ UNCHANGED <<name, seen>>

WriteData(s) ==
  /\ pc[s] = "write"
  /\ Put(name[s], val[s]) /\ Goto(s, "close")
  /\ UNCHANGED <<name, seen, old>>

\* Mutant: the result of the write is not looked at.
WriteDataUnchecked(s) ==
  /\ pc[s] = "write" /\ Fails("error")
  /\ \E o \in {Empty, val[s]} : Put(name[s], o)
  /\ Goto(s, "close") /\ UNCHANGED <<name, seen, old>>

\* The object should now be removed, but a handle without WRITE_META cannot.
WriteDataFails(s) ==
  /\ pc[s] = "write" /\ Fails("error")
  /\ \E o \in {Empty, val[s]} : Put(name[s], o)
  /\ old' = [old EXCEPT ![name[s]] = Absent]
  /\ Panic(s)
  /\ UNCHANGED <<name, seen>>

CloseObject(s) ==
  /\ pc[s] = "close"
  /\ old' = [old EXCEPT ![name[s]] = Absent]
  /\ Return(s, "ok") /\ Same /\ UNCHANGED <<name, seen>>

\* Opening an object: it is there and whole, or the command ends.  The core
\* may remove an object whose head it finds damaged.
Open(s, l) ==
  \/ ~Held(name[s]) /\ store[name[s]] \in Content /\ Goto(s, l) /\ Same
  \/ /\ Held(name[s]) \/ store[name[s]] = Absent \/ Fails("error")
     /\ Return(s, "error") /\ Same
  \/ /\ ~Held(name[s]) /\ store[name[s]] = Torn
     /\ \E o \in {Torn, Absent} : Put(name[s], o)
     /\ Return(s, "error")

\* Mutant: the result of the open is not looked at.
OpenForReadUnchecked(s) ==
  pc[s] = "openread" /\ Goto(s, "read") /\ Same /\ UNCHANGED <<name, seen, old>>

OpenForRead(s) == pc[s] = "openread" /\ Open(s, "read") /\ UNCHANGED <<name, seen, old>>

ReadData(s) ==
  /\ pc[s] = "read"
  /\ \/ Return(s, store[name[s]])
     \/ Fails("error") /\ Return(s, "error")
  /\ Same /\ UNCHANGED <<name, seen, old>>

\* Mutant: a FORMAT goes on with the next object when one cannot be opened,
OpenForDeleteSkips(s) ==
  /\ pc[s] = "opendelete"
  /\ \/ Open(s, "delete") /\ UNCHANGED seen
     \/ /\ cmd[s] = "format" /\ Held(name[s]) /\ Goto(s, "next") /\ Same
        /\ seen' = [seen EXCEPT ![s] = @ \cup {name[s]}]
  /\ UNCHANGED <<name, old>>

\* Mutant: or tries again.
OpenForDeleteRetries(s) ==
  /\ pc[s] = "opendelete"
  /\ \/ Open(s, "delete")
     \/ cmd[s] = "format" /\ Fails("error") /\ Goto(s, "start") /\ Same
  /\ UNCHANGED <<name, seen, old>>

OpenForDelete(s) == pc[s] = "opendelete" /\ Open(s, "delete") /\ UNCHANGED <<name, seen, old>>

\* After a format's object the enumeration starts again.
CloseAndDelete(s) ==
  /\ pc[s] = "delete"
  /\ \/ /\ Put(name[s], Absent)
        /\ IF cmd[s] = "format" THEN Goto(s, "start") ELSE Return(s, "ok")
     \/ /\ Fails("error")
        /\ \E o \in {store[name[s]], Absent} : Put(name[s], o)
        /\ Panic(s)
  /\ UNCHANGED <<name, seen, old>>

-----------------------------------------------------------------------------
(* LIST, INFO and FORMAT *)

\* tee_lfs_opendir: a TA without a directory has no objects.
StartEnumerator(s) ==
  /\ pc[s] = "start"
  /\ \/ Goto(s, "next") /\ seen' = [seen EXCEPT ![s] = {}]
     \/ Fails("error") /\ Return(s, "error") /\ UNCHANGED seen
  /\ Same /\ UNCHANGED <<name, old>>

\* tee_lfs_readdir returns an object that it has not returned yet; at the end,
\* or when lfs_dir_read fails, there is no such item.
ReadDir(s) ==
  /\ pc[s] = "next"
  /\ \/ /\ \E n \in Live \ seen[s] : name' = [name EXCEPT ![s] = n]
        /\ Goto(s, "head")
     \/ Live \subseteq seen[s] /\ Return(s, "ok") /\ UNCHANGED name
     \/ Fails("dir") /\ EndsEarly(s, "dir") /\ UNCHANGED name
  /\ Same /\ UNCHANGED <<seen, old>>

\* A buffer that is full ends a LIST, which reports success.
Take(s) ==
  IF cmd[s] = "list" /\ Cardinality(seen[s]) >= Room
  THEN EndsEarly(s, "full") /\ UNCHANGED seen
  ELSE Goto(s, "next") /\ seen' = [seen EXCEPT ![s] = @ \cup {name[s]}]

\* Mutant: any result but success is the end of the enumeration.
ReadHeadEnds(s) ==
  /\ pc[s] = "head"
  /\ \/ /\ store[name[s]] \in Content
        /\ IF cmd[s] = "format" THEN Goto(s, "opendelete") /\ UNCHANGED seen ELSE Take(s)
     \/ store[name[s]] \notin Content /\ Return(s, "ok") /\ UNCHANGED seen
  /\ Same /\ UNCHANGED <<name, old>>

\* The core reads the head of the entry.  That the object was removed in
\* between looks like the end of the enumeration.
ReadHead(s) ==
  /\ pc[s] = "head"
  /\ \/ /\ store[name[s]] \in Content
        /\ IF cmd[s] = "format" THEN Goto(s, "opendelete") /\ UNCHANGED seen ELSE Take(s)
     \/ store[name[s]] = Absent /\ EndsEarly(s, "gone") /\ UNCHANGED seen
     \/ store[name[s]] = Torn /\ Return(s, "error") /\ UNCHANGED seen
     \/ Fails("error") /\ Return(s, "error") /\ UNCHANGED seen
  /\ Same /\ UNCHANGED <<name, old>>

-----------------------------------------------------------------------------
(* The client opens a new session after a panic; power loss ends them all. *)

Reopen(s) ==
  /\ pc[s] = "dead"
  /\ Goto(s, "idle") /\ Same /\ UNCHANGED <<name, seen, old>>

\* A create in progress has zeroed the old object, or made the name without
\* its head, or is done.
Creating(n) == ~Held(n) /\ \E s \in Session : pc[s] = "create" /\ name[s] = n

PowerLoss ==
  /\ store' \in [Name -> Content \cup {Absent, Torn}]
  /\ \A n \in Name : store'[n] = store[n] \/ (Creating(n) /\ store'[n] \in {Torn, Empty})
  /\ pc' = [s \in Session |-> "idle"]
  /\ reply' = [s \in Session |-> "none"]
  /\ seen' = [s \in Session |-> {}]
  /\ old' = [n \in Name |-> Absent]
  /\ due' = [s \in Session |-> {}]
  /\ cut' = [s \in Session |-> "no"]
  /\ UNCHANGED <<cmd, name, val>>

Invoke(s) ==
  \/ CmdWrite(s) \/ CmdRead(s) \/ CmdErase(s)
  \/ CmdWriteSector(s) \/ CmdReadSector(s) \/ CmdEraseSector(s)
  \/ CmdList(s) \/ CmdInfo(s) \/ CmdFormat(s) \/ Refuse(s)

Step(s) ==
  \/ Create(s) \/ WriteData(s) \/ WriteDataFails(s) \/ CloseObject(s)
  \/ OpenForRead(s) \/ ReadData(s) \/ OpenForDelete(s) \/ CloseAndDelete(s)
  \/ StartEnumerator(s) \/ ReadDir(s) \/ ReadHead(s)

Next == (\E s \in Session : Invoke(s) \/ Step(s) \/ Reopen(s)) \/ PowerLoss

Spec == Init /\ [][Next]_vars

\* A command under way is scheduled until it returns.
FairSpec == Spec /\ \A s \in Session : WF_vars(Step(s))

-----------------------------------------------------------------------------
(* Properties *)

\* Every variable has its type.
TypeOK ==
  /\ store \in [Name -> Content \cup {Absent, Torn}]
  /\ pc \in [Session -> {"idle", "dead", "create", "write", "close", "openread", "read",
                         "opendelete", "delete", "start", "next", "head"}]
  /\ cmd \in [Session -> {"write", "read", "erase"} \cup Browsing]
  /\ name \in [Session -> Name]
  /\ val \in [Session -> Value]
  /\ seen \in [Session -> SUBSET Name]
  /\ reply \in [Session -> {"none", "ok", "error"} \cup Content]
  /\ old \in [Name -> Content \cup {Absent, Torn}]
  /\ due \in [Session -> SUBSET Name]
  /\ cut \in [Session -> {"no", "full", "gone", "dir"}]

Ended(s, c) == pc[s] = "idle" /\ cmd[s] = c /\ reply[s] = "ok"

\* A LIST or INFO that succeeds has returned every object that was there all
\* the time, unless it ended early: the buffer was full, an entry was removed
\* under it, or lfs_dir_read failed.
ListComplete ==
  \A s \in Session : (Ended(s, "list") \/ Ended(s, "info")) /\ cut[s] = "no" => due[s] \subseteq seen[s]

\* A FORMAT that succeeds has removed every object there was when it began,
\* however often other sessions came between, unless it ended early.
FormatEmpties ==
  \A s \in Session : Ended(s, "format") /\ cut[s] = "no" => due[s] = {}

\* "Don't loop forever on persistent error": once nobody writes any more,
\* every command returns.
WritesStop == <>[](\A s \in Session : cmd[s] = "write" => pc[s] \in {"idle", "dead"})
CommandsReturn == WritesStop => \A s \in Session : []<>(pc[s] \in {"idle", "dead"})

\* The calls that a command makes before it returns, at most: five for each
\* object its enumeration has not returned, and those of the round it is in.
Rank ==
  [idle |-> 0, dead |-> 0, create |-> 3, write |-> 2, close |-> 1, openread |-> 2, read |-> 1,
   start |-> 5, next |-> 4, head |-> 3, opendelete |-> 2, delete |-> 1]

CallsLeft(s) ==
  Rank[pc[s]] + IF Rank[pc[s]] > 0 /\ cmd[s] \in Browsing
                THEN 5 * Cardinality(Live \ seen[s]) ELSE 0

\* Why they return: each call brings its command nearer to its end, also where
\* FORMAT starts over, and what other sessions do puts it off only by creating
\* an object.
CommandsAdvance ==
  [][\A s \in Session : pc[s] \notin {"idle", "dead"} =>
       /\ pc'[s] # pc[s] => CallsLeft(s)' < CallsLeft(s)
       /\ CallsLeft(s)' <= CallsLeft(s) \/ \E t \in Session : pc[t] = "create"]_vars

\* What the sessions see of the objects is the abstract store: a write takes
\* effect when its handle is closed.
Overwritten(n) == \E s \in Session : pc[s] \in {"write", "close"} /\ name[s] = n

Contents == [n \in Name |-> IF Overwritten(n) THEN old[n] ELSE store[n]]
Running  == [s \in Session |-> IF pc[s] \in {"idle", "dead"} THEN "none" ELSE cmd[s]]

Abstract == INSTANCE ObjectStore
  WITH value <- Contents, op <- Running, name <- name, new <- val, answer <- reply

\* The TA implements the abstract store.
AtomicStore == Abstract!Spec

\* What makes them inductive: an object has one handle,
OneHandle ==
  \A s, t \in Session : Holds(s) /\ Holds(t) /\ name[s] = name[t] => s = t

\* and is, under that handle, as the last call left it,
HandleInv ==
  \A s \in Session :
    /\ pc[s] = "create" => cmd[s] = "write"
    /\ pc[s] = "write" => cmd[s] = "write" /\ store[name[s]] = Empty
    /\ pc[s] = "close" => cmd[s] = "write" /\ store[name[s]] = val[s]
    /\ pc[s] = "openread" => cmd[s] = "read"
    /\ pc[s] = "read" => cmd[s] = "read" /\ store[name[s]] \in Content
    /\ pc[s] = "opendelete" => cmd[s] \in {"erase", "format"}
    /\ pc[s] = "delete" => cmd[s] \in {"erase", "format"} /\ store[name[s]] \in Content
    /\ pc[s] \in {"start", "next", "head"} => cmd[s] \in Browsing
    /\ pc[s] = "dead" => reply[s] = "error"

\* an enumeration is at an entry that it has not returned, a FORMAT always at
\* the first one,
CursorInv ==
  \A s \in Session :
    /\ pc[s] = "start" \/ cmd[s] = "format" => seen[s] = {}
    /\ pc[s] = "head" => name[s] \notin seen[s]

\* and what is due is there.
DueLive == \A s \in Session : due[s] \subseteq Live

IndInv ==
  TypeOK /\ OneHandle /\ HandleInv /\ CursorInv /\ DueLive /\ ListComplete /\ FormatEmpties
=============================================================================
