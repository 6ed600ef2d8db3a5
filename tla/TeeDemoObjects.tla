---------------------------- MODULE TeeDemoObjects ----------------------------
(***************************************************************************)
(* The demo objects of tee_demo_ta.c: SET_PASSWORD, and INIT, LIST, READ   *)
(* and UPDATE, which ask for the password.  READ and UPDATE replace each   *)
(* object by a new version: the version is created as "<id>.tmp", the old  *)
(* object is deleted, and the copy is renamed.                             *)
(*                                                                         *)
(* Commands are serialized; power may be lost between any two commits of   *)
(* the storage backend.  As in TeeDemoCounter, a create with OVERWRITE     *)
(* commits zeros, the name and the content, and the OP-TEE core (external) *)
(* rejects an object without a valid head and may delete a headless one.   *)
(***************************************************************************)
EXTENDS Naturals

CONSTANTS
  MaxObjects,   \* DEMO_MAX_OBJECTS
  MaxBumps,     \* bound: no object is replaced more often
  Password,     \* the passwords clients use; an object holds their hashes
  Absent,       \* what a name holds: nothing,
  Torn,         \* an object without content,
  Zeroed,       \* or one whose content was overwritten by zeros
  Fault         \* the failures that may happen: "error" (a storage call
                \* returns an error), "sync" (a create reports success and
                \* does not commit the content)

Version == [ctr : Nat, boots : Nat]

ASSUME ObjectsAssumption == MaxObjects \in Nat \ {0}
ASSUME BumpsAssumption == MaxBumps \in Nat
ASSUME KindsAssumption ==
  /\ Absent # Torn /\ Absent # Zeroed /\ Torn # Zeroed
  /\ {Absent, Torn, Zeroed} \cap Version = {}
  /\ {Absent, Torn, Zeroed, "none"} \cap Password = {}

VARIABLES
  main,     \* what each object's name holds on flash
  tmp,      \* what its ".tmp" name holds
  pc,       \* where the running command is
  cmd,      \* which command it is
  i,        \* its loop index
  count,    \* the number of objects it goes through
  data,     \* the version it writes
  res,      \* what the last command returned
  before,   \* history: main when the command began
  reached,  \* history: the version last stored under each name, if any
  intact,   \* history: neither an acknowledged create of the object nor the
            \* whole flash was lost
  pw,       \* what the password object holds
  entry,    \* the password a SET_PASSWORD stores
  inforce   \* history: the passwords that return codes allow to be in force,
            \* "none" for none at all

flash == <<main, tmp>>
told  == <<before, reached, intact>>
key   == <<pw, entry, inforce>>
vars  == <<flash, pc, cmd, i, count, data, res, told, key>>

-----------------------------------------------------------------------------
Index    == 0..(MaxObjects - 1)
First    == [ctr |-> 0, boots |-> 0]
Fails(f) == f \in Fault

Replacing  == {"read", "update"}
Unreadable == {Absent, Torn, Zeroed}
Present(o) == o \in Version

\* READ increments boot_count, UPDATE the counter (and the value with it).
Bump(v, c) == IF c = "read" THEN [v EXCEPT !.boots = @ + 1] ELSE [v EXCEPT !.ctr = @ + 1]
Successors(v) == {Bump(v, c) : c \in Replacing}

\* A bound: READ and UPDATE stop when an object has been replaced MaxBumps times.
BelowBound == \A j \in Index : Present(main[j]) => main[j].ctr + main[j].boots < MaxBumps

Goto(l) == pc' = l /\ UNCHANGED <<i, res>>
Fail    == pc' = "idle" /\ res' = "error" /\ UNCHANGED i
Succeed == pc' = "idle" /\ res' = "ok" /\ UNCHANGED i

\* Mutant: the loop runs one object too far.
NextObjectLate ==
  IF i < count THEN pc' = (IF cmd = "init" THEN "new" ELSE "open") /\ i' = i + 1 /\ UNCHANGED res
               ELSE Succeed

\* The end of the loop body.
NextObject ==
  IF i + 1 < count
  THEN pc' = (IF cmd = "init" THEN "new" ELSE "open") /\ i' = i + 1 /\ UNCHANGED res
  ELSE Succeed

\* Opening an object that is not rejected, or the core's rejection of it.
Rejected(o, p) == o \in {Torn, Zeroed} /\ p \in {o} \cup (IF o = Torn THEN {Absent} ELSE {})

Init ==
  /\ main = [j \in Index |-> Absent]
  /\ tmp = [j \in Index |-> Absent]
  /\ pc = "idle" /\ cmd = "init" /\ i = 0 /\ count = 1 /\ data = First /\ res = "error"
  /\ before = main
  /\ reached = [j \in Index |-> Absent]
  /\ intact = [j \in Index |-> TRUE]
  /\ pw = Absent /\ entry \in Password /\ inforce = {"none"}

-----------------------------------------------------------------------------
(* The password *)

BeginSet(p) ==
  /\ pc = "idle"
  /\ cmd' = "set" /\ Goto("setzero")
  /\ entry' = p /\ inforce' = inforce \cup {p, "none"}
  /\ UNCHANGED <<flash, count, data, told, pw>>

\* TEE_CreatePersistentObject with OVERWRITE, commit by commit
SetZeroize ==
  /\ pc = "setzero"
  /\ \/ pw \notin {Absent, Torn} /\ pw' = Zeroed
     \/ (pw \in {Absent, Torn} \/ Fails("error")) /\ UNCHANGED pw
  /\ Goto("setname")
  /\ UNCHANGED <<flash, cmd, count, data, told, entry, inforce>>

SetName ==
  /\ pc = "setname"
  /\ \/ pw' = (IF pw = Absent THEN Torn ELSE pw) /\ Goto("setfill")
     \/ Fails("error") /\ Fail /\ UNCHANGED pw
  /\ UNCHANGED <<flash, cmd, count, data, told, entry, inforce>>

\* Mutant: the result of the create is not looked at.
SetFillUnchecked ==
  /\ pc = "setfill"
  /\ \/ pw' = entry
     \/ Fails("error") /\ \E o \in {Absent, pw} : pw' = o
  /\ Succeed /\ inforce' = {entry}
  /\ UNCHANGED <<flash, cmd, count, data, told, entry>>

SetFill ==
  /\ pc = "setfill"
  /\ \/ pw' = entry /\ Succeed /\ inforce' = {entry}
     \/ pw' = entry /\ Fails("error") /\ Fail /\ UNCHANGED inforce
     \/ \* the write failed and the object was removed, or that failed too
        /\ Fails("error") /\ Fail /\ UNCHANGED inforce
        /\ \E o \in {Absent, pw} : pw' = o
     \/ Fails("sync") /\ Succeed /\ UNCHANGED <<pw, inforce>>
  /\ UNCHANGED <<flash, cmd, count, data, told, entry>>

\* verify_password of a command that has been given the right password; or the
\* command is refused: a wrong password, none that could be read, a bad count.
Verify ==
  /\ pc = "verify"
  /\ \/ /\ pw \in Password /\ UNCHANGED pw
        /\ Goto(CASE cmd = "init" -> "new" [] cmd = "list" -> "list" [] OTHER -> "open")
     \/ Fail /\ UNCHANGED pw
     \/ Fail /\ pw = Torn /\ pw' = Absent
  /\ UNCHANGED <<flash, cmd, count, data, told, entry, inforce>>

-----------------------------------------------------------------------------
(* The objects *)

BeginInit ==
  /\ pc = "idle"
  /\ cmd' = "init" /\ count' \in 1..MaxObjects
  /\ pc' = "verify" /\ i' = 0 /\ before' = main
  /\ UNCHANGED <<flash, data, res, reached, intact, key>>

BeginReplace(c) ==
  /\ pc = "idle" /\ BelowBound
  /\ cmd' = c /\ count' = MaxObjects
  /\ pc' = "verify" /\ i' = 0 /\ before' = main
  /\ UNCHANGED <<flash, data, res, reached, intact, key>>

BeginList ==
  /\ pc = "idle"
  /\ cmd' = "list" /\ Goto("verify")
  /\ UNCHANGED <<flash, count, data, told, key>>

\* The enumeration passes over copies and the password, but reads the head of
\* every one of them.
Damaged == \E o \in {main[j] : j \in Index} \cup {tmp[j] : j \in Index} : o \in {Torn, Zeroed}

List ==
  /\ pc = "list"
  /\ \/ ~Damaged /\ Succeed
     \/ (Damaged \/ Fails("error")) /\ Fail
  /\ UNCHANGED <<flash, cmd, count, data, told, key>>

\* INIT creates without OVERWRITE: a name that exists is a conflict.
NewName ==
  /\ pc = "new"
  /\ \/ main[i] = Absent /\ main' = [main EXCEPT ![i] = Torn] /\ Goto("newfill")
     \/ (main[i] # Absent \/ Fails("error")) /\ Fail /\ UNCHANGED main
  /\ UNCHANGED <<tmp, cmd, count, data, told, key>>

NewFill ==
  /\ pc = "newfill"
  /\ \/ /\ main' = [main EXCEPT ![i] = First]
        /\ reached' = [reached EXCEPT ![i] = First]
        /\ NextObject \/ (Fails("error") /\ Fail)
        /\ UNCHANGED intact
     \/ \* the write failed and the object was removed, or that failed too
        /\ Fails("error") /\ Fail
        /\ \E o \in {Absent, Torn} : main' = [main EXCEPT ![i] = o]
        /\ UNCHANGED <<reached, intact>>
     \/ /\ Fails("sync") /\ NextObject
        /\ intact' = [intact EXCEPT ![i] = FALSE]
        /\ UNCHANGED <<main, reached>>
  /\ UNCHANGED <<tmp, cmd, count, data, before, key>>

\* TEE_OpenPersistentObject, TEE_ReadObjectData and the checks of the content.
OpenMain ==
  /\ pc = "open"
  /\ \/ main[i] = Absent /\ NextObject /\ UNCHANGED <<main, data>>
     \/ Present(main[i]) /\ data' = Bump(main[i], cmd) /\ Goto("zeroize") /\ UNCHANGED main
     \/ /\ \E o \in Unreadable : Rejected(main[i], o) /\ main' = [main EXCEPT ![i] = o]
        /\ Fail /\ UNCHANGED data
     \/ Fails("error") /\ Fail /\ UNCHANGED <<main, data>>
  /\ UNCHANGED <<tmp, cmd, count, told, key>>

\* TEE_CreatePersistentObject of the copy, with OVERWRITE
CopyZeroize ==
  /\ pc = "zeroize"
  /\ \/ tmp[i] \notin {Absent, Torn} /\ tmp' = [tmp EXCEPT ![i] = Zeroed]
     \/ (tmp[i] \in {Absent, Torn} \/ Fails("error")) /\ UNCHANGED tmp
  /\ Goto("creat")
  /\ UNCHANGED <<main, cmd, count, data, told, key>>

CopyName ==
  /\ pc = "creat"
  /\ \/ /\ tmp' = (IF tmp[i] = Absent THEN [tmp EXCEPT ![i] = Torn] ELSE tmp)
        /\ Goto("fill")
     \/ Fails("error") /\ Fail /\ UNCHANGED tmp
  /\ UNCHANGED <<main, cmd, count, data, told, key>>

\* Mutant: the result of the create is not looked at.
CopyFillUnchecked ==
  /\ pc = "fill"
  /\ \/ tmp' = [tmp EXCEPT ![i] = data]
     \/ Fails("error") /\ UNCHANGED tmp
  /\ Goto("delete")
  /\ UNCHANGED <<main, cmd, count, data, told, key>>

CopyFill ==
  /\ pc = "fill"
  /\ \/ /\ tmp' = [tmp EXCEPT ![i] = data]
        /\ Goto("delete") \/ (Fails("error") /\ Fail)
        /\ UNCHANGED intact
     \/ \* the write failed and the copy was removed, or that failed too
        /\ Fails("error") /\ Fail
        /\ \E o \in {Absent, tmp[i]} : tmp' = [tmp EXCEPT ![i] = o]
        /\ UNCHANGED intact
     \/ /\ Fails("sync") /\ Goto("delete")
        /\ intact' = [intact EXCEPT ![i] = FALSE]
        /\ UNCHANGED tmp
  /\ UNCHANGED <<main, cmd, count, data, before, reached, key>>

\* TEE_CloseAndDeletePersistentObject1 panics when the object cannot be deleted.
DeleteMain ==
  /\ pc = "delete"
  /\ \/ main' = [main EXCEPT ![i] = Absent] /\ Goto("rename")
     \/ Fails("error") /\ Fail /\ UNCHANGED main
  /\ UNCHANGED <<tmp, cmd, count, data, told, key>>

\* Mutant: the result of the rename is not looked at.
RenameUnchecked ==
  /\ pc = "rename"
  /\ \/ /\ Present(tmp[i]) /\ main[i] = Absent
        /\ main' = [main EXCEPT ![i] = tmp[i]] /\ tmp' = [tmp EXCEPT ![i] = Absent]
        /\ reached' = [reached EXCEPT ![i] = tmp[i]]
     \/ /\ ~Present(tmp[i]) \/ main[i] # Absent \/ Fails("error")
        /\ UNCHANGED <<main, tmp, reached>>
  /\ NextObject
  /\ UNCHANGED <<cmd, count, data, before, intact, key>>

\* Reopening the copy and renaming it; a rename refuses a name that exists.
RenameCopy ==
  /\ pc = "rename"
  /\ \/ /\ Present(tmp[i]) /\ main[i] = Absent
        /\ main' = [main EXCEPT ![i] = tmp[i]] /\ tmp' = [tmp EXCEPT ![i] = Absent]
        /\ reached' = [reached EXCEPT ![i] = tmp[i]]
        /\ NextObject
     \/ /\ tmp[i] = Absent \/ main[i] # Absent \/ Fails("error")
        /\ Fail /\ UNCHANGED <<main, tmp, reached>>
     \/ /\ \E o \in Unreadable : Rejected(tmp[i], o) /\ tmp' = [tmp EXCEPT ![i] = o]
        /\ Fail /\ UNCHANGED <<main, reached>>
  /\ UNCHANGED <<cmd, count, data, before, intact, key>>

PowerLoss ==
  /\ pc' = "idle" /\ res' = "error"
  /\ UNCHANGED <<flash, cmd, i, count, data, told, key>>

\* A boot whose mount fails formats the flash (tee_lfs_storage.c).
Reformat ==
  /\ pc = "idle" /\ Fails("error")
  /\ main' = [j \in Index |-> Absent] /\ tmp' = [j \in Index |-> Absent]
  /\ intact' = [j \in Index |-> FALSE]
  /\ pw' = Absent /\ inforce' = inforce \cup {"none"}
  /\ res' = "error"
  /\ UNCHANGED <<pc, cmd, i, count, data, before, reached, entry>>

Next ==
  \/ (\E p \in Password : BeginSet(p)) \/ SetZeroize \/ SetName \/ SetFill
  \/ Verify \/ BeginList \/ List
  \/ BeginInit \/ (\E c \in Replacing : BeginReplace(c))
  \/ NewName \/ NewFill
  \/ OpenMain \/ CopyZeroize \/ CopyName \/ CopyFill \/ DeleteMain \/ RenameCopy
  \/ PowerLoss \/ Reformat

Spec == Init /\ [][Next]_vars

-----------------------------------------------------------------------------
(* Properties *)

\* Every variable has its type.
TypeOK ==
  /\ main \in [Index -> {Absent, Torn} \cup Version]
  /\ tmp \in [Index -> Unreadable \cup Version]
  /\ pc \in {"idle", "setzero", "setname", "setfill", "verify", "list", "new", "newfill",
            "open", "zeroize", "creat", "fill", "delete", "rename"}
  /\ cmd \in {"set", "init", "list"} \cup Replacing
  /\ i \in Index
  /\ count \in 1..MaxObjects
  /\ data \in Version
  /\ res \in {"ok", "error"}
  /\ before \in [Index -> {Absent, Torn} \cup Version]
  /\ reached \in [Index -> Version \cup {Absent}]
  /\ intact \in [Index -> BOOLEAN]
  /\ pw \in Unreadable \cup Password
  /\ entry \in Password
  /\ inforce \in SUBSET (Password \cup {"none"})

\* "Each object is updated atomically": wherever power is lost or a call
\* fails, a version that was stored under its name is still there, or its
\* complete successor is under the temporary name.
CopySurvives ==
  \A j \in Index : reached[j] # Absent /\ intact[j] =>
    \/ main[j] = reached[j]
    \/ ~Present(main[j]) /\ tmp[j] \in Successors(reached[j])

Replaced(j) == main[j] = IF Present(before[j]) THEN Bump(before[j], cmd) ELSE before[j]

\* A command that returns TEE_SUCCESS did all of its work: INIT created its
\* objects, READ and UPDATE replaced each object there was, once.
SuccessIsComplete ==
  pc = "idle" /\ res = "ok" => \A j \in Index : intact[j] =>
    /\ cmd = "init" /\ j < count => main[j] = First
    /\ cmd \in Replacing => Replaced(j)

\* The password that opens the demo is the one whose SET_PASSWORD was answered
\* with success last.  A SET_PASSWORD that fails, or is cut off, or whose commit
\* is dropped behind its success, may leave the old one, the new one or none,
\* but never one that had been replaced before; and no password is lost otherwise
\* but with the whole flash.
PasswordInForce == (IF pw \in Password THEN pw ELSE "none") \in inforce

\* What makes CopySurvives and SuccessIsComplete inductive: the version under
\* a name is the one reached last,
NamedIsReached == \A j \in Index : Present(main[j]) => reached[j] = main[j]

\* a running command has the object at its index where its step needs it,
StepInv ==
  /\ i < count
  /\ cmd \in Replacing => count = MaxObjects
  /\ pc = "list" => cmd = "list"
  /\ pc = "verify" => cmd \in {"init", "list"} \cup Replacing
  /\ pc \in {"new", "newfill"} => cmd = "init"
  /\ pc = "newfill" => main[i] = Torn
  /\ pc \in {"open", "zeroize", "creat", "fill", "delete", "rename"} => cmd \in Replacing
  /\ pc \in {"setzero", "setname", "setfill"} =>
       cmd = "set" /\ {entry, "none"} \subseteq inforce
  /\ pc \in {"zeroize", "creat", "fill", "delete"} => main[i] = before[i]
  /\ pc \in {"zeroize", "creat", "fill", "delete", "rename"} =>
       Present(before[i]) /\ reached[i] = before[i] /\ data = Bump(before[i], cmd)
  /\ pc \in {"delete", "rename"} /\ intact[i] => tmp[i] = data

\* and it is done with the objects before that, and has not touched the others.
LoopInv ==
  pc # "idle" => \A j \in Index :
    /\ cmd = "init" /\ j < i /\ intact[j] => main[j] = First
    /\ cmd \in Replacing /\ j < i /\ intact[j] => Replaced(j)
    /\ cmd \in Replacing /\ (j > i \/ (j = i /\ pc \in {"verify", "open"})) => main[j] = before[j]
    /\ pc = "verify" => cmd = "list" \/ i = 0

IndInv ==
  /\ TypeOK /\ CopySurvives /\ SuccessIsComplete /\ PasswordInForce /\ NamedIsReached
  /\ StepInv /\ LoopInv
=============================================================================
