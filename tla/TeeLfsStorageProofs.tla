------------------------- MODULE TeeLfsStorageProofs -------------------------
(***************************************************************************)
(* Theorems about TeeLfsStorage, for every set of paths, handles and bytes,*)
(* every object length and every combination of faults and maintenance.    *)
(***************************************************************************)
EXTENDS TeeLfsStorage, SequenceTheorems, TLAPS

\* The parameters of a running handler are there to be read.
CallTyped == pc \in CreatePC \cup RenamePC => call \in CallRec

Typed == TypeOK /\ CallTyped

-----------------------------------------------------------------------------
(* The data operators stay within Content. *)

LEMMA SeqByRange ==
  ASSUME NEW n \in Nat, NEW s \in [1..n -> Byte]
  PROVE  s \in Content
BY SeqDef DEF Content

LEMMA PayloadContent == Payload \subseteq Content
BY PayloadAssumption DEF Content

LEMMA EmptyContent == <<>> \in Content
BY DEF Content

LEMMA WriteAtContent ==
  ASSUME NEW c \in Content, NEW pos \in Nat, NEW d \in Content
  PROVE  WriteAt(c, pos, d) \in Content
<1> DEFINE n == Maximum(Len(c), pos + Len(d))
<1>1. n \in Nat
  BY DEF Maximum, Content
<1>2. ASSUME NEW i \in 1..n
      PROVE  (IF i \in (pos + 1)..(pos + Len(d)) THEN d[i - pos]
              ELSE IF i \in 1..Len(c) THEN c[i] ELSE 0) \in Byte
  <2>1. CASE i \in (pos + 1)..(pos + Len(d))
    BY <2>1 DEF Content
  <2>2. CASE i \notin (pos + 1)..(pos + Len(d))
    BY <2>2, ByteAssumption DEF Content
  <2> QED BY <2>1, <2>2
<1>3. WriteAt(c, pos, d) \in [1..n -> Byte]
  BY <1>2 DEF WriteAt
<1> QED BY <1>1, <1>3, SeqByRange

LEMMA ResizeContent ==
  ASSUME NEW c \in Content, NEW n \in Nat
  PROVE  Resize(c, n) \in Content
<1>1. Resize(c, n) \in [1..n -> Byte]
  BY ByteAssumption DEF Resize, Content
<1> QED BY <1>1, SeqByRange

LEMMA ZerosContent ==
  ASSUME NEW c \in Content
  PROVE  Zeros(c) \in Content
<1>1. Zeros(c) \in [1..Len(c) -> Byte] /\ Len(c) \in Nat
  BY ByteAssumption DEF Zeros, Content
<1> QED BY <1>1, SeqByRange

LEMMA AbsentNotContent == Absent \notin Content
BY AbsentAssumption DEF Content

LEMMA LenContent ==
  ASSUME NEW c \in Content
  PROVE  Len(c) \in Nat
BY DEF Content
-----------------------------------------------------------------------------
(* Type correctness. *)

LEMMA InitTyped == Init => Typed
BY DEF Init, Typed, TypeOK, CallTyped, AllAbsent, PC, BootPC, CreatePC, RenamePC

\* A handle that is open is a record of its type.
LEMMA OpenHandleTyped ==
  ASSUME TypeOK, NEW h \in Handle, IsOpen(h)
  PROVE  handles[h] \in HandleRec
BY DEF TypeOK, IsOpen

\* What a rename leaves of the handle.
LEMMA DetachedFacts ==
  ASSUME NEW r \in HandleRec, NEW q \in Path
  PROVE  LET d == Detached(r, q)
         IN  /\ d \in HandleRec
             /\ d.po = q /\ d.link \in {"renamed", "stale"}
             /\ d.data = r.data /\ d.size = r.size
             /\ d.dirty = r.dirty /\ d.erred = r.erred
BY DEF Detached, HandleRec

LEMMA BootTyped == Typed /\ Boot => Typed'
<1> SUFFICES ASSUME Typed, Boot PROVE Typed'
  OBVIOUS
<1> USE DEF Typed, TypeOK, CallTyped, PC, BootPC, CreatePC, RenamePC
<1>1. CASE HwInit
  BY <1>1 DEF HwInit
<1>2. CASE MountOK
  BY <1>2 DEF MountOK, Mounted
<1>3. CASE MountFails
  BY <1>3 DEF MountFails
<1>4. CASE FormatBegin
  BY <1>4 DEF FormatBegin, AllAbsent, Cause
<1>5. CASE FormatEnd
  BY <1>5 DEF FormatEnd
<1>6. CASE FormatFails
  BY <1>6 DEF FormatFails, NotMounted
<1>7. CASE Remount
  BY <1>7 DEF Remount, Mounted, NotMounted
<1> QED BY <1>1, <1>2, <1>3, <1>4, <1>5, <1>6, <1>7 DEF Boot

LEMMA StaleTyped == TypeOK => Stale(handles) \in [Handle -> HandleRec \cup {Closed}]
<1> SUFFICES ASSUME TypeOK, NEW h \in Handle, handles[h] # Closed
             PROVE  [handles[h] EXCEPT !.link = "stale"] \in HandleRec
  BY DEF Stale
<1>1. handles[h] \in HandleRec
  BY DEF TypeOK
<1> QED BY <1>1 DEF HandleRec

LEMMA MaintenanceTyped == Typed /\ (EraseSector \/ EraseChip \/ Crash) => Typed'
<1> SUFFICES ASSUME Typed, EraseSector \/ EraseChip \/ Crash PROVE Typed'
  OBVIOUS
<1> USE StaleTyped DEF Typed, TypeOK, CallTyped, PC, BootPC, CreatePC, RenamePC
<1>1. CASE EraseSector
  BY <1>1 DEF EraseSector, Idle
<1>2. CASE EraseChip
  BY <1>2 DEF EraseChip, Idle, AllAbsent
<1>3. CASE Crash
  BY <1>3 DEF Crash
<1> QED BY <1>1, <1>2, <1>3

LEMMA SyncTyped ==
  ASSUME TypeOK, NEW h \in Handle, NEW r \in HandleRec, SyncIgnored(h, r)
  PROVE  /\ files' \in [Path -> Content \cup {Absent}]
         /\ handles' \in [Handle -> HandleRec \cup {Closed}]
         /\ silent' \in [Path -> SUBSET Cause]
<1>1. [r EXCEPT !.dirty = FALSE] \in HandleRec /\ [r EXCEPT !.erred = TRUE] \in HandleRec
  BY DEF HandleRec
<1>2. r.po \in Path /\ r.data \in Content
  BY DEF HandleRec
<1>3. CASE Synced(h, r)
  BY <1>1, <1>2, <1>3 DEF Synced, TypeOK
<1>4. CASE SyncFails(h, r)
  BY <1>1, <1>2, <1>4 DEF SyncFails, TypeOK, Cause
<1>5. CASE SyncSkipped(h, r)
  BY <1>2, <1>5 DEF SyncSkipped, TypeOK, Cause
<1> QED BY <1>3, <1>4, <1>5 DEF SyncIgnored

LEMMA Write1Typed ==
  ASSUME NEW S \in SUBSET (Content \cup {Absent}), NEW pos \in Nat, NEW d \in Content
  PROVE  Write1(S, pos, d) \subseteq Content
BY WriteAtContent DEF Write1

LEMMA Resize1Typed ==
  ASSUME NEW S \in SUBSET (Content \cup {Absent}), NEW n \in Nat
  PROVE  Resize1(S, n) \subseteq Content
BY ResizeContent DEF Resize1

LEMMA Zeros1Typed ==
  ASSUME NEW S \in SUBSET (Content \cup {Absent})
  PROVE  Zeros1(S) \subseteq Content
BY ZerosContent DEF Zeros1

LEMMA HandleCallTyped ==
  ASSUME Typed, NEW h \in Handle, HandleCall(h)
  PROVE  Typed'
<1> USE DEF Typed, CallTyped
<1>1. ASSUME NEW p \in Path, Open(p, h)
      PROVE  Typed'
  <2>1. files[p] \in Content
    BY <1>1 DEF Open, TypeOK
  <2>2. FreshHandle(p, Len(files[p])) \in HandleRec
    BY <2>1, LenContent DEF FreshHandle, HandleRec
  <2>3. handles' \in [Handle -> HandleRec \cup {Closed}]
    BY <1>1, <2>2 DEF Open, TypeOK
  <2>4. allowed' \in [Path -> SUBSET (Content \cup {Absent})]
    BY <1>1, <2>1 DEF Open, TypeOK
  <2>5. silent' \in [Path -> SUBSET Cause]
    BY <1>1 DEF Open, TypeOK
  <2>6. UNCHANGED <<files, medium, fs, ready, booting, pc, call>>
    BY <1>1 DEF Open
  <2>7. TypeOK'
    BY <2>3, <2>4, <2>5, <2>6 DEF TypeOK
  <2> QED BY <2>6, <2>7 DEF CreatePC, RenamePC
<1>2. ASSUME NEW pos \in 0..MaxLen, NEW d \in Payload, Write(h, pos, d)
      PROVE  Typed'
  <2> DEFINE r   == handles[h]
             new == WriteAt(r.data, pos, d)
             w   == [r EXCEPT !.data = new, !.size = Len(new),
                              !.dirty = TRUE, !.erred = FALSE]
  <2>1. r \in HandleRec /\ r.data \in Content /\ r.po \in Path /\ pos \in Nat /\ d \in Content
    BY <1>2, OpenHandleTyped, PayloadContent, MaxLenAssumption DEF Write, Usable, HandleRec
  <2>2. new \in Content /\ Len(new) \in Nat
    BY <2>1, WriteAtContent, LenContent
  <2>3. w \in HandleRec
    BY <2>1, <2>2 DEF HandleRec
  <2>4. SyncIgnored(h, w) /\ allowed' = [allowed EXCEPT ![r.po] = Write1(@, pos, d)]
    BY <1>2 DEF Write
  <2>5. Write1(allowed[r.po], pos, d) \subseteq Content
    BY <2>1, Write1Typed DEF TypeOK
  <2>6. allowed' \in [Path -> SUBSET (Content \cup {Absent})]
    BY <2>4, <2>5 DEF TypeOK
  <2> QED BY <1>2, <2>3, <2>4, <2>6, SyncTyped DEF Write, TypeOK, RenamePC
<1>3. ASSUME NEW pos \in 0..MaxLen, NEW d \in Payload, WriteFails(h, pos, d)
      PROVE  Typed'
  <2> DEFINE r == handles[h]
  <2>1. r \in HandleRec /\ r.data \in Content /\ r.po \in Path /\ pos \in Nat /\ d \in Content
    BY <1>3, OpenHandleTyped, PayloadContent, MaxLenAssumption DEF WriteFails, Usable, HandleRec
  <2>2. WriteAt(r.data, pos, d) \in Content
    BY <2>1, WriteAtContent
  <2>3. PICK data \in {r.data, WriteAt(r.data, pos, d)} :
          handles' = [handles EXCEPT ![h] =
                        [r EXCEPT !.data = data, !.dirty = TRUE, !.erred = TRUE]]
    BY <1>3 DEF WriteFails
  <2>4. [r EXCEPT !.data = data, !.dirty = TRUE, !.erred = TRUE] \in HandleRec
    BY <2>1, <2>2 DEF HandleRec
  <2>5. Write1(allowed[r.po], pos, d) \subseteq Content
    BY <2>1, Write1Typed DEF TypeOK
  <2>6. allowed' = [allowed EXCEPT ![r.po] = @ \cup Write1(@, pos, d)]
    BY <1>3 DEF WriteFails
  <2>7. /\ handles' \in [Handle -> HandleRec \cup {Closed}]
        /\ allowed' \in [Path -> SUBSET (Content \cup {Absent})]
    BY <2>1, <2>3, <2>4, <2>5, <2>6 DEF TypeOK
  <2> QED BY <1>3, <2>7 DEF WriteFails, TypeOK, RenamePC
<1>4. ASSUME NEW n \in 0..MaxLen, Truncate(h, n)
      PROVE  Typed'
  <2> DEFINE r == handles[h]
             w == [r EXCEPT !.data = Resize(r.data, n), !.size = n, !.dirty = TRUE,
                            !.erred = r.erred /\ n <= Len(r.data)]
  <2>1. r \in HandleRec /\ r.data \in Content /\ r.po \in Path /\ n \in Nat
    BY <1>4, OpenHandleTyped, MaxLenAssumption DEF Truncate, Usable, HandleRec
  <2>2. Resize(r.data, n) \in Content
    BY <2>1, ResizeContent
  <2>3. w \in HandleRec
    BY <2>1, <2>2 DEF HandleRec
  <2>4. SyncIgnored(h, w) /\ allowed' = [allowed EXCEPT ![r.po] = Resize1(@, n)]
    BY <1>4 DEF Truncate
  <2>5. Resize1(allowed[r.po], n) \subseteq Content
    BY <2>1, Resize1Typed DEF TypeOK
  <2>6. allowed' \in [Path -> SUBSET (Content \cup {Absent})]
    BY <2>4, <2>5 DEF TypeOK
  <2> QED BY <1>4, <2>3, <2>4, <2>6, SyncTyped DEF Truncate, TypeOK, RenamePC
<1>5. ASSUME NEW n \in 0..MaxLen, TruncateFails(h, n)
      PROVE  Typed'
  <2>1. handles[h] \in HandleRec
    BY <1>5, OpenHandleTyped DEF TruncateFails, Usable
  <2>2. [handles[h] EXCEPT !.dirty = TRUE, !.erred = TRUE] \in HandleRec
    BY <2>1 DEF HandleRec
  <2> QED BY <1>5, <2>2 DEF TruncateFails, TypeOK, RenamePC
<1>6. CASE Close(h)
  <2>1. handles[h] \in HandleRec
    BY <1>6, OpenHandleTyped DEF Close
  <2>2. files' \in [Path -> Content \cup {Absent}]
    BY <1>6, <2>1 DEF Close, TypeOK, HandleRec
  <2> QED BY <1>6, <2>2 DEF Close, TypeOK, RenamePC
<1>7. CASE UseStale(h)
  BY <1>7 DEF UseStale, TypeOK, PC, CreatePC, RenamePC
<1>8. CASE Remove(h)
  <2>1. handles[h] \in HandleRec
    BY <1>8, OpenHandleTyped DEF Remove, Named
  <2>2. [handles[h] EXCEPT !.link = "closing"] \in HandleRec
    BY <2>1 DEF HandleRec
  <2> QED BY <1>8, <2>2 DEF Remove, Idle, TypeOK, PC, CreatePC, RenamePC
<1> QED BY <1>1, <1>2, <1>3, <1>4, <1>5, <1>6, <1>7, <1>8 DEF HandleCall

LEMMA BeginCallTyped ==
  ASSUME NEW where, NEW p \in Path, NEW q \in Path, NEW ow \in BOOLEAN,
         NEW pay \in Content, NEW h \in Handle, BeginCall(where, p, q, ow, pay, h)
  PROVE  call' \in CallRec /\ pc' = where
BY DEF BeginCall, CallRec

LEMMA NameCallTyped ==
  ASSUME Typed, NEW h \in Handle, NEW p \in Path, NameCall(h, p)
  PROVE  Typed'
<1> USE DEF Typed, CallTyped
<1>1. ASSUME NEW ow \in BOOLEAN, NEW pay \in Payload, Create(p, ow, pay, h)
      PROVE  Typed'
  <2>1. pay \in Content
    BY PayloadContent
  <2>2. call' \in CallRec /\ pc' \in {"c_zeroize", "c_mkdir"}
    BY <1>1, <2>1, BeginCallTyped DEF Create
  <2>3. Zeros1(allowed[p]) \subseteq Content
    BY Zeros1Typed DEF TypeOK
  <2>4. allowed' \in [Path -> SUBSET (Content \cup {Absent})]
    BY <1>1, <2>1, <2>3, EmptyContent DEF Create, TypeOK
  <2> QED BY <1>1, <2>2, <2>4 DEF Create, TypeOK, PC, CreatePC
<1>2. ASSUME NEW ow \in BOOLEAN, CreateRefused(p, ow, h)
      PROVE  Typed'
  BY <1>2 DEF CreateRefused, vars, TypeOK
<1>3. ASSUME NEW ow \in RenameOverwrite, Rename(h, p, ow)
      PROVE  Typed'
  <2>1. ow \in BOOLEAN /\ handles[h] \in HandleRec
    BY <1>3, RenameAssumption, OpenHandleTyped DEF Rename, Named
  <2>2. handles[h].po \in Path
    BY <2>1 DEF HandleRec
  <2>3. call' \in CallRec /\ pc' \in {"r_zeroize", "r_mkdir"}
    BY <1>3, <2>1, <2>2, EmptyContent, BeginCallTyped DEF Rename
  <2>4. Zeros1(allowed[p]) \subseteq Content
    BY Zeros1Typed DEF TypeOK
  <2>5. allowed' \in [Path -> SUBSET (Content \cup {Absent})]
    BY <1>3, <2>4 DEF Rename, TypeOK
  <2> QED BY <1>3, <2>3, <2>5 DEF Rename, TypeOK, PC, RenamePC
<1>4. ASSUME NEW ow \in RenameOverwrite, RenameRefused(h, p, ow)
      PROVE  Typed'
  BY <1>4 DEF RenameRefused, vars, TypeOK
<1> QED BY <1>1, <1>2, <1>3, <1>4 DEF NameCall

LEMMA ZeroizeTyped ==
  ASSUME TypeOK, NEW p \in Path, Zeroize(p)
  PROVE  files' \in [Path -> Content \cup {Absent}]
<1>1. files[p] # Absent => Zeros(files[p]) \in Content
  BY ZerosContent DEF TypeOK
<1> QED BY <1>1 DEF Zeroize, TypeOK

LEMMA CreateStepTyped == Typed /\ CreateStep => Typed'
<1> SUFFICES ASSUME Typed, CreateStep PROVE Typed'
  OBVIOUS
<1> USE DEF Typed, CallTyped, CreatePC, BootPC, RenamePC, PC
<1>0. call \in CallRec => /\ call.p \in Path /\ call.pay \in Content /\ call.h \in Handle
                          /\ [call EXCEPT !.lost = TRUE] \in CallRec
  BY DEF CallRec
<1>1. CASE CreateZeroize
  BY <1>0, <1>1, ZeroizeTyped DEF CreateZeroize, TypeOK
<1>2. CASE CreateMkdir
  BY <1>2 DEF CreateMkdir, Return, TypeOK
<1>3. CASE CreateOpen
  BY <1>0, <1>3, EmptyContent DEF CreateOpen, Return, TypeOK
<1>4. CASE CreateFill
  BY <1>4 DEF CreateFill, TypeOK
<1>5. CASE CreateUndo
  BY <1>0, <1>5 DEF CreateUndo, Return, TypeOK
<1>6. CASE CreateClose
  BY <1>0, <1>6 DEF CreateClose, TypeOK
<1>7. CASE CreateReopen
  <2>1. call \in CallRec /\ call.p \in Path /\ call.pay \in Content /\ files[call.p] \in Content
    BY <1>0, <1>7 DEF CreateReopen, TypeOK
  <2>2. FreshHandle(call.p, Len(call.pay)) \in HandleRec
    BY <2>1, LenContent DEF FreshHandle, HandleRec
  <2> QED BY <1>0, <1>7, <2>1, <2>2 DEF CreateReopen, Return, TypeOK, Cause
<1>8. CASE CreateReopenFails
  BY <1>8 DEF CreateReopenFails, Return, TypeOK
<1> QED BY <1>1, <1>2, <1>3, <1>4, <1>5, <1>6, <1>7, <1>8 DEF CreateStep

\* The handle a rename was called through stays open until it returns.
RenameHandle == pc \in RenamePC => IsOpen(call.h)

LEMMA RenameStepTyped == Typed /\ RenameHandle /\ RenameStep => Typed'
<1> SUFFICES ASSUME Typed, RenameHandle, RenameStep PROVE Typed'
  OBVIOUS
<1> USE DEF Typed, CallTyped, CreatePC, BootPC, RenamePC, PC
<1>0. call \in CallRec => call.p \in Path /\ call.q \in Path /\ call.h \in Handle
  BY DEF CallRec
<1>1. CASE RenameZeroize
  BY <1>0, <1>1, ZeroizeTyped DEF RenameZeroize, TypeOK
<1>2. CASE RenameRemove
  BY <1>0, <1>2 DEF RenameRemove, TypeOK
<1>3. CASE RenameMkdir
  BY <1>3 DEF RenameMkdir, Return, TypeOK
<1>4. CASE RenameCommit
  <2>1. call.p \in Path /\ call.q \in Path /\ call.h \in Handle /\ handles[call.h] \in HandleRec
    BY <1>0, <1>4, OpenHandleTyped DEF RenameCommit, RenameHandle
  <2>2. Detached(handles[call.h], call.q) \in HandleRec
    BY <2>1, DetachedFacts
  <2> QED BY <1>4, <2>1, <2>2 DEF RenameCommit, Return, TypeOK
<1> QED BY <1>1, <1>2, <1>3, <1>4 DEF RenameStep

-----------------------------------------------------------------------------
(* The invariant behind Accounted.  One lemma per group of actions; what an *)
(* action leaves alone follows from the facts about the unchanged part.     *)

Rest == /\ Accounted
        /\ CopyIsAllowed
        /\ OneHandlePerObject
        /\ NoneLinkedWhileMounting
        /\ CreateCallInv
        /\ RenameCallInv

LEMMA IndInvParts == IndInv <=> Typed /\ Rest
BY DEF IndInv, Rest, Typed, CallTyped, CreateCallInv, RenameCallInv

LEMMA InitIndInv == Init => IndInv
<1> SUFFICES ASSUME Init PROVE Typed /\ Rest
  BY IndInvParts
<1>1. Typed
  BY InitTyped
<1>2. Rest
  BY DEF Init, Rest, Accounted, CopyIsAllowed, OneHandlePerObject, IsOpen, AllAbsent,
         NoneLinkedWhileMounting, CreateCallInv, RenameCallInv, CreatePC, BootPC, RenamePC
<1> QED BY <1>1, <1>2

\* Stale closes no handle, opens none, and moves none to another object.
LEMMA StaleFacts ==
  ASSUME TypeOK, handles' = Stale(handles), NEW h \in Handle, IsOpen(h)'
  PROVE  IsOpen(h) /\ handles'[h].po = handles[h].po /\ handles'[h].link = "stale"
<1>1. handles[h] # Closed /\ handles'[h] = [handles[h] EXCEPT !.link = "stale"]
  BY DEF Stale, IsOpen
<1>2. handles[h] \in HandleRec
  BY <1>1 DEF TypeOK
<1> QED BY <1>1, <1>2 DEF HandleRec, IsOpen

LEMMA BootRest == IndInv /\ Boot => Rest'
<1> SUFFICES ASSUME Typed, Rest, Boot PROVE Rest'
  BY IndInvParts
<1>1. pc \in BootPC /\ handles' = handles /\ allowed' = allowed
  BY DEF Boot, HwInit, MountOK, MountFails, FormatBegin, FormatEnd, FormatFails, Remount, BootPC
<1>2. \A h \in Handle : IsOpen(h)' => IsOpen(h) /\ handles'[h].link = "stale"
  BY <1>1 DEF Rest, NoneLinkedWhileMounting, IsOpen
<1>3. CopyIsAllowed' /\ NoneLinkedWhileMounting'
  BY <1>2 DEF CopyIsAllowed, NoneLinkedWhileMounting
<1>4. OneHandlePerObject'
  BY <1>1 DEF Rest, OneHandlePerObject, IsOpen
<1>5. pc' \notin CreatePC \cup RenamePC
  BY DEF Boot, HwInit, MountOK, MountFails, FormatBegin, FormatEnd, FormatFails, Remount,
         Mounted, NotMounted, CreatePC, RenamePC
<1>6. Accounted'
  <2>1. CASE FormatBegin
    BY <1>1, <2>1 DEF FormatBegin, Rest, Accounted, AllAbsent
  <2>2. CASE ~FormatBegin
    <3>1. files' = files /\ silent' = silent
      BY <2>2 DEF Boot, HwInit, MountOK, MountFails, FormatEnd, FormatFails, Remount
    <3> QED BY <1>1, <3>1 DEF Rest, Accounted
  <2> QED BY <2>1, <2>2
<1> QED BY <1>3, <1>4, <1>5, <1>6 DEF Rest, CreateCallInv, RenameCallInv, CreatePC, RenamePC

LEMMA MaintenanceRest == IndInv /\ (EraseSector \/ EraseChip \/ Crash) => Rest'
<1> SUFFICES ASSUME Typed, Rest, EraseSector \/ EraseChip \/ Crash PROVE Rest'
  BY IndInvParts
<1> USE DEF Typed
<1>1. CASE EraseSector /\ handles' = Stale(handles)
  <2>1. \A h \in Handle : IsOpen(h)' => /\ IsOpen(h) /\ handles'[h].po = handles[h].po
                                        /\ handles'[h].link = "stale"
    BY <1>1, StaleFacts
  <2>2. pc' \notin CreatePC \cup RenamePC
    BY <1>1 DEF EraseSector, Idle, CreatePC, RenamePC
  <2>3. Accounted'
    BY <1>1 DEF EraseSector, Rest, Accounted
  <2>4. CopyIsAllowed' /\ NoneLinkedWhileMounting'
    BY <2>1 DEF CopyIsAllowed, NoneLinkedWhileMounting
  <2>5. OneHandlePerObject'
    BY <2>1 DEF Rest, OneHandlePerObject
  <2> QED BY <2>2, <2>3, <2>4, <2>5 DEF Rest, CreateCallInv, RenameCallInv
<1>2. CASE EraseSector /\ ~(handles' = Stale(handles))
  <2>1. UNCHANGED <<files, medium, fs, handles, pc, allowed, silent>> /\ pc = "idle"
    BY <1>2 DEF EraseSector, Idle
  <2>2. Accounted' /\ OneHandlePerObject'
    BY <2>1 DEF Rest, Accounted, OneHandlePerObject, IsOpen
  <2>3. CopyIsAllowed'
    BY <2>1 DEF Rest, CopyIsAllowed, IsOpen, LfsUp
  <2> QED BY <2>1, <2>2, <2>3 DEF Rest, NoneLinkedWhileMounting, CreateCallInv, RenameCallInv,
                                  CreatePC, BootPC, RenamePC
<1>3. CASE EraseChip /\ pc' = "format"
  <2>1. handles' = Stale(handles)
    BY <1>3 DEF EraseChip, Idle
  <2>2. \A h \in Handle : IsOpen(h)' => /\ IsOpen(h) /\ handles'[h].po = handles[h].po
                                        /\ handles'[h].link = "stale"
    BY <2>1, StaleFacts
  <2>3. Accounted'
    BY <1>3 DEF EraseChip, Idle, Accounted, AllAbsent
  <2>4. CopyIsAllowed' /\ NoneLinkedWhileMounting'
    BY <2>2 DEF CopyIsAllowed, NoneLinkedWhileMounting
  <2>5. OneHandlePerObject'
    BY <2>2 DEF Rest, OneHandlePerObject
  <2> QED BY <1>3, <2>3, <2>4, <2>5 DEF Rest, CreateCallInv, RenameCallInv, CreatePC, RenamePC
<1>4. CASE EraseChip /\ ~(pc' = "format")
  <2>1. pc' = "idle" /\ handles' = handles
    BY <1>4 DEF EraseChip, Idle
  <2>2. \/ /\ UNCHANGED <<files, medium, allowed, silent>>
           /\ fs # "off" /\ fs' = (IF fs = "dead" THEN "dead" ELSE "unmounted")
        \/ /\ medium' = "corrupt" /\ files' = AllAbsent
           /\ allowed' = [p \in Path |-> {Absent}]
    BY <1>4 DEF EraseChip
  <2>3. Accounted'
    BY <2>2 DEF Rest, Accounted, AllAbsent
  <2>4. CopyIsAllowed'
    <3>1. LfsUp' => UNCHANGED <<files, allowed, silent>> /\ LfsUp
      BY <2>2 DEF LfsUp, TypeOK
    <3> QED BY <2>1, <3>1 DEF Rest, CopyIsAllowed, IsOpen
  <2>5. OneHandlePerObject'
    BY <2>1 DEF Rest, OneHandlePerObject, IsOpen
  <2> QED BY <2>1, <2>3, <2>4, <2>5 DEF Rest, NoneLinkedWhileMounting, CreateCallInv,
                                        RenameCallInv, CreatePC, BootPC, RenamePC
<1>5. CASE Crash
  <2>1. \A h \in Handle : ~IsOpen(h)'
    BY <1>5 DEF Crash, IsOpen
  <2>2. Accounted'
    BY <1>5 DEF Crash, Rest, Accounted
  <2> QED BY <1>5, <2>1, <2>2 DEF Crash, Rest, CopyIsAllowed, OneHandlePerObject,
             NoneLinkedWhileMounting, CreateCallInv, RenameCallInv, CreatePC, BootPC, RenamePC
<1> QED BY <1>1, <1>2, <1>3, <1>4, <1>5

\* What a call through one handle has to establish for Rest.
LEMMA OneHandleStep ==
  ASSUME IndInv, NEW h \in Handle, IsOpen(h), pc = "idle", pc' \in {"idle", "panic"},
         UNCHANGED <<medium, fs>>,
         \A g \in Handle : g # h => handles'[g] = handles[g],
         handles[h].po \in Path,
         IsOpen(h)' => handles'[h].po = handles[h].po,
         \A p \in Path : p # handles[h].po =>
            files'[p] = files[p] /\ allowed'[p] = allowed[p] /\ silent'[p] = silent[p],
         silent'[handles[h].po] = {} => files'[handles[h].po] \in allowed'[handles[h].po],
         IsOpen(h)' /\ handles'[h].link = "linked" /\ LfsUp /\ silent'[handles[h].po] = {}
            => handles'[h].data \in allowed'[handles[h].po]
  PROVE  Rest'
<1>0. Rest /\ Typed
  BY IndInvParts
<1>1. Accounted'
  BY <1>0 DEF Rest, Accounted
<1>2. CopyIsAllowed'
  <2> SUFFICES ASSUME NEW g \in Handle, IsOpen(g)', handles'[g].link = "linked", LfsUp',
                      silent'[handles'[g].po] = {}
               PROVE  handles'[g].data \in allowed'[handles'[g].po]
    BY DEF CopyIsAllowed
  <2>1. LfsUp
    BY DEF LfsUp
  <2>2. CASE g = h
    BY <2>1, <2>2
  <2>3. CASE g # h
    <3>1. IsOpen(g) /\ handles'[g] = handles[g]
      BY <2>3 DEF IsOpen
    <3>2. handles[g].po # handles[h].po /\ handles[g].po \in Path
      BY <1>0, <2>3, <3>1, OpenHandleTyped DEF Rest, OneHandlePerObject, Typed, HandleRec
    <3> QED BY <1>0, <2>1, <3>1, <3>2 DEF Rest, CopyIsAllowed
  <2> QED BY <2>2, <2>3
<1>3. OneHandlePerObject'
  <2> SUFFICES ASSUME NEW f \in Handle, NEW g \in Handle, IsOpen(f)', IsOpen(g)',
                      handles'[f].po = handles'[g].po
               PROVE  f = g
    BY DEF OneHandlePerObject
  <2>1. IsOpen(f) /\ IsOpen(g) /\ handles'[f].po = handles[f].po /\ handles'[g].po = handles[g].po
    BY DEF IsOpen
  <2> QED BY <1>0, <2>1 DEF Rest, OneHandlePerObject
<1> QED BY <1>1, <1>2, <1>3 DEF Rest, NoneLinkedWhileMounting, CreateCallInv, RenameCallInv,
                                CreatePC, BootPC, RenamePC

\* After a sync, whatever came of it, the object is accounted for, and so is
\* the copy the handle keeps.
LEMMA SyncFacts ==
  ASSUME TypeOK, NEW h \in Handle, NEW r \in HandleRec, IsOpen(h), SyncIgnored(h, r),
         handles[h].po = r.po, NEW S,
         allowed' = [allowed EXCEPT ![handles[h].po] = S],
         LfsUp /\ silent[handles[h].po] = {} /\ r.link = "linked" => r.data \in S
  PROVE  /\ \A g \in Handle : g # h => handles'[g] = handles[g]
         /\ handles'[h].po = handles[h].po
         /\ \A p \in Path : p # handles[h].po =>
               files'[p] = files[p] /\ allowed'[p] = allowed[p] /\ silent'[p] = silent[p]
         /\ silent'[handles[h].po] = {} => files'[handles[h].po] \in allowed'[handles[h].po]
         /\ handles'[h].link = "linked" /\ LfsUp /\ silent'[handles[h].po] = {}
               => handles'[h].data \in allowed'[handles[h].po]
<1>0. r.po \in Path
  BY DEF HandleRec
<1>1. CASE Synced(h, r)
  <2>1. handles'[h] = [r EXCEPT !.dirty = FALSE]
    BY <1>1 DEF Synced, TypeOK
  <2>2. handles'[h].po = r.po /\ handles'[h].data = r.data
    BY <2>1 DEF HandleRec
  <2> QED BY <1>0, <1>1, <2>2 DEF Synced, TypeOK
<1>2. CASE SyncFails(h, r)
  <2>1. handles'[h] = [r EXCEPT !.erred = TRUE]
    BY <1>2 DEF SyncFails, TypeOK
  <2>2. handles'[h].po = r.po /\ silent'[r.po] # {}
    BY <1>0, <1>2, <2>1 DEF SyncFails, TypeOK, HandleRec
  <2> QED BY <1>0, <1>2, <2>2 DEF SyncFails, TypeOK
<1>3. CASE SyncSkipped(h, r)
  BY <1>0, <1>3 DEF SyncSkipped, TypeOK
<1> QED BY <1>1, <1>2, <1>3 DEF SyncIgnored

LEMMA HandleCallRest ==
  ASSUME IndInv, NEW h \in Handle, HandleCall(h)
  PROVE  Rest'
<1>0. Typed /\ Rest /\ TypeOK
  BY IndInvParts DEF Typed
<1>1. ASSUME NEW p \in Path, Open(p, h)
      PROVE  Rest'
  <2>1. /\ \A g \in Handle : IsOpen(g)' /\ g # h => IsOpen(g) /\ handles'[g] = handles[g]
                                                   /\ handles[g].po # p
        /\ handles'[h] = FreshHandle(p, Len(files[p]))
        /\ UNCHANGED <<files, medium, fs, pc>> /\ pc = "idle"
        /\ allowed' = [allowed EXCEPT ![p] = {files[p]}]
        /\ silent' = [silent EXCEPT ![p] = {}]
    BY <1>0, <1>1 DEF Open, TypeOK, IsOpen, OpenOn, Idle
  <2>2. handles'[h].po = p /\ handles'[h].data = files[p]
    BY <2>1 DEF FreshHandle
  <2>3. Accounted'
    BY <1>0, <2>1 DEF Rest, Accounted, TypeOK
  <2>4. CopyIsAllowed'
    <3> SUFFICES ASSUME NEW g \in Handle, IsOpen(g)', handles'[g].link = "linked", LfsUp',
                        silent'[handles'[g].po] = {}
                 PROVE  handles'[g].data \in allowed'[handles'[g].po]
      BY DEF CopyIsAllowed
    <3>1. CASE g = h
      BY <1>0, <2>1, <2>2, <3>1 DEF TypeOK
    <3>2. CASE g # h
      <4>1. LfsUp /\ IsOpen(g) /\ handles'[g] = handles[g] /\ handles[g].po # p
        BY <2>1, <3>2 DEF LfsUp
      <4>2. handles[g].po \in Path
        BY <1>0, <4>1, OpenHandleTyped DEF HandleRec
      <4> QED BY <1>0, <2>1, <4>1, <4>2 DEF Rest, CopyIsAllowed, TypeOK
    <3> QED BY <3>1, <3>2
  <2>5. OneHandlePerObject'
    BY <1>0, <2>1, <2>2 DEF Rest, OneHandlePerObject
  <2> QED BY <2>1, <2>3, <2>4, <2>5 DEF Rest, NoneLinkedWhileMounting, CreateCallInv,
                                        RenameCallInv, CreatePC, BootPC, RenamePC
<1>2. ASSUME NEW pos \in 0..MaxLen, NEW d \in Payload, Write(h, pos, d)
      PROVE  Rest'
  <2> DEFINE r   == handles[h]
             new == WriteAt(r.data, pos, d)
             w   == [r EXCEPT !.data = new, !.size = Len(new),
                              !.dirty = TRUE, !.erred = FALSE]
             S   == Write1(allowed[r.po], pos, d)
  <2>1. /\ IsOpen(h) /\ r \in HandleRec /\ r.data \in Content /\ r.po \in Path
        /\ pos \in Nat /\ d \in Content
    BY <1>0, <1>2, OpenHandleTyped, PayloadContent, MaxLenAssumption DEF Write, Usable, HandleRec
  <2>2. new \in Content /\ Len(new) \in Nat
    BY <2>1, WriteAtContent, LenContent
  <2>3. w \in HandleRec /\ w.po = r.po /\ w.data = new /\ w.link = r.link
    BY <2>1, <2>2 DEF HandleRec
  <2>4. SyncIgnored(h, w) /\ allowed' = [allowed EXCEPT ![r.po] = S]
    BY <1>2 DEF Write
  <2>5. LfsUp /\ silent[r.po] = {} /\ r.link = "linked" => new \in S
    <3>1. LfsUp /\ silent[r.po] = {} /\ r.link = "linked" => r.data \in allowed[r.po] \ {Absent}
      BY <1>0, <2>1, AbsentNotContent DEF Rest, CopyIsAllowed
    <3> QED BY <3>1 DEF Write1
  <2>6. /\ \A g \in Handle : g # h => handles'[g] = handles[g]
        /\ handles'[h].po = r.po
        /\ \A p \in Path : p # r.po =>
              files'[p] = files[p] /\ allowed'[p] = allowed[p] /\ silent'[p] = silent[p]
        /\ silent'[r.po] = {} => files'[r.po] \in allowed'[r.po]
        /\ handles'[h].link = "linked" /\ LfsUp /\ silent'[r.po] = {}
              => handles'[h].data \in allowed'[r.po]
    <3>1. LfsUp /\ silent[r.po] = {} /\ w.link = "linked" => w.data \in S
      BY <2>3, <2>5
    <3>2. handles[h].po = w.po
      BY <2>3
    <3> HIDE DEF w, S, new
    <3> QED BY <1>0, <2>1, <2>3, <2>4, <3>1, <3>2, SyncFacts
  <2>7. pc = "idle" /\ UNCHANGED <<medium, fs, pc>>
    BY <1>2 DEF Write, Idle
  <2> QED BY <2>1, <2>6, <2>7, OneHandleStep
<1>3. ASSUME NEW pos \in 0..MaxLen, NEW d \in Payload, WriteFails(h, pos, d)
      PROVE  Rest'
  <2> DEFINE r == handles[h]
             S == Write1(allowed[r.po], pos, d)
  <2>1. IsOpen(h) /\ r \in HandleRec /\ r.data \in Content /\ r.po \in Path
    BY <1>0, <1>3, OpenHandleTyped DEF WriteFails, Usable, HandleRec
  <2>2. PICK data \in {r.data, WriteAt(r.data, pos, d)} :
          handles' = [handles EXCEPT ![h] =
                        [r EXCEPT !.data = data, !.dirty = TRUE, !.erred = TRUE]]
    BY <1>3 DEF WriteFails
  <2>3. /\ handles'[h].po = r.po /\ handles'[h].data = data /\ handles'[h].link = r.link
        /\ \A g \in Handle : g # h => handles'[g] = handles[g]
    BY <1>0, <2>1, <2>2 DEF TypeOK, HandleRec
  <2>4. /\ allowed' = [allowed EXCEPT ![r.po] = @ \cup S]
        /\ UNCHANGED <<files, medium, fs, pc, silent>> /\ pc = "idle"
    BY <1>3 DEF WriteFails, Idle
  <2>5. LfsUp /\ silent[r.po] = {} /\ r.link = "linked" => data \in allowed[r.po] \cup S
    <3>1. LfsUp /\ silent[r.po] = {} /\ r.link = "linked" => r.data \in allowed[r.po] \ {Absent}
      BY <1>0, <2>1, AbsentNotContent DEF Rest, CopyIsAllowed
    <3> QED BY <3>1 DEF Write1
  <2>6. /\ \A p \in Path : p # r.po => allowed'[p] = allowed[p]
        /\ allowed'[r.po] = allowed[r.po] \cup S
    BY <1>0, <2>1, <2>4 DEF TypeOK
  <2>7. silent'[r.po] = {} => files'[r.po] \in allowed'[r.po]
    BY <1>0, <2>1, <2>4, <2>6 DEF Rest, Accounted
  <2> HIDE DEF S
  <2> QED BY <2>1, <2>3, <2>4, <2>5, <2>6, <2>7, OneHandleStep
<1>4. ASSUME NEW n \in 0..MaxLen, Truncate(h, n)
      PROVE  Rest'
  <2> DEFINE r == handles[h]
             w == [r EXCEPT !.data = Resize(r.data, n), !.size = n, !.dirty = TRUE,
                            !.erred = r.erred /\ n <= Len(r.data)]
             S == Resize1(allowed[r.po], n)
  <2>1. IsOpen(h) /\ r \in HandleRec /\ r.data \in Content /\ r.po \in Path /\ n \in Nat
    BY <1>0, <1>4, OpenHandleTyped, MaxLenAssumption DEF Truncate, Usable, HandleRec
  <2>2. Resize(r.data, n) \in Content
    BY <2>1, ResizeContent
  <2>3. w \in HandleRec /\ w.po = r.po /\ w.data = Resize(r.data, n) /\ w.link = r.link
    BY <2>1, <2>2 DEF HandleRec
  <2>4. SyncIgnored(h, w) /\ allowed' = [allowed EXCEPT ![r.po] = S]
    BY <1>4 DEF Truncate
  <2>5. LfsUp /\ silent[r.po] = {} /\ r.link = "linked" => Resize(r.data, n) \in S
    <3>1. LfsUp /\ silent[r.po] = {} /\ r.link = "linked" => r.data \in allowed[r.po] \ {Absent}
      BY <1>0, <2>1, AbsentNotContent DEF Rest, CopyIsAllowed
    <3> QED BY <3>1 DEF Resize1
  <2>6. /\ \A g \in Handle : g # h => handles'[g] = handles[g]
        /\ handles'[h].po = r.po
        /\ \A p \in Path : p # r.po =>
              files'[p] = files[p] /\ allowed'[p] = allowed[p] /\ silent'[p] = silent[p]
        /\ silent'[r.po] = {} => files'[r.po] \in allowed'[r.po]
        /\ handles'[h].link = "linked" /\ LfsUp /\ silent'[r.po] = {}
              => handles'[h].data \in allowed'[r.po]
    <3>1. LfsUp /\ silent[r.po] = {} /\ w.link = "linked" => w.data \in S
      BY <2>3, <2>5
    <3>2. handles[h].po = w.po
      BY <2>3
    <3> HIDE DEF w, S
    <3> QED BY <1>0, <2>1, <2>3, <2>4, <3>1, <3>2, SyncFacts
  <2>7. pc = "idle" /\ UNCHANGED <<medium, fs, pc>>
    BY <1>4 DEF Truncate, Idle
  <2> QED BY <2>1, <2>6, <2>7, OneHandleStep
<1>5. ASSUME NEW n \in 0..MaxLen, TruncateFails(h, n)
      PROVE  Rest'
  <2>1. IsOpen(h) /\ handles[h] \in HandleRec /\ handles[h].po \in Path
    BY <1>0, <1>5, OpenHandleTyped DEF TruncateFails, Usable, HandleRec
  <2>2. handles'[h] = [handles[h] EXCEPT !.dirty = TRUE, !.erred = TRUE]
    BY <1>0, <1>5 DEF TruncateFails, TypeOK
  <2>3. /\ handles'[h].po = handles[h].po /\ handles'[h].data = handles[h].data
        /\ handles'[h].link = handles[h].link
    BY <2>1, <2>2 DEF HandleRec
  <2>4. /\ \A g \in Handle : g # h => handles'[g] = handles[g]
        /\ UNCHANGED <<files, medium, fs, pc, allowed, silent>> /\ pc = "idle"
    BY <1>0, <1>5 DEF TruncateFails, TypeOK, Idle
  <2>5. silent[handles[h].po] = {} => files[handles[h].po] \in allowed[handles[h].po]
    BY <1>0, <2>1 DEF Rest, Accounted
  <2>6. LfsUp /\ handles[h].link = "linked" /\ silent[handles[h].po] = {}
           => handles[h].data \in allowed[handles[h].po]
    BY <1>0, <2>1 DEF Rest, CopyIsAllowed
  <2> QED BY <2>1, <2>3, <2>4, <2>5, <2>6, OneHandleStep
<1>6. CASE Close(h)
  <2>1. IsOpen(h) /\ handles[h].po \in Path
    BY <1>0, <1>6, OpenHandleTyped DEF Close, HandleRec
  <2>2. /\ \A g \in Handle : g # h => handles'[g] = handles[g]
        /\ ~IsOpen(h)'
        /\ UNCHANGED <<medium, fs, pc, allowed, silent>> /\ pc = "idle"
        /\ \A p \in Path : p # handles[h].po => files'[p] = files[p]
    BY <1>0, <1>6, <2>1 DEF Close, TypeOK, Idle, IsOpen
  <2>3. silent[handles[h].po] = {} => files'[handles[h].po] \in allowed[handles[h].po]
    BY <1>0, <1>6, <2>1 DEF Close, Rest, Accounted, CopyIsAllowed
  <2> QED BY <2>1, <2>2, <2>3, OneHandleStep
<1>7. CASE UseStale(h)
  <2>1. pc' = "panic" /\ UNCHANGED <<files, medium, fs, handles, allowed, silent>>
    BY <1>7 DEF UseStale
  <2> QED BY <1>0, <2>1 DEF Rest, Accounted, CopyIsAllowed, OneHandlePerObject, LfsUp, IsOpen,
             NoneLinkedWhileMounting, CreateCallInv, RenameCallInv, CreatePC, BootPC, RenamePC
<1>8. CASE Remove(h)
  <2>1. IsOpen(h) /\ handles[h] \in HandleRec /\ handles[h].po \in Path
    BY <1>0, <1>8, OpenHandleTyped DEF Remove, Named, HandleRec
  <2>2. handles'[h] = [handles[h] EXCEPT !.link = "closing"]
    BY <1>0, <1>8 DEF Remove, TypeOK
  <2>3. handles'[h].po = handles[h].po /\ handles'[h].link = "closing"
    BY <2>1, <2>2 DEF HandleRec
  <2>4. /\ \A g \in Handle : g # h => handles'[g] = handles[g]
        /\ UNCHANGED <<medium, fs>> /\ pc = "idle" /\ pc' \in {"idle", "panic"}
        /\ \A p \in Path : p # handles[h].po =>
              files'[p] = files[p] /\ allowed'[p] = allowed[p] /\ silent'[p] = silent[p]
    BY <1>0, <1>8, <2>1 DEF Remove, TypeOK, Idle
  <2>5. silent'[handles[h].po] = {} => files'[handles[h].po] \in allowed'[handles[h].po]
    BY <1>0, <1>8, <2>1 DEF Remove, Rest, Accounted, TypeOK
  <2> QED BY <2>1, <2>3, <2>4, <2>5, OneHandleStep
<1> QED BY <1>1, <1>2, <1>3, <1>4, <1>5, <1>6, <1>7, <1>8 DEF HandleCall

\* What a step of a handler that leaves the handles alone has to establish:
\* it may only widen what callers are told.
LEMMA NoHandleStep ==
  ASSUME IndInv, UNCHANGED <<medium, fs, handles>>,
         pc' \notin BootPC,
         \A p \in Path : /\ allowed[p] \subseteq allowed'[p]
                         /\ silent'[p] = {} => silent[p] = {}
                         /\ silent'[p] = {} => files'[p] \in allowed'[p]
  PROVE  Accounted' /\ CopyIsAllowed' /\ OneHandlePerObject' /\ NoneLinkedWhileMounting'
<1>0. Rest /\ Typed /\ TypeOK
  BY IndInvParts DEF Typed
<1>1. CopyIsAllowed'
  <2> SUFFICES ASSUME NEW h \in Handle, IsOpen(h), handles[h].link = "linked", LfsUp,
                      silent'[handles[h].po] = {}
               PROVE  handles[h].data \in allowed'[handles[h].po]
    BY DEF CopyIsAllowed, IsOpen, LfsUp
  <2>1. handles[h].po \in Path
    BY <1>0, OpenHandleTyped DEF HandleRec
  <2> QED BY <1>0, <2>1 DEF Rest, CopyIsAllowed
<1> QED BY <1>0, <1>1 DEF Rest, Accounted, OneHandlePerObject, IsOpen, NoneLinkedWhileMounting,
                          BootPC

LEMMA ZeroizableAllowed ==
  ASSUME TypeOK, Accounted, NEW p \in Path, silent[p] = {}, files[p] # Absent
  PROVE  Zeros(files[p]) \in Zeros1(allowed[p])
BY DEF TypeOK, Accounted, Zeros1

\* zeroize_file_L leaves an object in the state it was in, or zeroed.
LEMMA ZeroizeFacts ==
  ASSUME TypeOK, Accounted, NEW p \in Path, Zeroable(p), Zeroize(p)
  PROVE  /\ silent[p] = {} => files'[p] \in allowed[p]
         /\ \A q \in Path : q # p => files'[q] = files[q]
BY DEF TypeOK, Accounted, Zeroable, Zeroize

LEMMA NameCallRest ==
  ASSUME IndInv, NEW h \in Handle, NEW p \in Path, NameCall(h, p)
  PROVE  Rest'
<1>0. Typed /\ Rest /\ TypeOK /\ Accounted
  BY IndInvParts DEF Typed, Rest
<1>1. ASSUME NEW ow \in BOOLEAN, NEW pay \in Payload, Create(p, ow, pay, h)
      PROVE  Rest'
  <2>1. /\ UNCHANGED <<files, medium, fs, handles, silent>>
        /\ allowed' = [allowed EXCEPT ![p] = @ \cup {<<>>, Absent, pay}
                                               \cup (IF ow THEN Zeros1(@) ELSE {})]
        /\ ~OpenOn(p)
        /\ \/ ow /\ BeginCall("c_zeroize", p, p, ow, pay, h)
           \/ BeginCall("c_mkdir", p, p, ow, pay, h)
    BY <1>1 DEF Create
  <2>2. /\ call' = [p |-> p, q |-> p, ow |-> ow, pay |-> pay, h |-> h, lost |-> FALSE]
        /\ (pc' = "c_zeroize" /\ ow) \/ pc' = "c_mkdir"
    BY <2>1 DEF BeginCall
  <2>3. /\ allowed'[p] = allowed[p] \cup {<<>>, Absent, pay}
                                    \cup (IF ow THEN Zeros1(allowed[p]) ELSE {})
        /\ \A q \in Path : q # p => allowed'[q] = allowed[q]
    BY <1>0, <2>1 DEF TypeOK
  <2>4. pc' \notin BootPC
    BY <2>2 DEF BootPC
  <2>5. Accounted' /\ CopyIsAllowed' /\ OneHandlePerObject' /\ NoneLinkedWhileMounting'
    <3>1. \A q \in Path : allowed[q] \subseteq allowed'[q]
      BY <2>3
    <3> QED BY <1>0, <2>1, <2>4, <3>1, NoHandleStep DEF Accounted
  <2>6. call' \in CallRec
    BY <1>1, <2>2, PayloadContent DEF CallRec
  <2>7. pc' = "c_zeroize" => Zeroable(p)'
    <3> SUFFICES ASSUME pc' = "c_zeroize", silent[p] = {}, files[p] # Absent
                 PROVE  Zeros(files[p]) \in allowed'[p]
      BY <2>1 DEF Zeroable
    <3>1. Zeros(files[p]) \in Zeros1(allowed[p])
      BY <1>0, ZeroizableAllowed
    <3> QED BY <2>2, <2>3, <3>1
  <2>8. CreateCallInv'
    <3>1. call'.p = p /\ call'.pay = pay
      BY <2>2
    <3>2. ~OpenOn(p)'
      BY <2>1 DEF OpenOn, IsOpen
    <3> QED BY <2>2, <2>3, <2>6, <2>7, <3>1, <3>2 DEF CreateCallInv
  <2> QED BY <2>2, <2>5, <2>8 DEF Rest, RenameCallInv, RenamePC
<1>2. ASSUME NEW ow \in RenameOverwrite, Rename(h, p, ow)
      PROVE  Rest'
  <2> DEFINE po == handles[h].po
  <2>1. /\ UNCHANGED <<files, medium, fs, handles, silent>>
        /\ ~OpenOn(p) /\ IsOpen(h) /\ p # po
        /\ \/ /\ BeginCall("r_zeroize", po, p, ow, <<>>, h)
              /\ allowed' = [allowed EXCEPT ![p] = @ \cup {Absent} \cup Zeros1(@)]
           \/ /\ BeginCall("r_mkdir", po, p, ow, <<>>, h)
              /\ UNCHANGED allowed
    BY <1>2 DEF Rename, Named
  <2>2. /\ call' = [p |-> po, q |-> p, ow |-> ow, pay |-> <<>>, h |-> h, lost |-> FALSE]
        /\ \/ pc' = "r_zeroize" /\ allowed'[p] = allowed[p] \cup {Absent} \cup Zeros1(allowed[p])
           \/ pc' = "r_mkdir"
    BY <1>0, <2>1 DEF BeginCall, TypeOK
  <2>3. pc' \notin BootPC /\ pc' \in {"r_zeroize", "r_mkdir"}
    BY <2>2 DEF BootPC
  <2>4. Accounted' /\ CopyIsAllowed' /\ OneHandlePerObject' /\ NoneLinkedWhileMounting'
    <3>1. \A q \in Path : allowed[q] \subseteq allowed'[q]
      BY <1>0, <2>1 DEF TypeOK
    <3> QED BY <1>0, <2>1, <2>3, <3>1, NoHandleStep DEF Accounted
  <2>5. call' \in CallRec
    <3>1. po \in Path
      BY <1>0, <2>1, OpenHandleTyped DEF HandleRec
    <3> QED BY <1>2, <2>2, <3>1, EmptyContent, RenameAssumption DEF CallRec
  <2>6. pc' = "r_zeroize" => Zeroable(p)'
    <3> SUFFICES ASSUME pc' = "r_zeroize", silent[p] = {}, files[p] # Absent
                 PROVE  Zeros(files[p]) \in allowed'[p]
      BY <2>1 DEF Zeroable
    <3>1. Zeros(files[p]) \in Zeros1(allowed[p])
      BY <1>0, ZeroizableAllowed
    <3> QED BY <2>2, <3>1
  <2>7. RenameCallInv'
    <3>1. call'.p = po /\ call'.q = p /\ call'.h = h
      BY <2>2
    <3>2. ~OpenOn(p)' /\ IsOpen(h)' /\ handles'[h].po = po
      BY <2>1 DEF OpenOn, IsOpen
    <3> QED BY <2>1, <2>2, <2>3, <2>5, <2>6, <3>1, <3>2 DEF RenameCallInv
  <2> QED BY <2>3, <2>4, <2>7 DEF Rest, CreateCallInv, CreatePC
<1>3. ASSUME UNCHANGED vars
      PROVE  Rest'
  BY <1>0, <1>3 DEF vars, Rest, Accounted, CopyIsAllowed, OneHandlePerObject, LfsUp, IsOpen, 
     NoneLinkedWhileMounting, CreateCallInv, RenameCallInv, CreatePC, BootPC, RenamePC, OpenOn,
     Zeroable
<1> QED BY <1>1, <1>2, <1>3 DEF NameCall, CreateRefused, RenameRefused

LEMMA CreateStepRest == IndInv /\ CreateStep => Rest'
<1> SUFFICES ASSUME IndInv, CreateStep PROVE Rest'
  OBVIOUS
<1>0. Typed /\ Rest /\ TypeOK /\ Accounted
  BY IndInvParts DEF Typed, Rest
<1>1. pc \in CreatePC
  BY DEF CreateStep, CreateZeroize, CreateMkdir, CreateOpen, CreateFill, CreateUndo,
         CreateClose, CreateReopen, CreateReopenFails, CreatePC
<1>2. /\ call \in CallRec /\ call.p \in Path /\ call.h \in Handle /\ call.pay \in Content
      /\ ~OpenOn(call.p)
      /\ {<<>>, Absent, call.pay} \subseteq allowed[call.p]
      /\ pc = "c_zeroize" => Zeroable(call.p)
      /\ pc = "c_reopen" /\ ~call.lost => files[call.p] = call.pay
  BY <1>0, <1>1 DEF Rest, CreateCallInv, CallRec
<1>3. pc' \notin BootPC /\ pc' \notin RenamePC
  BY DEF CreateStep, CreateZeroize, CreateMkdir, CreateOpen, CreateFill, CreateUndo, Return,
         CreateClose, CreateReopen, CreateReopenFails, BootPC, RenamePC
<1>4. CASE ~CreateReopen
  <2>1. UNCHANGED <<medium, fs, handles, allowed, silent>>
    BY <1>4 DEF CreateStep, CreateZeroize, CreateMkdir, CreateOpen, CreateFill, CreateUndo,
                CreateClose, CreateReopenFails
  <2>2. \A p \in Path : silent[p] = {} => files'[p] \in allowed[p]
    <3>1. CASE CreateZeroize
      BY <1>0, <1>2, <3>1, ZeroizeFacts DEF CreateZeroize, Accounted
    <3>2. CASE CreateMkdir
      BY <1>0, <3>2 DEF CreateMkdir, Accounted
    <3>3. CASE CreateOpen
      BY <1>0, <1>2, <3>3 DEF CreateOpen, Accounted, TypeOK
    <3>4. CASE CreateFill
      BY <1>0, <3>4 DEF CreateFill, Accounted
    <3>5. CASE CreateUndo
      BY <1>0, <1>2, <3>5 DEF CreateUndo, Accounted, TypeOK
    <3>6. CASE CreateClose
      BY <1>0, <1>2, <3>6 DEF CreateClose, Accounted, TypeOK
    <3>7. CASE CreateReopenFails
      BY <1>0, <3>7 DEF CreateReopenFails, Accounted
    <3> QED BY <1>4, <3>1, <3>2, <3>3, <3>4, <3>5, <3>6, <3>7 DEF CreateStep
  <2>3. Accounted' /\ CopyIsAllowed' /\ OneHandlePerObject' /\ NoneLinkedWhileMounting'
    BY <1>3, <2>1, <2>2, NoHandleStep
  <2>4. CreateCallInv'
    <3> SUFFICES ASSUME pc' \in CreatePC
                 PROVE  /\ call' \in CallRec
                        /\ call'.p = call.p /\ call'.pay = call.pay
                        /\ pc' # "c_zeroize"
                        /\ pc' = "c_reopen" /\ ~call'.lost => files'[call.p] = call.pay
      BY <1>2, <2>1 DEF CreateCallInv, OpenOn, IsOpen
    <3>1. CASE CreateClose
      <4>1. \/ call' = call /\ files' = [files EXCEPT ![call.p] = call.pay]
            \/ call' = [call EXCEPT !.lost = TRUE]
        BY <3>1 DEF CreateClose
      <4>2. [call EXCEPT !.lost = TRUE] \in CallRec /\ [call EXCEPT !.lost = TRUE].lost
            /\ [call EXCEPT !.lost = TRUE].p = call.p /\ [call EXCEPT !.lost = TRUE].pay = call.pay
        BY <1>2 DEF CallRec
      <4>3. pc' = "c_reopen"
        BY <3>1 DEF CreateClose
      <4> QED BY <1>0, <1>2, <4>1, <4>2, <4>3 DEF TypeOK
    <3>2. CASE ~CreateClose
      BY <1>2, <1>4, <3>2 DEF CreateStep, CreateZeroize, CreateMkdir, CreateOpen, CreateFill,
         CreateUndo, CreateReopenFails, Return, CreatePC
    <3> QED BY <3>1, <3>2
  <2> QED BY <1>3, <2>3, <2>4 DEF Rest, RenameCallInv
<1>5. CASE CreateReopen
  <2> DEFINE p == call.p
  <2>1. /\ pc' = "idle" /\ pc = "c_reopen"
        /\ UNCHANGED <<files, medium, fs>>
        /\ LfsUp /\ files[p] # Absent
        /\ allowed' = [allowed EXCEPT ![p] = {call.pay}]
        /\ silent' = [silent EXCEPT ![p] = IF call.lost THEN {"sync"} ELSE {}]
        /\ handles' = [handles EXCEPT ![call.h] = FreshHandle(p, Len(call.pay))]
    BY <1>5 DEF CreateReopen, Return
  <2>2. handles'[call.h].po = p /\ handles'[call.h].data = files[p]
    BY <1>0, <1>2, <2>1 DEF FreshHandle, TypeOK
  <2>3. \A g \in Handle : IsOpen(g)' /\ g # call.h =>
            IsOpen(g) /\ handles'[g] = handles[g] /\ handles[g].po # p /\ handles[g].po \in Path
    BY <1>0, <1>2, <2>1, OpenHandleTyped DEF IsOpen, OpenOn, HandleRec
  <2>4. silent'[p] = {} => files[p] = call.pay
    BY <1>0, <1>2, <2>1 DEF TypeOK
  <2>5. Accounted'
    BY <1>0, <1>2, <2>1, <2>4 DEF Accounted, TypeOK
  <2>6. CopyIsAllowed'
    <3> SUFFICES ASSUME NEW g \in Handle, IsOpen(g)', handles'[g].link = "linked", LfsUp',
                        silent'[handles'[g].po] = {}
                 PROVE  handles'[g].data \in allowed'[handles'[g].po]
      BY DEF CopyIsAllowed
    <3>1. CASE g = call.h
      BY <1>0, <1>2, <2>1, <2>2, <2>4, <3>1 DEF TypeOK
    <3>2. CASE g # call.h
      BY <1>0, <1>2, <2>1, <2>3, <3>2 DEF Rest, CopyIsAllowed, TypeOK
    <3> QED BY <3>1, <3>2
  <2>7. OneHandlePerObject'
    BY <1>0, <2>2, <2>3 DEF Rest, OneHandlePerObject
  <2> QED BY <2>1, <2>5, <2>6, <2>7 DEF Rest, NoneLinkedWhileMounting, CreateCallInv,
                                        RenameCallInv, CreatePC, BootPC, RenamePC
<1> QED BY <1>4, <1>5

LEMMA RenameStepRest == IndInv /\ RenameStep => Rest'
<1> SUFFICES ASSUME IndInv, RenameStep PROVE Rest'
  OBVIOUS
<1>0. Typed /\ Rest /\ TypeOK /\ Accounted
  BY IndInvParts DEF Typed, Rest
<1>1. pc \in RenamePC
  BY DEF RenameStep, RenameZeroize, RenameRemove, RenameMkdir, RenameCommit, RenamePC
<1>2. /\ call \in CallRec /\ call.p \in Path /\ call.q \in Path /\ call.h \in Handle
      /\ call.p # call.q
      /\ IsOpen(call.h) /\ handles[call.h].po = call.p /\ handles[call.h] \in HandleRec
      /\ ~OpenOn(call.q)
      /\ pc \in {"r_zeroize", "r_remove"} => Absent \in allowed[call.q]
      /\ pc = "r_zeroize" => Zeroable(call.q)
  BY <1>0, <1>1, OpenHandleTyped DEF Rest, RenameCallInv, CallRec
<1>3. pc' \notin BootPC /\ pc' \notin CreatePC /\ pc' # "r_zeroize"
  BY DEF RenameStep, RenameZeroize, RenameRemove, RenameMkdir, RenameCommit, Return,
         BootPC, CreatePC
<1>4. CASE UNCHANGED <<handles, allowed, silent>>
  <2>1. UNCHANGED <<medium, fs>>
    BY DEF RenameStep, RenameZeroize, RenameRemove, RenameMkdir, RenameCommit
  <2>2. \A p \in Path : silent[p] = {} => files'[p] \in allowed[p]
    <3>1. CASE RenameZeroize
      BY <1>0, <1>2, <3>1, ZeroizeFacts DEF RenameZeroize, Accounted
    <3>2. CASE RenameRemove
      BY <1>0, <1>2, <3>2 DEF RenameRemove, Accounted, TypeOK
    <3>3. CASE RenameMkdir
      BY <1>0, <3>3 DEF RenameMkdir, Accounted
    <3>4. CASE RenameCommit
      BY <1>0, <1>2, <1>4, <3>4 DEF RenameCommit, Accounted, TypeOK
    <3> QED BY <3>1, <3>2, <3>3, <3>4 DEF RenameStep
  <2>3. Accounted' /\ CopyIsAllowed' /\ OneHandlePerObject' /\ NoneLinkedWhileMounting'
    BY <1>3, <1>4, <2>1, <2>2, NoHandleStep
  <2>4. pc' \in RenamePC => call' = call /\ (pc' = "r_remove" => pc = "r_zeroize")
    BY DEF RenameStep, RenameZeroize, RenameRemove, RenameMkdir, RenameCommit, Return, RenamePC
  <2>5. RenameCallInv'
    BY <1>2, <1>3, <1>4, <2>4 DEF RenameCallInv, OpenOn, IsOpen
  <2> QED BY <1>3, <2>3, <2>5 DEF Rest, CreateCallInv
<1>5. CASE ~UNCHANGED <<handles, allowed, silent>>
  <2> DEFINE p == call.p
             q == call.q
             h == call.h
  <2>1. /\ pc' = "idle" /\ UNCHANGED <<medium, fs>>
        /\ files' = [files EXCEPT ![q] = files[p], ![p] = Absent]
        /\ handles' = [handles EXCEPT ![h] = Detached(handles[h], q)]
        /\ allowed' = [allowed EXCEPT ![q] = allowed[p], ![p] = {Absent}]
        /\ silent' = [silent EXCEPT ![q] = silent[p], ![p] = {}]
    BY <1>5 DEF RenameStep, RenameZeroize, RenameRemove, RenameMkdir, RenameCommit, Return
  <2>2. handles'[h].po = q /\ handles'[h].link \in {"renamed", "stale"}
    BY <1>0, <1>2, <2>1, DetachedFacts, OpenHandleTyped DEF TypeOK
  <2>3. \A g \in Handle : IsOpen(g)' /\ g # h =>
            /\ IsOpen(g) /\ handles'[g] = handles[g]
            /\ handles[g].po # p /\ handles[g].po # q /\ handles[g].po \in Path
    BY <1>0, <1>2, <2>1, OpenHandleTyped DEF IsOpen, OpenOn, TypeOK, HandleRec,
       Rest, OneHandlePerObject
  <2>4. Accounted'
    BY <1>0, <1>2, <2>1 DEF Accounted, TypeOK
  <2>5. CopyIsAllowed'
    <3> SUFFICES ASSUME NEW g \in Handle, IsOpen(g)', handles'[g].link = "linked", LfsUp',
                        silent'[handles'[g].po] = {}
                 PROVE  handles'[g].data \in allowed'[handles'[g].po]
      BY DEF CopyIsAllowed
    <3>1. g # h /\ LfsUp
      BY <2>1, <2>2 DEF LfsUp
    <3>2. /\ IsOpen(g) /\ handles'[g] = handles[g]
          /\ allowed'[handles[g].po] = allowed[handles[g].po]
          /\ silent'[handles[g].po] = silent[handles[g].po]
      BY <1>0, <1>2, <2>1, <2>3, <3>1 DEF TypeOK
    <3> QED BY <1>0, <3>1, <3>2 DEF Rest, CopyIsAllowed
  <2>6. OneHandlePerObject'
    BY <1>0, <2>2, <2>3 DEF Rest, OneHandlePerObject
  <2> QED BY <2>1, <2>4, <2>5, <2>6 DEF Rest, NoneLinkedWhileMounting, CreateCallInv,
                                        RenameCallInv, CreatePC, BootPC, RenamePC
<1> QED BY <1>4, <1>5

LEMMA NextIndInv == IndInv /\ [Next]_vars => IndInv'
<1> SUFFICES ASSUME IndInv, [Next]_vars PROVE Typed' /\ Rest'
  BY DEF IndInv, Rest, Typed
<1>0. Typed /\ RenameHandle
  BY IndInvParts DEF Rest, RenameCallInv, RenameHandle
<1>1. CASE Boot
  BY <1>0, <1>1, BootTyped, BootRest
<1>2. CASE CreateStep
  BY <1>0, <1>2, CreateStepTyped, CreateStepRest
<1>3. CASE RenameStep
  BY <1>0, <1>3, RenameStepTyped, RenameStepRest
<1>4. CASE EraseSector \/ EraseChip \/ Crash
  BY <1>0, <1>4, MaintenanceTyped, MaintenanceRest
<1>5. ASSUME NEW h \in Handle, HandleCall(h)
      PROVE  Typed' /\ Rest'
  BY <1>0, <1>5, HandleCallTyped, HandleCallRest
<1>6. ASSUME NEW h \in Handle, NEW p \in Path, NameCall(h, p)
      PROVE  Typed' /\ Rest'
  BY <1>0, <1>6, NameCallTyped, NameCallRest
<1>7. CASE UNCHANGED vars
  <2>1. Typed'
    BY <1>0, <1>7 DEF vars, Typed, TypeOK, CallTyped
  <2>2. Rest'
    BY <1>7, IndInvParts DEF vars, Rest, Accounted, CopyIsAllowed, OneHandlePerObject, LfsUp,
       IsOpen, NoneLinkedWhileMounting, CreateCallInv, RenameCallInv, CreatePC, BootPC, RenamePC, OpenOn,
       Zeroable
  <2> QED BY <2>1, <2>2
<1> QED BY <1>1, <1>2, <1>3, <1>4, <1>5, <1>6, <1>7 DEF Next

\* The inductive invariant: power loss, faults and maintenance in any order.
THEOREM Inductive == Spec => []IndInv
<1>1. Init => IndInv
  BY InitIndInv
<1>2. IndInv /\ [Next]_vars => IndInv'
  BY NextIndInv
<1> QED BY <1>1, <1>2, PTL DEF Spec

\* Every variable keeps its type, for any number of objects and handles and
\* any object length.
THEOREM TypeCorrect == Spec => []TypeOK
<1>1. IndInv => TypeOK
  BY DEF IndInv
<1> QED BY <1>1, Inductive, PTL

\* Whatever fails and wherever power is lost, an object whose record is not
\* marked by one of the three silent losses holds a value that the return
\* codes of the calls on it allow.
THEOREM ObjectsAccounted == Spec => []Accounted
<1>1. IndInv => Accounted
  BY DEF IndInv
<1> QED BY <1>1, Inductive, PTL

-----------------------------------------------------------------------------
(* The size a handle caches.                                                *)

SizeOk(r) == r.link # "linked" \/ r.erred \/ r.size = Len(r.data)

\* Enough for the cached sizes: every handle that can still be trusted either
\* was just given its size or is as it was.
LEMMA SizeFrame ==
  ASSUME CachedSizeIsCurrent, LfsUp' => LfsUp,
         \A h \in Handle : IsOpen(h)' /\ LfsUp' /\ silent'[handles'[h].po] = {} =>
            \/ SizeOk(handles'[h])
            \/ IsOpen(h) /\ handles'[h] = handles[h] /\ silent[handles[h].po] = {}
  PROVE  CachedSizeIsCurrent'
<1> SUFFICES ASSUME NEW h \in Handle, IsOpen(h)', handles'[h].link = "linked",
                    ~handles'[h].erred, silent'[handles'[h].po] = {}, LfsUp'
             PROVE  handles'[h].size = Len(handles'[h].data)
  BY DEF CachedSizeIsCurrent
<1>1. CASE SizeOk(handles'[h])
  BY <1>1 DEF SizeOk
<1>2. CASE IsOpen(h) /\ handles'[h] = handles[h] /\ silent[handles[h].po] = {}
  BY <1>2 DEF CachedSizeIsCurrent
<1> QED BY <1>1, <1>2

\* A sync, whatever comes of it, keeps the size of the handle it is given.
LEMMA SyncSize ==
  ASSUME TypeOK, NEW h \in Handle, NEW r \in HandleRec, SyncIgnored(h, r), SizeOk(r)
  PROVE  /\ SizeOk(handles'[h])
         /\ \A g \in Handle : g # h => handles'[g] = handles[g]
         /\ \A p \in Path : silent'[p] = {} => silent[p] = {}
<1>1. CASE Synced(h, r)
  <2>1. /\ handles' = [handles EXCEPT ![h] = [r EXCEPT !.dirty = FALSE]]
        /\ UNCHANGED silent
    BY <1>1 DEF Synced
  <2> QED BY <2>1 DEF TypeOK, SizeOk, HandleRec
<1>2. CASE SyncFails(h, r)
  <2>1. /\ handles' = [handles EXCEPT ![h] = [r EXCEPT !.erred = TRUE]]
        /\ silent' = [silent EXCEPT ![r.po] = @ \cup {"sync"}]
    BY <1>2 DEF SyncFails
  <2> QED BY <2>1 DEF TypeOK, SizeOk, HandleRec
<1>3. CASE SyncSkipped(h, r)
  <2>1. /\ handles' = [handles EXCEPT ![h] = r]
        /\ \E c \in Cause : silent' = [silent EXCEPT ![r.po] = @ \cup {c}]
    BY <1>3 DEF SyncSkipped, Cause
  <2> QED BY <2>1 DEF TypeOK
<1> QED BY <1>1, <1>2, <1>3 DEF SyncIgnored

LEMMA HandleCallSize ==
  ASSUME IndInv, CachedSizeIsCurrent, NEW h \in Handle, HandleCall(h)
  PROVE  CachedSizeIsCurrent'
<1>0. Typed /\ Rest /\ TypeOK
  BY IndInvParts DEF Typed
<1>a. ASSUME UNCHANGED <<medium, fs>>,
             IsOpen(h)' => SizeOk(handles'[h]),
             \A g \in Handle : g # h => handles'[g] = handles[g],
             \A g \in Handle : g # h /\ IsOpen(g) /\ silent'[handles[g].po] = {}
                => silent[handles[g].po] = {}
      PROVE  CachedSizeIsCurrent'
  <2>1. LfsUp' => LfsUp
    BY <1>a DEF LfsUp
  <2>2. \A g \in Handle : IsOpen(g)' /\ silent'[handles'[g].po] = {} =>
            \/ SizeOk(handles'[g])
            \/ IsOpen(g) /\ handles'[g] = handles[g] /\ silent[handles[g].po] = {}
    BY <1>a DEF IsOpen
  <2> QED BY <2>1, <2>2, SizeFrame
<1>b. \A g \in Handle : IsOpen(g) => handles[g] \in HandleRec /\ handles[g].po \in Path
  BY <1>0, OpenHandleTyped DEF HandleRec
<1>1. ASSUME NEW p \in Path, Open(p, h)
      PROVE  CachedSizeIsCurrent'
  <2>1. /\ handles' = [handles EXCEPT ![h] = FreshHandle(p, Len(files[p]))]
        /\ silent' = [silent EXCEPT ![p] = {}]
        /\ UNCHANGED <<medium, fs>> /\ ~OpenOn(p)
    BY <1>1 DEF Open
  <2>2. handles'[h] = FreshHandle(p, Len(files[p]))
    BY <1>0, <2>1 DEF TypeOK
  <2>3. SizeOk(handles'[h])
    BY <2>2 DEF FreshHandle, SizeOk
  <2>4. \A g \in Handle : IsOpen(g) => handles[g].po # p
    BY <2>1 DEF OpenOn
  <2> QED BY <1>0, <1>a, <1>b, <2>1, <2>3, <2>4 DEF TypeOK
<1>2. ASSUME NEW pos \in 0..MaxLen, NEW d \in Payload, Write(h, pos, d)
      PROVE  CachedSizeIsCurrent'
  <2> DEFINE r   == handles[h]
             new == WriteAt(r.data, pos, d)
             w   == [r EXCEPT !.data = new, !.size = Len(new),
                              !.dirty = TRUE, !.erred = FALSE]
  <2>1. /\ r \in HandleRec /\ r.data \in Content /\ pos \in Nat /\ d \in Content
    BY <1>b, <1>2, PayloadContent, MaxLenAssumption DEF Write, Usable, HandleRec
  <2>2. new \in Content /\ Len(new) \in Nat
    BY <2>1, WriteAtContent, LenContent
  <2>3. w \in HandleRec /\ SizeOk(w)
    BY <2>1, <2>2 DEF HandleRec, SizeOk
  <2>4. SyncIgnored(h, w) /\ UNCHANGED <<medium, fs>>
    BY <1>2 DEF Write
  <2> HIDE DEF w
  <2> QED BY <1>0, <1>a, <1>b, <2>3, <2>4, SyncSize
<1>3. ASSUME NEW pos \in 0..MaxLen, NEW d \in Payload, WriteFails(h, pos, d)
      PROVE  CachedSizeIsCurrent'
  <2>1. PICK data \in {handles[h].data, WriteAt(handles[h].data, pos, d)} :
          handles' = [handles EXCEPT ![h] =
                        [handles[h] EXCEPT !.data = data, !.dirty = TRUE, !.erred = TRUE]]
    BY <1>3 DEF WriteFails
  <2>2. handles[h] \in HandleRec /\ UNCHANGED <<medium, fs, silent>>
    BY <1>b, <1>3 DEF WriteFails, Usable
  <2>3. SizeOk(handles'[h])
    BY <1>0, <2>1, <2>2 DEF TypeOK, HandleRec, SizeOk
  <2> QED BY <1>0, <1>a, <2>1, <2>2, <2>3 DEF TypeOK
<1>4. ASSUME NEW n \in 0..MaxLen, Truncate(h, n)
      PROVE  CachedSizeIsCurrent'
  <2> DEFINE r == handles[h]
             w == [r EXCEPT !.data = Resize(r.data, n), !.size = n, !.dirty = TRUE,
                            !.erred = r.erred /\ n <= Len(r.data)]
  <2>1. r \in HandleRec /\ r.data \in Content /\ n \in Nat
    BY <1>b, <1>4, MaxLenAssumption DEF Truncate, Usable, HandleRec
  <2>2. Resize(r.data, n) \in Content /\ Len(Resize(r.data, n)) = n
    BY <2>1, ResizeContent DEF Resize
  <2>3. w \in HandleRec
    BY <2>1, <2>2 DEF HandleRec
  <2>4. SizeOk(w)
    BY <2>1, <2>2 DEF HandleRec, SizeOk
  <2>5. SyncIgnored(h, w) /\ UNCHANGED <<medium, fs>>
    BY <1>4 DEF Truncate
  <2> HIDE DEF w
  <2> QED BY <1>0, <1>a, <1>b, <2>3, <2>4, <2>5, SyncSize
<1>5. ASSUME NEW n \in 0..MaxLen, TruncateFails(h, n)
      PROVE  CachedSizeIsCurrent'
  <2>1. /\ handles' = [handles EXCEPT ![h] = [@ EXCEPT !.dirty = TRUE, !.erred = TRUE]]
        /\ handles[h] \in HandleRec /\ UNCHANGED <<medium, fs, silent>>
    BY <1>b, <1>5 DEF TruncateFails, Usable
  <2>2. SizeOk(handles'[h])
    BY <1>0, <2>1 DEF TypeOK, HandleRec, SizeOk
  <2> QED BY <1>0, <1>a, <2>1, <2>2 DEF TypeOK
<1>6. CASE Close(h)
  <2>1. handles' = [handles EXCEPT ![h] = Closed] /\ UNCHANGED <<medium, fs, silent>>
    BY <1>6 DEF Close
  <2> QED BY <1>0, <1>a, <2>1 DEF TypeOK, IsOpen
<1>7. CASE UseStale(h)
  <2>1. UNCHANGED <<medium, fs, handles, silent>>
    BY <1>7 DEF UseStale
  <2> QED BY <2>1 DEF CachedSizeIsCurrent, LfsUp, IsOpen
<1>8. CASE Remove(h)
  <2>1. /\ handles' = [handles EXCEPT ![h] = [@ EXCEPT !.link = "closing"]]
        /\ IsOpen(h) /\ UNCHANGED <<medium, fs>>
        /\ silent' \in {silent, [silent EXCEPT ![handles[h].po] = {}]}
    BY <1>8 DEF Remove, Named
  <2>2. SizeOk(handles'[h])
    BY <1>0, <1>b, <2>1 DEF TypeOK, HandleRec, SizeOk
  <2>3. \A g \in Handle : g # h /\ IsOpen(g) => handles[g].po # handles[h].po
    BY <1>0, <2>1 DEF Rest, OneHandlePerObject
  <2> QED BY <1>0, <1>a, <1>b, <2>1, <2>2, <2>3 DEF TypeOK
<1> QED BY <1>1, <1>2, <1>3, <1>4, <1>5, <1>6, <1>7, <1>8 DEF HandleCall

LEMMA NextSize == IndInv /\ CachedSizeIsCurrent /\ [Next]_vars => CachedSizeIsCurrent'
<1> SUFFICES ASSUME IndInv, CachedSizeIsCurrent, [Next]_vars PROVE CachedSizeIsCurrent'
  OBVIOUS
<1>0. Typed /\ Rest /\ TypeOK
  BY IndInvParts DEF Typed
<1>a. ASSUME UNCHANGED <<medium, fs, handles, silent>>
      PROVE  CachedSizeIsCurrent'
  BY <1>a DEF CachedSizeIsCurrent, LfsUp, IsOpen
<1>b. ASSUME \A h \in Handle : IsOpen(h)' => handles'[h].link # "linked"
      PROVE  CachedSizeIsCurrent'
  BY <1>b DEF CachedSizeIsCurrent
<1>1. CASE Boot
  <2>1. pc \in BootPC /\ handles' = handles
    BY <1>1 DEF Boot, HwInit, MountOK, MountFails, FormatBegin, FormatEnd, FormatFails,
                Remount, BootPC
  <2> QED BY <1>0, <1>b, <2>1 DEF Rest, NoneLinkedWhileMounting, IsOpen
<1>2. CASE CreateStep /\ ~CreateReopen
  BY <1>2, <1>a DEF CreateStep, CreateZeroize, CreateMkdir, CreateOpen, CreateFill, CreateUndo,
     CreateClose, CreateReopenFails
<1>3. CASE CreateReopen
  <2> DEFINE p == call.p
  <2>1. /\ handles' = [handles EXCEPT ![call.h] = FreshHandle(p, Len(call.pay))]
        /\ silent' = [silent EXCEPT ![p] = IF call.lost THEN {"sync"} ELSE {}]
        /\ UNCHANGED <<medium, fs>> /\ pc = "c_reopen"
    BY <1>3 DEF CreateReopen
  <2>2. /\ call \in CallRec /\ p \in Path /\ call.h \in Handle /\ ~OpenOn(p)
        /\ ~call.lost => files[p] = call.pay
    BY <1>0, <2>1 DEF Rest, CreateCallInv, CreatePC, CallRec
  <2>3. handles'[call.h] = FreshHandle(p, Len(call.pay))
    BY <1>0, <2>1, <2>2 DEF TypeOK
  <2>4. /\ handles'[call.h].po = p /\ handles'[call.h].data = files[p]
        /\ handles'[call.h].size = Len(call.pay)
    BY <2>3 DEF FreshHandle
  <2>5. silent'[p] = {} => ~call.lost
    BY <1>0, <2>1, <2>2 DEF TypeOK
  <2>6. silent'[handles'[call.h].po] = {} => SizeOk(handles'[call.h])
    BY <2>2, <2>4, <2>5 DEF SizeOk
  <2>7. \A g \in Handle : g # call.h /\ IsOpen(g)' =>
            IsOpen(g) /\ handles'[g] = handles[g] /\ handles[g].po # p /\ handles[g].po \in Path
    BY <1>0, <2>1, <2>2, OpenHandleTyped DEF IsOpen, OpenOn, HandleRec
  <2>8. \A g \in Handle : IsOpen(g)' /\ silent'[handles'[g].po] = {} =>
            \/ SizeOk(handles'[g])
            \/ IsOpen(g) /\ handles'[g] = handles[g] /\ silent[handles[g].po] = {}
    BY <1>0, <2>1, <2>2, <2>6, <2>7 DEF TypeOK
  <2> QED BY <2>1, <2>8, SizeFrame DEF LfsUp
<1>4. CASE RenameStep
  <2>1. UNCHANGED <<medium, fs>>
    BY <1>4 DEF RenameStep, RenameZeroize, RenameRemove, RenameMkdir, RenameCommit
  <2>2. CASE UNCHANGED <<handles, silent>>
    BY <1>a, <2>1, <2>2
  <2>3. CASE ~UNCHANGED <<handles, silent>>
    <3> DEFINE p == call.p
               q == call.q
               h == call.h
    <3>1. /\ handles' = [handles EXCEPT ![h] = Detached(handles[h], q)]
          /\ silent' = [silent EXCEPT ![q] = silent[p], ![p] = {}]
          /\ pc = "r_rename"
      BY <1>4, <2>3 DEF RenameStep, RenameZeroize, RenameRemove, RenameMkdir, RenameCommit
    <3>2. /\ p \in Path /\ q \in Path /\ h \in Handle
          /\ IsOpen(h) /\ handles[h].po = p /\ handles[h] \in HandleRec /\ ~OpenOn(q)
      BY <1>0, <3>1, OpenHandleTyped DEF Rest, RenameCallInv, RenamePC, CallRec
    <3>3. SizeOk(handles'[h])
      BY <1>0, <3>1, <3>2, DetachedFacts DEF TypeOK, SizeOk
    <3>4. \A g \in Handle : g # h /\ IsOpen(g)' =>
              /\ IsOpen(g) /\ handles'[g] = handles[g] /\ handles[g].po # p
              /\ handles[g].po # q /\ handles[g].po \in Path
      BY <1>0, <3>1, <3>2, OpenHandleTyped DEF IsOpen, OpenOn, TypeOK, HandleRec, Rest,
         OneHandlePerObject
    <3>5. \A g \in Handle : IsOpen(g)' /\ silent'[handles'[g].po] = {} =>
              \/ SizeOk(handles'[g])
              \/ IsOpen(g) /\ handles'[g] = handles[g] /\ silent[handles[g].po] = {}
      BY <1>0, <3>1, <3>2, <3>3, <3>4 DEF TypeOK
    <3> QED BY <2>1, <3>5, SizeFrame DEF LfsUp
  <2> QED BY <2>2, <2>3
<1>5. CASE EraseSector \/ EraseChip
  <2>1. \/ handles' = Stale(handles)
        \/ UNCHANGED <<medium, fs, handles, silent>>
        \/ medium' = "corrupt"
        \/ /\ UNCHANGED <<medium, handles, silent>>
           /\ fs # "off" /\ fs' = (IF fs = "dead" THEN "dead" ELSE "unmounted")
    BY <1>5 DEF EraseSector, EraseChip
  <2>2. CASE handles' = Stale(handles)
    BY <1>0, <1>b, <2>2, StaleFacts
  <2>3. CASE medium' = "corrupt"
    BY <2>3 DEF CachedSizeIsCurrent, LfsUp
  <2>4. CASE /\ UNCHANGED <<medium, handles, silent>>
             /\ fs # "off" /\ fs' = (IF fs = "dead" THEN "dead" ELSE "unmounted")
    <3>1. LfsUp' => LfsUp
      BY <1>0, <2>4 DEF LfsUp, TypeOK
    <3> QED BY <2>4, <3>1 DEF CachedSizeIsCurrent, IsOpen
  <2> QED BY <1>a, <2>1, <2>2, <2>3, <2>4
<1>6. CASE Crash
  BY <1>6, <1>b DEF Crash, IsOpen
<1>7. ASSUME NEW h \in Handle, HandleCall(h)
      PROVE  CachedSizeIsCurrent'
  BY <1>7, HandleCallSize
<1>8. ASSUME NEW h \in Handle, NEW p \in Path, NameCall(h, p)
      PROVE  CachedSizeIsCurrent'
  BY <1>8, <1>a DEF NameCall, Create, CreateRefused, Rename, RenameRefused, vars
<1>9. CASE UNCHANGED vars
  BY <1>9, <1>a DEF vars
<1> QED BY <1>1, <1>2, <1>3, <1>4, <1>5, <1>6, <1>7, <1>8, <1>9 DEF Next, CreateStep

\* The size a handle caches is the length of what it reads, however long the
\* object and whatever failed before, unless a flash error was met on the way.
THEOREM SizesAreCurrent == Spec => []CachedSizeIsCurrent
<1>1. Init => CachedSizeIsCurrent
  BY DEF Init, CachedSizeIsCurrent, IsOpen
<1>2. IndInv /\ CachedSizeIsCurrent /\ [Next]_vars => CachedSizeIsCurrent'
  BY NextSize
<1> QED BY <1>1, <1>2, Inductive, PTL DEF Spec

\* So a read, bounded by that size, returns the bytes of a value that the
\* return codes allow: nothing stale, nothing past the end.
THEOREM ReadsAreTheObject == Spec => []ReadsReturnTheObject
<1>1. IndInv /\ CachedSizeIsCurrent => ReadsReturnTheObject
  <2> SUFFICES ASSUME IndInv, CachedSizeIsCurrent, NEW h \in Handle, IsOpen(h),
                      handles[h].link = "linked", ~handles[h].erred,
                      silent[handles[h].po] = {}, LfsUp,
                      NEW pos \in 0..MaxLen, NEW n \in 1..MaxLen
               PROVE  \E c \in allowed[handles[h].po] \ {Absent} :
                         ReadBytes(h, pos, n) = SubSeq(c, pos + 1, Minimum(Len(c), pos + n))
    BY DEF ReadsReturnTheObject
  <2> DEFINE c == handles[h].data
  <2>1. c \in Content /\ c \in allowed[handles[h].po] /\ handles[h].size = Len(c)
    BY OpenHandleTyped DEF IndInv, CopyIsAllowed, CachedSizeIsCurrent, HandleRec
  <2>2. c # Absent /\ Len(c) \in Nat /\ pos \in Nat /\ n \in Nat
    BY <2>1, AbsentNotContent, LenContent, MaxLenAssumption
  <2>3. CASE pos >= Len(c)
    <3>1. ReadBytes(h, pos, n) = <<>>
      BY <2>1, <2>3 DEF ReadBytes
    <3>2. Minimum(Len(c), pos + n) = Len(c)
      BY <2>2, <2>3 DEF Minimum
    <3>3. SubSeq(c, pos + 1, Len(c)) = <<>>
      BY <2>1, <2>2, <2>3, SubSeqEmpty DEF Content
    <3> QED BY <2>1, <2>2, <3>1, <3>2, <3>3
  <2>4. CASE pos < Len(c)
    <3>1. Minimum(Len(c), pos + Minimum(n, Len(c) - pos)) = Minimum(Len(c), pos + n)
      BY <2>2, <2>4 DEF Minimum
    <3>2. ~(pos >= handles[h].size)
      BY <2>1, <2>2, <2>4
    <3>3. ReadBytes(h, pos, n)
            = SubSeq(c, pos + 1, Minimum(Len(c), pos + Minimum(n, handles[h].size - pos)))
      BY <3>2, Zenon DEF ReadBytes
    <3>4. ReadBytes(h, pos, n) = SubSeq(c, pos + 1, Minimum(Len(c), pos + n))
      BY <2>1, <3>1, <3>3, Zenon
    <3> QED BY <2>1, <2>2, <3>4
  <2> QED BY <2>2, <2>3, <2>4
<1> QED BY <1>1, Inductive, SizesAreCurrent, PTL

-----------------------------------------------------------------------------
(* What a flash that reports no error adds.                                 *)

\* One handle action, whichever it is, leaves everything MountInv speaks of
\* alone, unless it is the one that stops the TEE.
LEMMA HandleCallMount ==
  ASSUME NEW h \in Handle, HandleCall(h)
  PROVE  /\ UNCHANGED <<medium, fs, ready, booting, call>>
         /\ pc = "idle" /\ pc' \in {"idle", "panic"}
<1> DEFINE G == /\ UNCHANGED <<medium, fs, ready, booting, call>>
                /\ pc = "idle" /\ pc' \in {"idle", "panic"}
<1>1. ASSUME NEW p \in Path, Open(p, h) PROVE G
  BY <1>1 DEF Open, Idle
<1>2. ASSUME NEW pos \in 0..MaxLen, NEW d \in Payload, Write(h, pos, d) \/ WriteFails(h, pos, d)
      PROVE  G
  BY <1>2 DEF Write, WriteFails, Idle
<1>3. ASSUME NEW n \in 0..MaxLen, Truncate(h, n) \/ TruncateFails(h, n) PROVE G
  BY <1>3 DEF Truncate, TruncateFails, Idle
<1>4. CASE Close(h) \/ UseStale(h) \/ Remove(h)
  BY <1>4 DEF Close, UseStale, Remove, Idle
<1> QED BY <1>1, <1>2, <1>3, <1>4 DEF HandleCall

LEMMA NextMountInv ==
  ASSUME "io" \notin Fault, MountInv, IndInv, [Next]_vars
  PROVE  MountInv'
<1> USE DEF MountInv, BootPC
<1>0. ReadMayFail <=> ~LfsUp
  BY DEF ReadMayFail, MayFail
<1>1. CASE Boot
  BY <1>1 DEF Boot, HwInit, MountOK, MountFails, FormatBegin, FormatEnd, FormatFails, Remount,
              Mounted, NotMounted
<1>2. CASE CreateStep
  <2>1. UNCHANGED <<medium, fs, ready, booting>>
    BY <1>2 DEF CreateStep, CreateZeroize, CreateMkdir, CreateOpen, CreateFill, CreateUndo,
                CreateClose, CreateReopen, CreateReopenFails
  <2>2. pc \in CreatePC /\ pc' \in CreatePC \cup {"idle"}
    BY <1>2 DEF CreateStep, CreateZeroize, CreateMkdir, CreateOpen, CreateFill, CreateUndo,
                CreateClose, CreateReopen, CreateReopenFails, Return, CreatePC
  <2>3. pc' \in {"c_mkdir", "c_creat"} /\ ~call'.ow =>
           \/ pc = "c_mkdir" /\ call' = call /\ files' = files
           \/ pc = "c_zeroize" /\ call' = call
    BY <1>2 DEF CreateStep, CreateZeroize, CreateMkdir, CreateOpen, CreateFill, CreateUndo,
                CreateClose, CreateReopen, CreateReopenFails, Return
  <2>4. pc = "c_zeroize" => call.ow
    BY DEF IndInv, CreateCallInv, CreatePC
  <2> QED BY <2>1, <2>2, <2>3, <2>4 DEF CreatePC
<1>3. CASE RenameStep
  BY <1>3 DEF RenameStep, RenameZeroize, RenameRemove, RenameMkdir, RenameCommit, Return
<1>4. CASE EraseSector
  BY <1>4 DEF EraseSector, Idle
<1>5. CASE EraseChip
  BY <1>5 DEF EraseChip, Idle
<1>6. CASE Crash
  BY <1>6 DEF Crash
<1>7. ASSUME NEW h \in Handle, HandleCall(h)
      PROVE  MountInv'
  BY <1>7, HandleCallMount
<1>8. ASSUME NEW h \in Handle, NEW p \in Path, NameCall(h, p)
      PROVE  MountInv'
  <2>1. CASE UNCHANGED vars
    BY <2>1 DEF vars
  <2>2. ASSUME NEW ow \in BOOLEAN, NEW pay \in Payload, Create(p, ow, pay, h)
        PROVE  MountInv'
    <3>1. /\ UNCHANGED <<files, medium, fs, ready, booting>> /\ pc = "idle"
          /\ call' = [p |-> p, q |-> p, ow |-> ow, pay |-> pay, h |-> h, lost |-> FALSE]
          /\ \/ ow /\ pc' = "c_zeroize"
             \/ NoConflict(p, ow) /\ pc' = "c_mkdir"
      BY <2>2 DEF Create, BeginCall, Idle
    <3>2. NoConflict(p, ow) => files[p] = Absent
      BY <1>0, <3>1 DEF NoConflict, LfsUp
    <3> QED BY <3>1, <3>2
  <2>3. ASSUME NEW ow \in RenameOverwrite, Rename(h, p, ow)
        PROVE  MountInv'
    <3>1. /\ UNCHANGED <<medium, fs, ready, booting>> /\ pc = "idle"
          /\ pc' \in {"r_zeroize", "r_mkdir"}
      BY <2>3 DEF Rename, BeginCall, Idle
    <3> QED BY <3>1
  <2> QED BY <1>8, <2>1, <2>2, <2>3 DEF NameCall, CreateRefused, RenameRefused
<1>9. CASE UNCHANGED vars
  BY <1>9 DEF vars
<1> QED BY <1>1, <1>2, <1>3, <1>4, <1>5, <1>6, <1>7, <1>8, <1>9 DEF Next

LEMMA MountInvariant ==
  ASSUME "io" \notin Fault
  PROVE  Spec => []MountInv
<1>1. Init => MountInv
  BY DEF Init, MountInv, BootPC
<1>2. MountInv /\ IndInv /\ [Next]_vars => MountInv'
  BY NextMountInv
<1> QED BY <1>1, <1>2, Inductive, PTL DEF Spec

\* If the flash reports no I/O error, a backend that says "ready" is mounted
\* whenever no call is running, whatever the administrator erases.
THEOREM ReadyIsMounted ==
  ASSUME "io" \notin Fault
  PROVE  Spec => []ReadyMeansMounted
<1>1. MountInv => ReadyMeansMounted
  BY DEF MountInv, ReadyMeansMounted, Idle, BootPC
<1> QED BY <1>1, MountInvariant, PTL

\* If the flash reports no I/O error, create without OVERWRITE never truncates
\* an object that exists.
THEOREM CreateIsExclusive ==
  ASSUME "io" \notin Fault
  PROVE  Spec => []CreateExclusive
<1>1. MountInv => CreateExclusive
  BY DEF MountInv, CreateExclusive
<1> QED BY <1>1, MountInvariant, PTL

\* What a flush leaves of LossInv when the flash neither fails nor fills up.
LEMMA SyncLoss ==
  ASSUME TypeOK, LossInv, ~WriteMayFail, NEW h \in Handle, NEW r \in HandleRec, ~r.erred,
         r.link \in {"linked", "renamed"}, SyncIgnored(h, r)
  PROVE  /\ \A p \in Path : silent'[p] \subseteq {"renamed"}
         /\ \A g \in Handle : IsOpen(g)' => ~handles'[g].erred
         /\ files' # files => LfsUp
<1>0. r.po \in Path /\ [r EXCEPT !.dirty = FALSE].erred = r.erred
  BY DEF HandleRec
<1>1. CASE Synced(h, r)
  BY <1>0, <1>1 DEF Synced, LossInv, IsOpen
<1>2. CASE SyncSkipped(h, r)
  BY <1>0, <1>2 DEF SyncSkipped, LossInv, IsOpen
<1> QED BY <1>1, <1>2 DEF SyncIgnored, SyncFails

LEMMA HandleCallLoss ==
  ASSUME MountInv, LossInv, TypeOK, ~WriteMayFail, NEW h \in Handle, HandleCall(h)
  PROVE  LossInv'
<1> DEFINE Silent == \A p \in Path : silent'[p] \subseteq {"renamed"}
           Erred  == \A g \in Handle : IsOpen(g)' => ~handles'[g].erred
<1>1. medium = "valid" /\ medium' = "valid" /\ pc' \notin CreatePC
  BY HandleCallMount DEF MountInv, BootPC, CreatePC
<1>2. ASSUME NEW p \in Path, Open(p, h)
      PROVE  Silent /\ Erred
  <2>1. FreshHandle(p, Len(files[p])).erred = FALSE
    BY DEF FreshHandle
  <2> QED BY <1>2, <2>1 DEF Open, LossInv, IsOpen
<1>3. ASSUME NEW pos \in 0..MaxLen, NEW d \in Payload, Write(h, pos, d)
      PROVE  Silent /\ Erred
  <2> DEFINE r   == handles[h]
             new == WriteAt(r.data, pos, d)
             w   == [r EXCEPT !.data = new, !.size = Len(new), !.dirty = TRUE, !.erred = FALSE]
  <2>1. /\ r \in HandleRec /\ r.data \in Content /\ pos \in Nat /\ d \in Content
        /\ r.link \in {"linked", "renamed"} /\ SyncIgnored(h, w)
    BY <1>3, OpenHandleTyped, PayloadContent, MaxLenAssumption DEF Write, Usable, HandleRec
  <2>2. new \in Content /\ Len(new) \in Nat
    BY <2>1, WriteAtContent, LenContent
  <2>3. w \in HandleRec /\ ~w.erred /\ w.link = r.link
    BY <2>1, <2>2 DEF HandleRec
  <2> HIDE DEF w
  <2> QED BY <2>1, <2>3, SyncLoss
<1>4. ASSUME NEW n \in 0..MaxLen, Truncate(h, n)
      PROVE  Silent /\ Erred
  <2> DEFINE r == handles[h]
             w == [r EXCEPT !.data = Resize(r.data, n), !.size = n, !.dirty = TRUE,
                            !.erred = r.erred /\ n <= Len(r.data)]
  <2>1. /\ r \in HandleRec /\ r.data \in Content /\ n \in Nat /\ ~r.erred
        /\ r.link \in {"linked", "renamed"} /\ SyncIgnored(h, w)
    BY <1>4, OpenHandleTyped, MaxLenAssumption DEF Truncate, Usable, HandleRec, LossInv
  <2>2. Resize(r.data, n) \in Content
    BY <2>1, ResizeContent
  <2>3. w \in HandleRec /\ ~w.erred /\ w.link = r.link
    BY <2>1, <2>2 DEF HandleRec
  <2> HIDE DEF w
  <2> QED BY <2>1, <2>3, SyncLoss
<1>5. ASSUME Close(h) PROVE Silent /\ Erred
  BY <1>5 DEF Close, LossInv, IsOpen
<1>6. ASSUME UseStale(h) PROVE Silent /\ Erred
  BY <1>6 DEF UseStale, LossInv, IsOpen
<1>7. ASSUME Remove(h) PROVE Silent /\ Erred
  <2>1. handles[h] \in HandleRec /\ IsOpen(h) /\ handles[h].po \in Path
    BY <1>7, OpenHandleTyped DEF Remove, Named, HandleRec
  <2>2. [handles[h] EXCEPT !.link = "closing"].erred = handles[h].erred
    BY <2>1 DEF HandleRec
  <2>3. Erred
    BY <1>7, <2>1, <2>2 DEF Remove, LossInv, IsOpen
  <2>4. Silent
    BY <1>7, <2>1 DEF Remove, LossInv, TypeOK
  <2> QED BY <2>3, <2>4
<1>8. Silent /\ Erred
  BY <1>2, <1>3, <1>4, <1>5, <1>6, <1>7 DEF HandleCall, WriteFails, TruncateFails
<1> QED BY <1>1, <1>8 DEF LossInv

LEMMA NextLossInv ==
  ASSUME {"io", "space"} \cap Fault = {}, MountInv, LossInv, IndInv, [Next]_vars
  PROVE  LossInv'
<1>0. /\ WriteMayFail <=> ~LfsUp
      /\ TypeOK /\ "io" \notin Fault
      /\ pc \notin BootPC => medium = "valid" /\ LfsUp
  BY DEF WriteMayFail, MayFail, IndInv, MountInv, LfsUp
<1>1. CASE Boot
  <2>1. pc' \notin CreatePC /\ handles' = handles
    BY <1>1 DEF Boot, HwInit, MountOK, MountFails, FormatBegin, FormatEnd, FormatFails, Remount,
                Mounted, NotMounted, CreatePC
  <2>2. CASE FormatBegin
    BY <1>0, <2>1, <2>2 DEF FormatBegin, LossInv, MountInv, AllAbsent, IsOpen
  <2>3. CASE ~FormatBegin
    <3>1. files' = files /\ silent' = silent /\ (medium' = medium \/ medium' = "valid")
      BY <1>1, <2>3 DEF Boot, HwInit, MountOK, MountFails, FormatEnd, FormatFails, Remount
    <3> QED BY <2>1, <3>1 DEF LossInv, IsOpen, AllAbsent
  <2> QED BY <2>2, <2>3
<1>2. CASE CreateStep
  <2>1. pc \in CreatePC /\ ~call.lost /\ ~WriteMayFail /\ LfsUp /\ medium = "valid"
    BY <1>0, <1>2 DEF CreateStep, CreateZeroize, CreateMkdir, CreateOpen, CreateFill, CreateUndo,
       CreateClose, CreateReopen, CreateReopenFails, CreatePC, BootPC, LossInv
  <2>2. call.p \in Path /\ call.h \in Handle
    BY <2>1 DEF IndInv, CreateCallInv, CallRec
  <2>3. medium' = "valid" /\ (pc' \in CreatePC => call' = call)
    BY <1>2, <2>1 DEF CreateStep, CreateZeroize, CreateMkdir, CreateOpen, CreateFill, CreateUndo,
       CreateClose, CreateReopen, CreateReopenFails, CreatePC, Return
  <2>4. CASE CreateReopen
    <3>1. FreshHandle(call.p, Len(call.pay)).erred = FALSE
      BY DEF FreshHandle
    <3> QED BY <1>0, <2>1, <2>2, <2>3, <2>4, <3>1 DEF CreateReopen, LossInv, IsOpen
  <2>5. CASE ~CreateReopen
    <3>1. handles' = handles /\ silent' = silent
      BY <1>2, <2>5 DEF CreateStep, CreateZeroize, CreateMkdir, CreateOpen, CreateFill,
         CreateUndo, CreateClose, CreateReopenFails
    <3> QED BY <2>1, <2>3, <3>1 DEF LossInv, IsOpen
  <2> QED BY <2>4, <2>5
<1>3. CASE RenameStep
  <2>1. /\ pc \in RenamePC /\ pc \notin BootPC /\ pc' \notin CreatePC /\ medium' = medium
    BY <1>3 DEF RenameStep, RenameZeroize, RenameRemove, RenameMkdir, RenameCommit, Return,
       CreatePC, RenamePC, BootPC
  <2>2. /\ call.p \in Path /\ call.q \in Path /\ call.h \in Handle
        /\ IsOpen(call.h) /\ handles[call.h] \in HandleRec
    BY <1>0, <2>1, OpenHandleTyped DEF IndInv, RenameCallInv, CallRec
  <2>3. CASE UNCHANGED <<handles, silent>>
    BY <1>0, <2>1, <2>3 DEF LossInv, IsOpen
  <2>4. CASE ~UNCHANGED <<handles, silent>>
    <3>1. /\ handles' = [handles EXCEPT ![call.h] = Detached(handles[call.h], call.q)]
          /\ silent' = [silent EXCEPT ![call.q] = silent[call.p], ![call.p] = {}]
      BY <1>3, <2>4 DEF RenameStep, RenameZeroize, RenameRemove, RenameMkdir, RenameCommit
    <3>2. Detached(handles[call.h], call.q).erred = handles[call.h].erred
      BY <2>2, DetachedFacts
    <3>3. \A g \in Handle : IsOpen(g)' => ~handles'[g].erred
      BY <1>0, <2>2, <3>1, <3>2 DEF LossInv, TypeOK, IsOpen
    <3> QED BY <1>0, <2>1, <2>2, <3>1, <3>3 DEF LossInv, TypeOK
  <2> QED BY <2>3, <2>4
<1>4. CASE EraseSector \/ EraseChip
  <2>1. pc' \notin CreatePC /\ handles' \in {handles, Stale(handles)}
    BY <1>4 DEF EraseSector, EraseChip, CreatePC
  <2>2. \A h \in Handle : IsOpen(h)' => ~handles'[h].erred
    <3> SUFFICES ASSUME NEW h \in Handle, handles' = Stale(handles), IsOpen(h)'
                 PROVE  ~handles'[h].erred
      BY <2>1 DEF LossInv, IsOpen
    <3>1. IsOpen(h) /\ handles'[h] = [handles[h] EXCEPT !.link = "stale"]
      BY DEF Stale, IsOpen
    <3>2. handles[h] \in HandleRec
      BY <1>0, <3>1, OpenHandleTyped
    <3>3. handles'[h].erred = handles[h].erred
      BY <3>1, <3>2 DEF HandleRec
    <3> QED BY <3>1, <3>3 DEF LossInv
  <2>3. (medium' # "valid" => files' = AllAbsent) /\ \A p \in Path : silent'[p] \subseteq {"renamed"}
    <3>1. CASE EraseSector
      BY <1>0, <3>1 DEF EraseSector, LossInv, AllAbsent
    <3>2. CASE EraseChip
      BY <1>0, <3>2 DEF EraseChip, BootPC, AllAbsent
    <3> QED BY <1>4, <3>1, <3>2
  <2> QED BY <2>1, <2>2, <2>3 DEF LossInv
<1>5. CASE Crash
  BY <1>5 DEF Crash, LossInv, IsOpen, CreatePC
<1>6. ASSUME NEW h \in Handle, HandleCall(h)
      PROVE  LossInv'
  <2>1. ~WriteMayFail
    BY <1>0, <1>6, HandleCallMount DEF BootPC
  <2> QED BY <1>0, <1>6, <2>1, HandleCallLoss
<1>7. ASSUME NEW h \in Handle, NEW p \in Path, NameCall(h, p)
      PROVE  LossInv'
  <2>1. CASE UNCHANGED vars
    BY <2>1 DEF vars, LossInv, IsOpen
  <2>2. ASSUME NEW ow \in BOOLEAN, NEW pay \in Payload, Create(p, ow, pay, h)
        PROVE  LossInv'
    <3>1. /\ UNCHANGED <<files, medium, handles, silent>>
          /\ call' = [p |-> p, q |-> p, ow |-> ow, pay |-> pay, h |-> h, lost |-> FALSE]
      BY <2>2 DEF Create, BeginCall
    <3> QED BY <3>1 DEF LossInv, IsOpen, AllAbsent
  <2>3. ASSUME NEW ow \in RenameOverwrite, Rename(h, p, ow)
        PROVE  LossInv'
    <3>1. /\ UNCHANGED <<files, medium, handles, silent>> /\ pc' \in RenamePC
      BY <2>3 DEF Rename, BeginCall, RenamePC
    <3> QED BY <3>1 DEF LossInv, IsOpen, RenamePC, CreatePC
  <2> QED BY <1>7, <2>1, <2>2, <2>3 DEF NameCall, CreateRefused, RenameRefused
<1>8. CASE UNCHANGED vars
  BY <1>8 DEF vars, LossInv, IsOpen
<1> QED BY <1>1, <1>2, <1>3, <1>4, <1>5, <1>6, <1>7, <1>8 DEF Next

\* With a flash that neither fails nor fills up, power loss at any step, in any
\* boot, call or erase, loses nothing that was acknowledged, except what was
\* written through a handle after its object was renamed.
THEOREM PowerLossSafe ==
  ASSUME {"io", "space"} \cap Fault = {}
  PROVE  Spec => []AckedSurvivesPowerLoss
<1>0. "io" \notin Fault
  OBVIOUS
<1>1. Init => LossInv
  BY DEF Init, LossInv, IsOpen, CreatePC
<1>2. MountInv /\ LossInv /\ IndInv /\ [Next]_vars => LossInv'
  BY NextLossInv
<1>3. Spec => []MountInv
  BY <1>0, MountInvariant
<1>4. LossInv /\ IndInv => AckedSurvivesPowerLoss
  BY DEF LossInv, IndInv, Accounted, AckedSurvivesPowerLoss
<1> QED BY <1>1, <1>2, <1>3, <1>4, Inductive, PTL DEF Spec

\* Every handler runs to its return in at most six commits, for any number of
\* objects and handles and whatever fails: none waits and none starts over.
THEOREM HandlersEnd == Spec => HandlersAdvance
<1>1. [Next]_vars => [pc \notin {"idle", "panic"} /\ ~Crash => Rank[pc'] < Rank[pc]]_vars
  <2> SUFFICES ASSUME Next, pc \notin {"idle", "panic"}, ~Crash
               PROVE  Rank[pc'] < Rank[pc]
    OBVIOUS
  <2>1. pc # "idle" /\ pc # "panic"
    OBVIOUS
  <2>2. CASE Boot
    BY <2>2 DEF Boot, HwInit, MountOK, MountFails, FormatBegin, FormatEnd, FormatFails, Remount,
                Mounted, NotMounted, Rank
  <2>3. CASE CreateStep
    BY <2>3 DEF CreateStep, CreateZeroize, CreateMkdir, CreateOpen, CreateFill, CreateUndo,
                CreateClose, CreateReopen, CreateReopenFails, Return, Rank
  <2>4. CASE RenameStep
    BY <2>4 DEF RenameStep, RenameZeroize, RenameRemove, RenameMkdir, RenameCommit, Return, Rank
  <2>5. ~(EraseSector \/ EraseChip)
    BY <2>1 DEF EraseSector, EraseChip, Idle
  <2> ~Idle
    BY <2>1 DEF Idle
  <2>6. ASSUME NEW h \in Handle PROVE ~HandleCall(h)
    <3>1. ASSUME NEW p \in Path PROVE ~Open(p, h)
      BY DEF Open
    <3>2. ASSUME NEW pos \in 0..MaxLen, NEW d \in Payload
          PROVE  ~Write(h, pos, d) /\ ~WriteFails(h, pos, d)
      BY DEF Write, WriteFails
    <3>3. ASSUME NEW n \in 0..MaxLen PROVE ~Truncate(h, n) /\ ~TruncateFails(h, n)
      BY DEF Truncate, TruncateFails
    <3>4. ~Close(h) /\ ~UseStale(h) /\ ~Remove(h)
      BY DEF Close, UseStale, Remove
    <3> QED BY <3>1, <3>2, <3>3, <3>4 DEF HandleCall
  <2>7. ASSUME NEW h \in Handle, NEW p \in Path PROVE ~NameCall(h, p)
    <3>1. ASSUME NEW ow \in BOOLEAN, NEW pay \in Payload PROVE ~Create(p, ow, pay, h)
      BY DEF Create
    <3>2. ASSUME NEW ow \in BOOLEAN PROVE ~CreateRefused(p, ow, h)
      BY DEF CreateRefused
    <3>3. ASSUME NEW ow \in RenameOverwrite PROVE ~Rename(h, p, ow) /\ ~RenameRefused(h, p, ow)
      BY DEF Rename, RenameRefused
    <3> QED BY <3>1, <3>2, <3>3 DEF NameCall
  <2> QED BY <2>2, <2>3, <2>4, <2>5, <2>6, <2>7 DEF Next
<1> QED BY <1>1, PTL DEF Spec, HandlersAdvance
=============================================================================
