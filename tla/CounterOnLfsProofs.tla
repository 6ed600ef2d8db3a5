-------------------------- MODULE CounterOnLfsProofs --------------------------
(***************************************************************************)
(* That the counter of the demo TA on the storage backend is the counter   *)
(* of TeeDemoCounter, and so a monotonic counter, for any number of slots  *)
(* and values and any combination of faults.                               *)
(***************************************************************************)
EXTENDS CounterOnLfs, SequenceTheorems, TLAPS

USE LogAssumption, SlotsAssumption, ValueAssumption, UnitAssumption

-----------------------------------------------------------------------------
(* Contents of the object *)

LEMMA SizedSequence ==
  ASSUME NEW n \in Nat \ {0}, NEW c \in [1..n -> Unit]
  PROVE  c \in Seq(Unit) /\ Len(c) = n /\ c # <<>> /\ c # Absent
<1>1. c \in Seq(Unit)
  BY SeqDef
<1>2. Len(c) \in Nat /\ DOMAIN c = 1..Len(c)
  BY <1>1, LenProperties
<1>3. 1..n = 1..Len(c)
  BY <1>2
<1>4. Len(c) = n
  BY <1>2, <1>3
<1> QED BY <1>1, <1>4, AbsentAssumption

LEMMA EmptySequence == <<>> \in Seq(Unit) /\ Len(<<>>) = 0 /\ <<>> # Absent
<1>1. <<>> \in Seq(Unit) /\ Len(<<>>) = 0
  BY EmptySeq
<1> QED BY <1>1, AbsentAssumption

\* Two records that are read are equal if what they hold is.
LEMMA OneUnit ==
  ASSUME NEW a, NEW b
  PROVE  /\ <<a>> # <<>>
         /\ <<a>> = <<b>> => a = b
         /\ <<a>>[1] = a
<1>1. Len(<<a>>) = 1 /\ Len(<<>>) = 0 /\ <<a>>[1] = a /\ <<b>>[1] = b
  OBVIOUS
<1> QED BY <1>1

LEMMA OneSequence ==
  ASSUME NEW t \in Seq(Unit), Len(t) = 1
  PROVE  t = <<t[1]>>
<1>1. t[1] \in Unit
  BY ElementOfSeq
<1>2. <<t[1]>> \in Seq(Unit) /\ Len(<<t[1]>>) = 1 /\ <<t[1]>>[1] = t[1]
  BY <1>1
<1>3. \A i \in 1..1 : t[i] = <<t[1]>>[i]
  BY <1>2
<1> QED BY <1>2, <1>3, SeqEqual

LEMMA ZeroFacts ==
  /\ AllZero \in [1..(Slots + 1) -> Unit]
  /\ Kind(AllZero) = "zeroed"
<1>1. AllZero \in [1..(Slots + 1) -> Unit] /\ AllZero[1] = 0
  BY DEF AllZero, Unit
<1> QED BY <1>1, SizedSequence DEF Kind

LEMMA LogFacts ==
  ASSUME NEW c \in LogContent
  PROVE  /\ c \in [1..(Slots + 1) -> Unit]
         /\ Kind(c) = "log"
         /\ Records(c) \in [Slot -> Nat \cup {Empty}]
         /\ \A s \in Slot : Records(c)[s] = c[s + 1]
<1>1. c \in [1..(Slots + 1) -> Unit] /\ c[1] = HeadUnit
  BY DEF LogContent
<1>2. Kind(c) = "log"
  BY <1>1, SizedSequence DEF Kind
<1> QED BY <1>1, <1>2 DEF LogContent, Records, Slot

LEMMA NoRecords ==
  ASSUME NEW c, Kind(c) # "log"
  PROVE  Records(c) = Counter!AllEmpty
BY DEF Records, Counter!AllEmpty, Counter!Slot, Slot

LEMMA KindOf ==
  ASSUME NEW c \in Object
  PROVE  /\ Kind(c) \in {"absent", "torn", "zeroed", "log"}
         /\ (Kind(c) = "absent") <=> (c = Absent)
         /\ (Kind(c) = "torn") <=> (c = <<>>)
         /\ (Kind(c) = "zeroed") <=> (c = AllZero)
         /\ (Kind(c) = "log") <=> (c \in LogContent)
         /\ c # Absent => c \in Seq(Unit) /\ Len(c) = (IF c = <<>> THEN 0 ELSE Slots + 1)
<1>1. CASE c = Absent
  BY <1>1, ZeroFacts, LogFacts, EmptySequence DEF Kind
<1>2. CASE c = <<>>
  BY <1>2, ZeroFacts, LogFacts, EmptySequence, SizedSequence DEF Kind
<1>3. CASE c = AllZero
  BY <1>3, ZeroFacts, LogFacts, SizedSequence
<1>4. CASE c \in LogContent
  BY <1>4, ZeroFacts, LogFacts, SizedSequence
<1> QED BY <1>1, <1>2, <1>3, <1>4 DEF Object

LEMMA ImageFacts ==
  ASSUME NEW v \in Nat
  PROVE  /\ Image(v) \in LogContent
         /\ Records(Image(v)) = Counter!Fresh(v)
<1>1. /\ Image(v) \in [1..(Slots + 1) -> Unit] /\ Image(v)[1] = HeadUnit
      /\ \A s \in Slot : Image(v)[s + 1] = IF s = 1 THEN v ELSE Empty
  BY DEF Image, Unit, Slot
<1>2. Image(v) \in LogContent
  BY <1>1 DEF LogContent
<1>3. Records(Image(v)) = [s \in Slot |-> IF s = 1 THEN v ELSE Empty]
  BY <1>1, <1>2, LogFacts DEF Records
<1>4. Counter!Fresh(v) = [s \in Slot |-> IF s = 1 THEN v ELSE Empty]
  BY DEF Counter!Fresh, Counter!AllEmpty, Counter!Slot, Slot
<1> QED BY <1>2, <1>3, <1>4

LEMMA ZerosFacts ==
  ASSUME NEW c \in Object \ {Absent}
  PROVE  Lfs!Zeros(c) = IF c = <<>> THEN <<>> ELSE AllZero
<1>1. Len(c) = IF c = <<>> THEN 0 ELSE Slots + 1
  BY KindOf
<1> QED BY <1>1 DEF Lfs!Zeros, AllZero

\* Writing record n + 1 of a log changes that record only.
LEMMA WriteRecord ==
  ASSUME NEW c \in LogContent, NEW n \in 0..(Slots - 1), NEW v \in Nat
  PROVE  /\ Lfs!WriteAt(c, n + 1, <<v>>) \in LogContent
         /\ Records(Lfs!WriteAt(c, n + 1, <<v>>)) = [Records(c) EXCEPT ![n + 1] = v]
<1> DEFINE w == Lfs!WriteAt(c, n + 1, <<v>>)
<1>1. Len(c) = Slots + 1 /\ Len(<<v>>) = 1 /\ <<v>>[1] = v
  BY LogFacts, SizedSequence
<1>2. Lfs!Maximum(Len(c), n + 1 + Len(<<v>>)) = Slots + 1
  BY <1>1 DEF Lfs!Maximum
<1>3. w = [i \in 1..(Slots + 1) |-> IF i = n + 2 THEN v ELSE c[i]]
  <2>1. \A i \in 1..(Slots + 1) : /\ i \in (n + 1 + 1)..(n + 1 + Len(<<v>>)) <=> i = n + 2
                                  /\ i = n + 2 => i - (n + 1) = 1
    BY <1>1
  <2> QED BY <1>1, <1>2, <2>1 DEF Lfs!WriteAt
<1>4. w \in LogContent
  BY <1>3 DEF LogContent, Slot, Unit
<1>5. \A s \in Slot : Records(w)[s] = IF s = n + 1 THEN v ELSE Records(c)[s]
  BY <1>3, <1>4, LogFacts DEF Slot
<1> HIDE DEF w
<1>6. Records(w) \in [Slot -> Nat \cup {Empty}] /\ Records(c) \in [Slot -> Nat \cup {Empty}]
  BY <1>4, LogFacts
<1> QED BY <1>4, <1>5, <1>6 DEF w, Slot

\* What the core and the TA read through a handle that has just been opened.
LEMMA ReadFacts ==
  ASSUME files[Log] \in Object \ {Absent}, Opened
  PROVE  /\ files[Log] = <<>> => Read(0) = <<>>
         /\ files[Log] # <<>> => \A s \in 0..Slots : Read(s) = <<files[Log][s + 1]>>
<1> DEFINE c == files[Log]
<1>1. /\ handles[H].data = c /\ handles[H].size = IF c = <<>> THEN 0 ELSE Slots + 1
  BY DEF Opened, Lfs!FreshHandle
<1>2. CASE c = <<>>
  BY <1>1, <1>2 DEF Read, Lfs!ReadBytes
<1>3. CASE c # <<>>
  <2> SUFFICES ASSUME NEW s \in 0..Slots PROVE Read(s) = <<c[s + 1]>>
    BY <1>3
  <2>1. c \in Seq(Unit) /\ Len(c) = Slots + 1
    BY <1>3, KindOf
  <2>2. Lfs!Minimum(Len(c), s + Lfs!Minimum(1, Slots + 1 - s)) = s + 1
    BY <2>1 DEF Lfs!Minimum
  <2>3. Read(s) = SubSeq(c, s + 1, s + 1)
    BY <1>1, <1>3, <2>2 DEF Read, Lfs!ReadBytes
  <2>4. s + 1 \in 1..Len(c) /\ c[s + 1] \in Unit
    BY <2>1, ElementOfSeq
  <2>5. /\ SubSeq(c, s + 1, s + 1) \in Seq(Unit)
        /\ Len(SubSeq(c, s + 1, s + 1)) = 1
        /\ SubSeq(c, s + 1, s + 1)[1] = c[s + 1]
    <3>1. \A i \in (s + 1)..(s + 1) : c[i] \in Unit
      BY <2>4
    <3>2. s + 1 \in Int /\ s + 1 <= s + 1 /\ (s + 1) - (s + 1) + 1 = 1 /\ s + 1 + 1 - 1 = s + 1
      OBVIOUS
    <3> QED BY <3>1, <3>2, SubSeqProperties, 1 \in 1..1
  <2> QED BY <2>3, <2>5, OneSequence
<1> QED BY <1>2, <1>3

LEMMA HeadFacts ==
  ASSUME files[Log] \in Object \ {Absent}, Opened
  PROVE  /\ HasHead <=> Kind(files[Log]) = "log"
         /\ Read(0) = <<>> <=> files[Log] = <<>>
         /\ HasHead => \A s \in Slot : Record(s) = Records(files[Log])[s]
<1>1. CASE files[Log] = <<>>
  BY <1>1, ReadFacts, KindOf DEF HasHead
<1>2. CASE files[Log] = AllZero
  <2>1. Read(0) = <<0>> /\ files[Log] # <<>> /\ Kind(files[Log]) = "zeroed"
    BY <1>2, ReadFacts, ZeroFacts, KindOf DEF AllZero
  <2>2. <<0>> # <<>> /\ <<0>> # <<HeadUnit>>
    <3>1. 0 # HeadUnit
      OBVIOUS
    <3> QED BY <3>1, OneUnit
  <2>3. Read(0) # <<>> /\ ~HasHead
    BY <2>1, <2>2 DEF HasHead
  <2> QED BY <2>1, <2>3
<1>3. CASE files[Log] \in LogContent
  <2>1. /\ files[Log] # <<>> /\ Kind(files[Log]) = "log"
        /\ \A s \in 0..Slots : Read(s) = <<files[Log][s + 1]>>
    BY <1>3, ReadFacts, KindOf, LogFacts
  <2>2. Read(0) = <<HeadUnit>>
    BY <1>3, <2>1 DEF LogContent
  <2>3. \A s \in Slot : Record(s) = files[Log][s + 1]
    BY <2>1, OneUnit DEF Record, Slot
  <2> QED BY <1>3, <2>1, <2>2, <2>3, LogFacts, OneUnit DEF HasHead
<1> QED BY <1>1, <1>2, <1>3 DEF Object

-----------------------------------------------------------------------------
(* What the calls of the backend do to the object and its handle *)

LEMMA OpenRecFacts ==
  ASSUME NEW r \in OpenRec
  PROVE  r # Closed /\ r.data \in Object \ {Absent} /\ r.po = Log
<1>1. r.data \in Seq(Unit)
  BY KindOf DEF OpenRec
<1>2. r \in Lfs!HandleRec
  BY <1>1 DEF OpenRec, Lfs!HandleRec, Lfs!Content
<1> QED BY <1>2, ClosedAssumption DEF OpenRec

LEMMA OpenEffect ==
  ASSUME IndInv, Lfs!Open(Log, H)
  PROVE  /\ pc = "idle" /\ ready
         /\ UNCHANGED <<files, medium, fs, ready, booting, pc, call>>
         /\ files[Log] # Absent
         /\ handles' \in [Handle -> OpenRec \cup {Closed}]
         /\ handles'[H] # Closed /\ ~handles'[H].dirty
         /\ Opened'
<1>1. /\ pc = "idle" /\ ready /\ files[Log] # Absent
      /\ UNCHANGED <<files, medium, fs, ready, booting, pc, call>>
      /\ handles' = [handles EXCEPT ![H] = Lfs!FreshHandle(Log, Len(files[Log]))]
  BY DEF Lfs!Open, Lfs!Idle
<1>2. files[Log] \in Object /\ handles \in [Handle -> OpenRec \cup {Closed}]
  BY DEF IndInv, TypeOK
<1>3. Len(files[Log]) = IF files[Log] = <<>> THEN 0 ELSE Slots + 1
  BY <1>1, <1>2, KindOf
<1>4. Lfs!FreshHandle(Log, Len(files[Log])) \in OpenRec
  BY <1>1, <1>2, <1>3 DEF OpenRec, Lfs!FreshHandle
<1>5. handles'[H] = Lfs!FreshHandle(Log, Len(files[Log]))
  BY <1>1, <1>2
<1>6. handles'[H] # Closed /\ ~handles'[H].dirty
  <2>1. handles'[H] # Closed
    BY <1>4, <1>5, OpenRecFacts
  <2>2. Lfs!FreshHandle(Log, Len(files[Log])).dirty = FALSE
    BY DEF Lfs!FreshHandle
  <2> QED BY <1>5, <2>1, <2>2
<1>7. Opened'
  BY <1>1, <1>3, <1>5 DEF Opened, Lfs!FreshHandle
<1> QED BY <1>1, <1>2, <1>4, <1>6, <1>7

LEMMA CloseEffect ==
  ASSUME IndInv, Lfs!Close(H)
  PROVE  /\ pc = "idle"
         /\ UNCHANGED <<files, medium, fs, ready, booting, pc, call>>
         /\ handles' \in [Handle -> OpenRec \cup {Closed}]
         /\ handles'[H] = Closed
<1>1. handles \in [Handle -> OpenRec \cup {Closed}] /\ handles[H] # Closed
  BY DEF IndInv, TypeOK, Lfs!Close, Lfs!IsOpen
<1>2. ~handles[H].dirty \/ handles[H].erred \/ handles[H].link = "closing"
  BY <1>1 DEF IndInv, HandleInv
<1>3. UNCHANGED files
  BY <1>2 DEF Lfs!Close
<1> QED BY <1>1, <1>3 DEF Lfs!Close, Lfs!Idle

LEMMA RemoveEffect ==
  ASSUME IndInv, Lfs!Remove(H)
  PROVE  /\ pc = "idle"
         /\ UNCHANGED <<medium, fs, ready, booting, pc, call>>
         /\ files' \in [Path -> Object]
         /\ files'[Log] \in {files[Log], Absent}
         /\ handles' \in [Handle -> OpenRec \cup {Closed}]
         /\ handles'[H] # Closed /\ handles'[H].link = "closing"
<1>1. handles \in [Handle -> OpenRec \cup {Closed}] /\ handles[H] # Closed
  BY DEF IndInv, TypeOK, Lfs!Remove, Lfs!Named, Lfs!IsOpen
<1>2. handles[H] \in OpenRec /\ handles[H].po = Log
  BY <1>1, OpenRecFacts
<1>3. [handles[H] EXCEPT !.link = "closing"] \in OpenRec
  BY <1>2 DEF OpenRec
<1>4. /\ handles' = [handles EXCEPT ![H] = [handles[H] EXCEPT !.link = "closing"]]
      /\ pc = "idle" /\ UNCHANGED <<medium, fs, ready, booting, pc, call>>
      /\ files' = [files EXCEPT ![Log] = Absent] \/ UNCHANGED files
  <2>1. handles[H].link # "stale"
    BY <1>2 DEF OpenRec
  <2> QED
    BY <1>2, <2>1 DEF Lfs!Remove, Lfs!Idle
<1>5. handles'[H] = [handles[H] EXCEPT !.link = "closing"]
  BY <1>1, <1>4
<1>6. handles'[H] # Closed /\ handles'[H].link = "closing"
  BY <1>2, <1>3, <1>5, OpenRecFacts DEF OpenRec
<1>7. files \in [Path -> Object] /\ Absent \in Object
  BY DEF IndInv, TypeOK, Object
<1>8. files' \in [Path -> Object] /\ files'[Log] \in {files[Log], Absent}
  BY <1>4, <1>7
<1> QED BY <1>1, <1>3, <1>4, <1>6, <1>8

\* While a command has the backend at its service nothing fails by itself.
LEMMA FailuresAreFaults ==
  ASSUME IndInv, ready
  PROVE  /\ Lfs!LfsUp
         /\ Lfs!ReadMayFail => "io" \in Fault
         /\ Lfs!WriteMayFail => Fault # {}
BY DEF IndInv, BootInv, Lfs!ReadMayFail, Lfs!WriteMayFail, Lfs!MayFail

\* The state in which a record is appended.
LEMMA AppendingFacts ==
  ASSUME IndInv, at = "appending", HasHead
  PROVE  /\ files[Log] \in LogContent /\ Kind(files[Log]) = "log"
         /\ handles[H] \in OpenRec
         /\ handles[H].data = files[Log] /\ handles[H].po = Log
         /\ handles[H].link = "linked" /\ ~handles[H].erred
         /\ next \in 0..(Slots - 1) /\ value + 1 \in Nat /\ cmd = "inc" /\ ready
<1>1. handles[H] # Closed /\ Opened
  BY DEF IndInv, HandleInv
<1>2. handles[H] \in OpenRec
  BY <1>1 DEF IndInv, TypeOK
<1>3. /\ handles[H].data = files[Log] /\ handles[H].link = "linked" /\ ~handles[H].erred
  BY <1>1 DEF Opened, Lfs!FreshHandle
<1>4. files[Log] \in Object \ {Absent} /\ handles[H].po = Log
  BY <1>2, <1>3, OpenRecFacts
<1>5. Kind(files[Log]) = "log" /\ files[Log] \in LogContent
  BY <1>1, <1>4, HeadFacts, KindOf
<1>6. next \in 0..(Slots - 1) /\ value + 1 \in Nat /\ cmd = "inc" /\ ready
  BY DEF IndInv, TypeOK, StageInv
<1> QED BY <1>2, <1>3, <1>4, <1>5, <1>6

LEMMA WriteEffect ==
  ASSUME IndInv, at = "appending", HasHead, Lfs!Write(H, next + 1, <<value + 1>>)
  PROVE  /\ pc = "idle"
         /\ UNCHANGED <<medium, fs, ready, booting, pc, call>>
         /\ files' \in [Path -> Object]
         /\ handles' \in [Handle -> OpenRec \cup {Closed}]
         /\ handles'[H] # Closed
         /\ ~handles'[H].dirty \/ handles'[H].erred
         /\ files[Log] # Absent /\ files'[Log] # Absent
         /\ \/ /\ files'[Log] = handles'[H].data
               /\ Kind(files'[Log]) = "log"
               /\ Records(files'[Log]) = [Records(files[Log]) EXCEPT ![next + 1] = value + 1]
            \/ files'[Log] # handles'[H].data /\ UNCHANGED files /\ Fault # {}
<1> DEFINE w == Lfs!WriteAt(handles[H].data, next + 1, <<value + 1>>)
           r == [handles[H] EXCEPT !.data = w, !.size = Len(w), !.dirty = TRUE, !.erred = FALSE]
<1>1. /\ files[Log] \in LogContent /\ handles[H] \in OpenRec
      /\ handles[H].data = files[Log] /\ handles[H].po = Log /\ handles[H].link = "linked"
      /\ next \in 0..(Slots - 1) /\ value + 1 \in Nat /\ ready
  BY AppendingFacts
<1>2. w \in LogContent /\ Records(w) = [Records(files[Log]) EXCEPT ![next + 1] = value + 1]
  BY <1>1, WriteRecord
<1> HIDE DEF w
<1>3. Kind(w) = "log" /\ w \in Object \ {Absent} /\ Len(w) \in Nat
  BY <1>2, LogFacts, SizedSequence DEF Object
<1> USE DEF w
<1>4. /\ pc = "idle" /\ UNCHANGED <<medium, fs, ready, booting, pc, call>>
      /\ Lfs!Synced(H, r) \/ Lfs!SyncFails(H, r) \/ Lfs!SyncSkipped(H, r)
  BY DEF Lfs!Write, Lfs!Idle, Lfs!SyncIgnored
<1> HIDE DEF w
<1>5. /\ r \in OpenRec /\ r.po = Log /\ r.data = w /\ r.link = "linked" /\ ~r.erred
      /\ [r EXCEPT !.dirty = FALSE] \in OpenRec /\ [r EXCEPT !.erred = TRUE] \in OpenRec
      /\ [r EXCEPT !.dirty = FALSE].data = w /\ ~[r EXCEPT !.dirty = FALSE].dirty
      /\ [r EXCEPT !.erred = TRUE].data = w /\ [r EXCEPT !.erred = TRUE].erred
  BY <1>1, <1>3 DEF OpenRec
<1>6. files \in [Path -> Object] /\ handles \in [Handle -> OpenRec \cup {Closed}]
  BY DEF IndInv, TypeOK
<1>7. files[Log] # Absent
  BY <1>1, LogFacts, SizedSequence
<1> HIDE DEF r
<1>8. CASE Lfs!Synced(H, r)
  <2>1. files' = [files EXCEPT ![Log] = w] /\ handles' = [handles EXCEPT ![H] = [r EXCEPT !.dirty = FALSE]]
    BY <1>5, <1>8 DEF Lfs!Synced
  <2>2. files'[Log] = w /\ handles'[H] = [r EXCEPT !.dirty = FALSE]
    BY <1>6, <2>1
  <2>3. files' \in [Path -> Object] /\ handles' \in [Handle -> OpenRec \cup {Closed}]
    BY <1>3, <1>5, <1>6, <2>1
  <2>4. handles'[H] # Closed
    BY <1>5, <2>2, OpenRecFacts
  <2> QED BY <1>2, <1>3, <1>4, <1>5, <1>7, <2>2, <2>3, <2>4
<1>9. CASE Lfs!SyncFails(H, r)
  <2>1. UNCHANGED files /\ handles' = [handles EXCEPT ![H] = [r EXCEPT !.erred = TRUE]]
        /\ Fault # {}
    BY <1>1, <1>9, FailuresAreFaults DEF Lfs!SyncFails
  <2>2. handles'[H] = [r EXCEPT !.erred = TRUE]
    BY <1>6, <2>1
  <2>3. handles' \in [Handle -> OpenRec \cup {Closed}]
    BY <1>5, <1>6, <2>1
  <2>4. handles'[H] # Closed
    BY <1>5, <2>2, OpenRecFacts
  <2>5. CASE files[Log] = w
    BY <1>2, <1>3, <1>4, <1>5, <1>6, <1>7, <2>1, <2>2, <2>3, <2>4, <2>5
  <2>6. CASE files[Log] # w
    BY <1>4, <1>5, <1>6, <1>7, <2>1, <2>2, <2>3, <2>4, <2>6
  <2> QED BY <2>5, <2>6
<1>10. CASE Lfs!SyncSkipped(H, r)
  BY <1>5, <1>10 DEF Lfs!SyncSkipped
<1> QED BY <1>4, <1>8, <1>9, <1>10

LEMMA WriteFailsEffect ==
  ASSUME IndInv, at = "appending", HasHead, Lfs!WriteFails(H, next + 1, <<value + 1>>)
  PROVE  /\ pc = "idle" /\ Fault # {}
         /\ UNCHANGED <<files, medium, fs, ready, booting, pc, call>>
         /\ handles' \in [Handle -> OpenRec \cup {Closed}]
         /\ handles'[H] # Closed /\ handles'[H].erred
<1>1. /\ files[Log] \in LogContent /\ handles[H] \in OpenRec /\ handles[H].data = files[Log]
      /\ next \in 0..(Slots - 1) /\ value + 1 \in Nat /\ ready
  BY AppendingFacts
<1>2. Lfs!WriteAt(handles[H].data, next + 1, <<value + 1>>) \in LogContent
  BY <1>1, WriteRecord
<1>3. \A c \in LogContent : c \in Object \ {Absent}
  BY LogFacts, SizedSequence DEF Object
<1>4. PICK d \in Object \ {Absent} :
         handles' = [handles EXCEPT ![H] =
                       [handles[H] EXCEPT !.data = d, !.dirty = TRUE, !.erred = TRUE]]
  BY <1>1, <1>2, <1>3 DEF Lfs!WriteFails
<1> DEFINE r == [handles[H] EXCEPT !.data = d, !.dirty = TRUE, !.erred = TRUE]
<1>5. r \in OpenRec /\ r.erred
  BY <1>1 DEF OpenRec
<1> HIDE DEF r
<1>6. handles \in [Handle -> OpenRec \cup {Closed}] /\ handles' = [handles EXCEPT ![H] = r]
  BY <1>4 DEF IndInv, TypeOK, r
<1>7. handles'[H] = r /\ handles' \in [Handle -> OpenRec \cup {Closed}]
  BY <1>5, <1>6
<1>8. Fault # {} /\ pc = "idle" /\ UNCHANGED <<files, medium, fs, ready, booting, pc, call>>
  BY <1>1, FailuresAreFaults DEF Lfs!WriteFails, Lfs!Idle
<1> QED BY <1>5, <1>7, <1>8, OpenRecFacts

\* The end of a create that succeeds
LEMMA ReopenEffect ==
  ASSUME IndInv, at = "creating", Lfs!CreateReopen
  PROVE  /\ pc = "c_reopen" /\ pc' = "idle"
         /\ UNCHANGED <<files, medium, fs, ready, booting>>
         /\ handles' \in [Handle -> OpenRec \cup {Closed}]
         /\ handles'[H] # Closed /\ ~handles'[H].dirty
<1> DEFINE r == Lfs!FreshHandle(Log, Slots + 1)
<1>1. /\ call.p = Log /\ call.h = H /\ Len(call.pay) = Slots + 1
      /\ files \in [Path -> Object] /\ handles \in [Handle -> OpenRec \cup {Closed}]
  BY ImageFacts, LogFacts, SizedSequence DEF IndInv, TypeOK, CreateInv
<1>2. /\ handles' = [handles EXCEPT ![H] = r] /\ files[Log] # Absent
      /\ pc = "c_reopen" /\ pc' = "idle" /\ UNCHANGED <<files, medium, fs, ready, booting>>
  BY <1>1 DEF Lfs!CreateReopen, Lfs!Return
<1>3. r \in OpenRec /\ ~r.dirty
  BY <1>1, <1>2 DEF OpenRec, Lfs!FreshHandle
<1> HIDE DEF r
<1>4. handles'[H] = r /\ handles' \in [Handle -> OpenRec \cup {Closed}]
  BY <1>1, <1>2, <1>3
<1> QED BY <1>2, <1>3, <1>4, OpenRecFacts

\* The outcomes of a create's commits.
LEMMA CreateEffect ==
  ASSUME IndInv, at = "creating", Lfs!CreateStep
  PROVE  /\ UNCHANGED <<medium, fs, ready, booting>>
         /\ files' \in [Path -> Object]
         /\ handles' \in [Handle -> OpenRec \cup {Closed}]
         /\ pc = "c_zeroize" =>
              /\ pc' = "c_mkdir" /\ UNCHANGED <<handles, call>>
              /\ \/ files[Log] # Absent /\ files'[Log] = Lfs!Zeros(files[Log])
                 \/ (files[Log] \in {Absent, <<>>} \/ Fault # {}) /\ UNCHANGED files
         /\ pc = "c_mkdir" =>
              /\ UNCHANGED <<files, handles>>
              /\ (pc' = "c_creat" /\ UNCHANGED call) \/ (pc' = "idle" /\ Fault # {})
         /\ pc = "c_creat" =>
              /\ UNCHANGED handles
              /\ \/ /\ pc' = "c_fill" /\ UNCHANGED call
                    /\ files'[Log] = IF files[Log] = Absent THEN <<>> ELSE files[Log]
                 \/ pc' = "idle" /\ Fault # {} /\ UNCHANGED files
         /\ pc = "c_fill" =>
              /\ UNCHANGED <<files, handles, call>>
              /\ pc' = "c_close" \/ (pc' = "c_undo" /\ Fault # {})
         /\ pc = "c_undo" =>
              /\ UNCHANGED handles /\ pc' = "idle" /\ Fault # {}
              /\ files'[Log] \in {files[Log], Absent}
         /\ pc = "c_close" =>
              /\ UNCHANGED handles /\ pc' = "c_reopen"
              /\ \/ files'[Log] = Image(new) /\ UNCHANGED call
                 \/ /\ UNCHANGED files /\ call' = [call EXCEPT !.lost = TRUE]
                    /\ Fault # {}
         /\ pc = "c_reopen" =>
              /\ UNCHANGED files /\ pc' = "idle"
              /\ \/ handles'[H] # Closed /\ ~handles'[H].dirty
                 \/ UNCHANGED handles /\ Fault # {}
<1>1. /\ ready /\ files \in [Path -> Object]
      /\ handles \in [Handle -> OpenRec \cup {Closed}]
      /\ call.p = Log /\ call.pay = Image(new) /\ call.h = H
      /\ pc = "c_undo" => Fault # {}
  BY DEF IndInv, TypeOK, StageInv, CreateInv
<1>2. Lfs!LfsUp /\ (Lfs!WriteMayFail => Fault # {}) /\ (Lfs!ReadMayFail => Fault # {})
  BY <1>1, FailuresAreFaults
<1>3. Image(new) \in LogContent /\ Image(new) # <<>> /\ Len(Image(new)) = Slots + 1
  BY ImageFacts, LogFacts, SizedSequence DEF IndInv, TypeOK
<1>4. {Absent, <<>>, AllZero, Image(new)} \subseteq Object /\ <<>> # Absent /\ Image(new) # Absent
  BY <1>3, EmptySequence, LogFacts, SizedSequence DEF Object
<1>5. CASE Lfs!CreateZeroize
  <2>1. files[Log] # Absent => Lfs!Zeros(files[Log]) \in Object
    BY <1>1, <1>4, ZerosFacts
  <2> QED BY <1>1, <1>2, <1>5, <2>1 DEF Lfs!CreateZeroize, Lfs!Zeroize
<1>6. CASE Lfs!CreateMkdir
  <2>1. "mem" \in Fault => Fault # {}
    OBVIOUS
  <2> QED BY <1>1, <1>2, <1>6, <2>1 DEF Lfs!CreateMkdir, Lfs!Return
<1>7. CASE Lfs!CreateOpen
  BY <1>1, <1>2, <1>3, <1>4, <1>7 DEF Lfs!CreateOpen, Lfs!Return
<1>8. CASE Lfs!CreateFill
  BY <1>1, <1>2, <1>8 DEF Lfs!CreateFill
<1>9. CASE Lfs!CreateUndo
  BY <1>1, <1>2, <1>4, <1>9 DEF Lfs!CreateUndo, Lfs!Return
<1>10. CASE Lfs!CreateClose
  BY <1>1, <1>2, <1>4, <1>10 DEF Lfs!CreateClose
<1>11. CASE Lfs!CreateReopen
  BY <1>1, <1>11, ReopenEffect
<1>12. CASE Lfs!CreateReopenFails
  BY <1>1, <1>2, <1>12 DEF Lfs!CreateReopenFails, Lfs!Return
<1> QED BY <1>5, <1>6, <1>7, <1>8, <1>9, <1>10, <1>11, <1>12 DEF Lfs!CreateStep

LEMMA BootEffect ==
  ASSUME IndInv, Lfs!Boot
  PROVE  /\ at = "idle" /\ ~loaded /\ UNCHANGED <<handles, call>>
         /\ pc' \in Lfs!BootPC \cup {"idle"}
         /\ ready' \in BOOLEAN /\ (pc' \in Lfs!BootPC => ~ready')
         /\ files' \in [Path -> Object]
         /\ \/ UNCHANGED files
            \/ files'[Log] = Absent /\ (files[Log] # Absent => Fault # {})
         /\ BootInv'
<1>1. /\ pc \in Lfs!BootPC => at = "idle" /\ ~ready /\ ~loaded /\ booting
      /\ ready \in BOOLEAN /\ files \in [Path -> Object] /\ BootInv /\ Absent \in Object
  BY DEF IndInv, TypeOK, StageInv, BootInv, Object
<1>2. {"hwinit", "mount", "format", "superblock", "remount"} = Lfs!BootPC
  BY DEF Lfs!BootPC
<1>3. CASE Lfs!HwInit
  BY <1>1, <1>2, <1>3 DEF Lfs!HwInit, BootInv, Lfs!LfsUp
<1>4. CASE Lfs!MountOK
  BY <1>1, <1>2, <1>4 DEF Lfs!MountOK, Lfs!Mounted, BootInv, Lfs!LfsUp
<1>5. CASE Lfs!MountFails
  BY <1>1, <1>2, <1>5 DEF Lfs!MountFails, BootInv, Lfs!LfsUp
<1>6. CASE Lfs!FormatBegin
  <2>1. files' = Lfs!AllAbsent /\ medium' = "corrupt" /\ pc = "format" /\ pc' = "superblock"
        /\ UNCHANGED <<ready, booting, handles, call>>
    BY <1>6 DEF Lfs!FormatBegin
  <2>2. files' \in [Path -> Object] /\ files'[Log] = Absent
    BY <1>1, <2>1 DEF Lfs!AllAbsent
  <2>3. files[Log] # Absent => Fault # {}
    BY <1>1, <2>1 DEF BootInv
  <2> QED BY <1>1, <1>2, <2>1, <2>2, <2>3 DEF BootInv, Lfs!LfsUp
<1>7. CASE Lfs!FormatEnd
  BY <1>1, <1>2, <1>7 DEF Lfs!FormatEnd, BootInv, Lfs!LfsUp
<1>8. CASE Lfs!FormatFails
  BY <1>1, <1>2, <1>8 DEF Lfs!FormatFails, Lfs!NotMounted, BootInv, Lfs!LfsUp
<1>9. CASE Lfs!Remount
  <2>1. /\ pc = "remount" /\ medium = "valid" /\ pc' = "idle"
        /\ UNCHANGED <<files, medium, handles, call>>
    BY <1>1, <1>9 DEF Lfs!Remount, Lfs!Mounted, Lfs!NotMounted, BootInv
  <2>2. \/ fs' = "mounted" /\ ready' = TRUE
        \/ "io" \in Fault /\ ready' = FALSE
    BY <1>1, <1>2, <1>9 DEF Lfs!Remount, Lfs!Mounted, Lfs!NotMounted
  <2> QED BY <1>1, <1>2, <2>1, <2>2 DEF BootInv, Lfs!LfsUp
<1> QED BY <1>3, <1>4, <1>5, <1>6, <1>7, <1>8, <1>9 DEF Lfs!Boot

-----------------------------------------------------------------------------
(* The invariant *)

\* A file system that serves calls keeps serving them.
LEMMA ServingFrame ==
  ASSUME IndInv, ready, UNCHANGED <<medium, fs, ready, booting>>,
         pc' \in Lfs!CreatePC \cup {"idle"}
  PROVE  BootInv'
<1>1. Lfs!LfsUp /\ medium = "valid"
  BY DEF IndInv, BootInv, Lfs!LfsUp
<1>2. pc' \notin Lfs!BootPC /\ pc' \notin {"format", "remount"}
  BY DEF Lfs!CreatePC, Lfs!BootPC
<1> QED BY <1>1, <1>2 DEF BootInv, Lfs!LfsUp

LEMMA StillFrame ==
  ASSUME BootInv, UNCHANGED <<files, medium, fs, ready, booting, pc>>
  PROVE  BootInv'
BY DEF BootInv, Lfs!LfsUp

\* Steps that leave the backend alone.
LEMMA QuietIndInv ==
  ASSUME IndInv,
         \/ \E c \in {"read", "inc"} : Begin(c)
         \/ OpenFails \/ ScanAbsent \/ ServeRead \/ Compact \/ NoMemory \/ Reply
         \/ SessionEnds
  PROVE  IndInv'
<1>1. /\ UNCHANGED lfs
      /\ UNCHANGED cache \/ (ClearCache /\ at = "idle" /\ at' = "idle")
      /\ \/ at = "idle" /\ at' = "serve" /\ loaded /\ loaded' /\ Lfs!Idle
         \/ at = "idle" /\ at' = "scan" /\ Lfs!Idle
         \/ at = "idle" /\ at' = "idle" /\ ClearCache
         \/ at \in {"scan", "serve", "create", "reply"} /\ at' = "idle"
         \/ at \in {"scan", "serve"} /\ at' = "create" /\ ready
      /\ cmd' \in {"read", "inc"} /\ new' \in Nat /\ resume' \in {"serve", "reply"}
      /\ intact' \in BOOLEAN
  BY DEF IndInv, TypeOK, StageInv, Begin, OpenFails, Opening, ScanAbsent, ServeRead, Compact,
         NoMemory, Reply, SessionEnds, Goto, Report, NewLog, cache, creation, told
<1>2. /\ UNCHANGED <<files, handles, pc, call, ready, medium, fs, booting>>
  BY <1>1 DEF lfs
<1>3. loaded' \in BOOLEAN /\ value' \in Nat /\ next' \in 0..Slots /\ (loaded' => loaded)
  <2>1. CASE UNCHANGED cache
    <3>1. loaded' = loaded /\ value' = value /\ next' = next
      BY <2>1 DEF cache
    <3> QED BY <3>1 DEF IndInv, TypeOK
  <2>2. CASE ClearCache
    <3>1. loaded' = FALSE /\ value' = 0 /\ next' = 0
      BY <2>2 DEF ClearCache
    <3>2. 0 \in 0..Slots
      OBVIOUS
    <3> QED BY <3>1, <3>2
  <2> QED BY <1>1, <2>1, <2>2
<1>4. TypeOK'
  BY <1>1, <1>2, <1>3 DEF IndInv, TypeOK, Stage
<1>5. StageInv'
  BY <1>1, <1>2, <1>3 DEF IndInv, TypeOK, StageInv, ClearCache, Lfs!Idle, Lfs!BootPC
<1>6. HandleInv' /\ CreateInv'
  BY <1>1, <1>2 DEF IndInv, TypeOK, HandleInv, CreateInv
<1>7. BootInv'
  BY <1>2, StillFrame DEF IndInv
<1> QED BY <1>4, <1>5, <1>6, <1>7 DEF IndInv

LEMMA OpenIndInv == ASSUME IndInv, OpenLog PROVE IndInv'
<1>1. /\ pc = "idle" /\ ready
      /\ UNCHANGED <<files, medium, fs, ready, booting, pc, call>>
      /\ handles' \in [Handle -> OpenRec \cup {Closed}]
      /\ handles'[H] # Closed /\ ~handles'[H].dirty /\ Opened'
  BY OpenEffect DEF OpenLog
<1>2. /\ at' = IF at = "scan" THEN "scanning" ELSE "appending"
      /\ at = "scan" \/ (at = "serve" /\ cmd = "inc" /\ next < Slots)
      /\ UNCHANGED <<loaded, value, next, cmd, new, resume, intact>>
  BY DEF OpenLog, Opening, Goto, cache, creation
<1>3. TypeOK' /\ StageInv'
  BY <1>1, <1>2 DEF IndInv, TypeOK, StageInv, Stage, Lfs!BootPC, Lfs!CreatePC
<1>4. HandleInv' /\ CreateInv'
  BY <1>1, <1>2 DEF HandleInv, CreateInv
<1>5. BootInv'
  BY <1>1, StillFrame DEF IndInv
<1> QED BY <1>3, <1>4, <1>5 DEF IndInv

LEMMA ClosingIndInv ==
  ASSUME IndInv, Lfs!Close(H), at' \in {"idle", "serve", "reply"}, ready,
         loaded' \in BOOLEAN, value' \in Nat, next' \in 0..Slots, intact' \in BOOLEAN,
         at' = "serve" => loaded',
         UNCHANGED <<cmd, creation>>
  PROVE  IndInv'
<1>1. /\ pc = "idle" /\ handles'[H] = Closed
      /\ UNCHANGED <<files, medium, fs, ready, booting, pc, call>>
      /\ handles' \in [Handle -> OpenRec \cup {Closed}]
  BY CloseEffect
<1>2. TypeOK' /\ StageInv'
  BY <1>1 DEF IndInv, TypeOK, StageInv, Stage, creation, Lfs!BootPC
<1>3. HandleInv' /\ CreateInv'
  BY <1>1 DEF HandleInv, CreateInv
<1>4. BootInv'
  BY <1>1, StillFrame DEF IndInv
<1> QED BY <1>2, <1>3, <1>4 DEF IndInv

\* A record that has been read is a value.
LEMMA ScanFacts ==
  ASSUME IndInv, at = "scanning", HasHead
  PROVE  /\ Kind(files[Log]) = "log"
         /\ \A s \in Slot : Record(s) = Records(files[Log])[s]
         /\ Records(files[Log]) \in [Slot -> Nat \cup {Empty}]
<1>1. handles[H] # Closed /\ Opened
  BY DEF IndInv, HandleInv
<1>2. handles[H] \in OpenRec
  BY <1>1 DEF IndInv, TypeOK
<1>3. files[Log] \in Object \ {Absent}
  BY <1>1, <1>2, OpenRecFacts DEF Opened, Lfs!FreshHandle
<1> QED BY <1>1, <1>3, HeadFacts, KindOf, LogFacts

LEMMA CloseIndInv ==
  ASSUME IndInv, Drop \/ ScanLog \/ Appended \/ Created
  PROVE  IndInv'
<1>1. CASE Drop
  BY <1>1, ClosingIndInv DEF Drop, Goto, cache, IndInv, TypeOK, StageInv
<1>2. CASE ScanLog
  <2>1. PICK n \in 0..Slots :
          /\ Readable(n)
          /\ SetCache(IF n = 0 THEN 0 ELSE Record(n), n)
          /\ intact' = (intact /\ ScanEnd(n))
    BY <1>2 DEF ScanLog
  <2>2. n # 0 => Record(n) \in Nat
    BY <1>2, <2>1, ScanFacts DEF ScanLog, Readable, Slot
  <2>3. loaded' = TRUE /\ value' \in Nat /\ next' \in 0..Slots
    BY <2>1, <2>2 DEF SetCache
  <2>4. intact' \in BOOLEAN
    BY <2>1 DEF IndInv, TypeOK, ScanEnd
  <2> QED BY <1>2, <2>3, <2>4, ClosingIndInv DEF ScanLog, IndInv, StageInv
<1>3. CASE Appended
  <2>1. value' \in Nat /\ next' \in 0..Slots /\ loaded' = TRUE
    BY <1>3 DEF Appended, SetCache, IndInv, TypeOK, StageInv
  <2> QED BY <1>3, <2>1, ClosingIndInv DEF Appended, IndInv, TypeOK, StageInv
<1>4. CASE Created
  <2>1. value' \in Nat /\ next' \in 0..Slots /\ loaded' = TRUE /\ at' \in {"serve", "reply"}
    BY <1>4 DEF Created, SetCache, IndInv, TypeOK
  <2> QED BY <1>4, <2>1, ClosingIndInv DEF Created, IndInv, TypeOK, StageInv
<1> QED BY <1>1, <1>2, <1>3, <1>4

LEMMA RejectedIndInv == ASSUME IndInv, OpenRejected PROVE IndInv'
<1>1. CASE Lfs!Close(H) /\ Goto("idle")
  BY <1>1, ClosingIndInv DEF OpenRejected, Goto, cache, IndInv, TypeOK, StageInv
<1>2. CASE Lfs!Remove(H) /\ Goto("drop") /\ Read(0) = <<>>
  <2>1. /\ pc = "idle"
        /\ UNCHANGED <<medium, fs, ready, booting, pc, call>>
        /\ files' \in [Path -> Object]
        /\ handles' \in [Handle -> OpenRec \cup {Closed}]
        /\ handles'[H] # Closed /\ handles'[H].link = "closing"
    BY <1>2, RemoveEffect
  <2>2. ready /\ at' = "drop" /\ UNCHANGED <<loaded, value, next, cmd, new, resume, intact>>
    BY <1>2 DEF OpenRejected, Goto, cache, creation, IndInv, StageInv
  <2>3. TypeOK' /\ StageInv'
    BY <2>1, <2>2 DEF IndInv, TypeOK, StageInv, Stage, Lfs!BootPC
  <2>4. HandleInv' /\ CreateInv'
    BY <2>1, <2>2 DEF HandleInv, CreateInv
  <2>5. BootInv'
    BY <2>1, <2>2, ServingFrame
  <2> QED BY <2>3, <2>4, <2>5 DEF IndInv
<1> QED BY <1>1, <1>2 DEF OpenRejected

LEMMA WriteIndInv == ASSUME IndInv, AppendRecord \/ AppendFails PROVE IndInv'
<1>1. /\ at = "appending" /\ HasHead
      /\ at' \in {"written", "drop"} /\ UNCHANGED <<loaded, value, next, cmd, new, resume>>
  BY DEF AppendRecord, AppendFails, Goto, cache, creation
<1>2. /\ pc = "idle"
      /\ UNCHANGED <<medium, fs, ready, booting, pc, call>>
      /\ files' \in [Path -> Object]
      /\ handles' \in [Handle -> OpenRec \cup {Closed}]
      /\ handles'[H] # Closed
      /\ ~handles'[H].dirty \/ handles'[H].erred
  <2>1. CASE AppendRecord
    BY <1>1, <2>1, WriteEffect DEF AppendRecord
  <2>2. CASE AppendFails
    <3>1. /\ pc = "idle" /\ UNCHANGED <<files, medium, fs, ready, booting, pc, call>>
          /\ handles' \in [Handle -> OpenRec \cup {Closed}]
          /\ handles'[H] # Closed /\ handles'[H].erred
      BY <1>1, <2>2, WriteFailsEffect DEF AppendFails
    <3> QED BY <3>1 DEF IndInv, TypeOK
  <2> QED BY <2>1, <2>2
<1>3. intact' \in BOOLEAN
  BY DEF AppendRecord, AppendFails, Goto, IndInv, TypeOK
<1>4. ready /\ cmd = "inc" /\ next < Slots
  BY <1>1 DEF IndInv, StageInv
<1>5. TypeOK' /\ StageInv'
  BY <1>1, <1>2, <1>3, <1>4 DEF IndInv, TypeOK, StageInv, Stage, Lfs!BootPC
<1>6. HandleInv' /\ CreateInv'
  BY <1>1, <1>2 DEF HandleInv, CreateInv
<1>7. BootInv'
  BY <1>2, <1>4, ServingFrame
<1> QED BY <1>5, <1>6, <1>7 DEF IndInv

LEMMA CreateIndInv ==
  ASSUME IndInv, CreateCall \/ CreateRuns \/ CreateReturns \/ CreateFails
  PROVE  IndInv'
<1>0. UNCHANGED <<loaded, value, next, cmd, new, resume>>
  BY DEF CreateCall, CreateRuns, CreateReturns, CreateFails, Goto, cache, creation
<1>1. CASE CreateCall
  <2>1. /\ ready /\ pc' = "c_zeroize"
        /\ UNCHANGED <<files, medium, fs, ready, booting, handles>>
        /\ call' = [p |-> Log, q |-> Log, ow |-> TRUE, pay |-> Image(new), h |-> H,
                    lost |-> FALSE]
    BY <1>1 DEF CreateCall, Lfs!Create, Lfs!NoConflict, Lfs!BeginCall
  <2>2. at = "create" /\ at' = "creating" /\ UNCHANGED intact
    BY <1>1 DEF CreateCall, Goto
  <2>3. TypeOK' /\ StageInv'
    BY <1>0, <2>1, <2>2 DEF IndInv, TypeOK, StageInv, Stage, Lfs!BootPC, Lfs!CreatePC, Lfs!PC
  <2>4. HandleInv'
    BY <2>1, <2>2 DEF IndInv, HandleInv
  <2>5. CreateInv'
    <3>1. Image(new)' = Image(new)
      BY <1>0 DEF Image
    <3>2. call'.lost = FALSE
      BY <2>1
    <3> QED BY <1>0, <2>1, <2>2, <3>1, <3>2 DEF CreateInv
  <2>6. BootInv'
    BY <2>1, ServingFrame DEF Lfs!CreatePC
  <2> QED BY <2>3, <2>4, <2>5, <2>6 DEF IndInv
<1>2. CASE CreateRuns \/ CreateReturns \/ CreateFails
  <2>1. at = "creating" /\ Lfs!CreateStep
    BY <1>2 DEF CreateRuns, CreateReturns, CreateFails, Lfs!CreateStep
  <2>2. /\ UNCHANGED <<medium, fs, ready, booting>>
        /\ files' \in [Path -> Object]
        /\ handles' \in [Handle -> OpenRec \cup {Closed}]
    BY <2>1, CreateEffect
  <2>3. ready /\ pc \in Lfs!CreatePC /\ handles[H] = Closed /\ CreateInv
    BY <2>1 DEF IndInv, StageInv, HandleInv
  <2>4. intact' \in BOOLEAN
    BY <1>2 DEF CreateRuns, CreateReturns, CreateFails, Goto, IndInv, TypeOK
  <2>5. pc' \in Lfs!CreatePC \cup {"idle"}
    BY <2>1, <2>3, CreateEffect DEF Lfs!CreatePC
  <2>6. BootInv'
    BY <2>2, <2>3, <2>5, ServingFrame
  <2>7. at' \in {"creating", "done", "idle"} /\ (at' = "creating" <=> CreateRuns)
    BY <1>2, <2>1 DEF CreateRuns, CreateReturns, CreateFails, Goto
  <2>8. pc' = "idle" <=> ~CreateRuns
    BY <1>2 DEF CreateRuns, CreateReturns, CreateFails, Lfs!CreateReopen, Lfs!Return, Lfs!Idle
  <2>9. TypeOK' /\ StageInv'
    BY <1>0, <2>2, <2>3, <2>4, <2>5, <2>7, <2>8
       DEF IndInv, TypeOK, StageInv, Stage, Lfs!BootPC, Lfs!CreatePC, Lfs!PC
  <2>10. CASE CreateRuns
    <3>1. UNCHANGED handles
      BY <2>1, <2>3, <2>8, <2>10, CreateEffect DEF Lfs!CreatePC
    <3>2. HandleInv'
      BY <2>3, <2>7, <2>10, <3>1 DEF HandleInv
    <3>3. Image(new)' = Image(new)
      BY <1>0 DEF Image
    <3>4. call' = [call EXCEPT !.lost = call'.lost]
      BY <2>1, <2>3, <2>8, <2>10, CreateEffect DEF Lfs!CreatePC, CreateInv
    <3>5. CreateInv'
      BY <1>0, <2>1, <2>3, <2>8, <2>10, <3>3, <3>4, CreateEffect DEF CreateInv, Lfs!CreatePC
    <3> QED BY <2>6, <2>9, <3>2, <3>5 DEF IndInv
  <2>11. CASE CreateReturns
    <3>1. pc = "c_reopen" /\ handles'[H] # Closed /\ ~handles'[H].dirty /\ at' = "done"
      BY <2>1, <2>11, ReopenEffect DEF CreateReturns, Goto
    <3> QED BY <2>6, <2>9, <3>1 DEF IndInv, HandleInv, CreateInv
  <2>12. CASE CreateFails
    <3>1. handles'[H] = Closed /\ at' = "idle"
      BY <2>12 DEF CreateFails
    <3> QED BY <2>6, <2>9, <3>1 DEF IndInv, HandleInv, CreateInv
  <2> QED BY <1>2, <2>10, <2>11, <2>12
<1> QED BY <1>1, <1>2

LEMMA PowerIndInv == ASSUME IndInv, PowerLoss \/ Boot PROVE IndInv'
<1>1. CASE PowerLoss
  <2>1. /\ ready' = FALSE /\ booting' = TRUE /\ pc' = "hwinit"
        /\ handles' = [h \in Handle |-> Closed]
        /\ UNCHANGED <<files, medium>>
    BY <1>1 DEF PowerLoss, Lfs!Crash
  <2>2. at' = "idle" /\ loaded' = FALSE /\ value' = 0 /\ next' = 0
        /\ UNCHANGED <<cmd, new, resume, intact>> /\ 0 \in 0..Slots
    BY <1>1 DEF PowerLoss, ClearCache, creation
  <2>3. handles'[H] = Closed /\ handles' \in [Handle -> OpenRec \cup {Closed}]
    BY <2>1
  <2>4. TypeOK'
    BY <2>1, <2>2, <2>3 DEF IndInv, TypeOK, Stage, Lfs!PC, Lfs!BootPC
  <2>5. StageInv' /\ HandleInv' /\ CreateInv'
    BY <2>1, <2>2, <2>3 DEF StageInv, HandleInv, CreateInv, Lfs!BootPC
  <2>6. BootInv'
    BY <2>1 DEF IndInv, BootInv
  <2> QED BY <2>4, <2>5, <2>6 DEF IndInv
<1>2. CASE Boot
  <2>1. /\ at = "idle" /\ ~loaded /\ UNCHANGED <<handles, call>>
        /\ pc' \in Lfs!BootPC \cup {"idle"}
        /\ ready' \in BOOLEAN /\ (pc' \in Lfs!BootPC => ~ready')
        /\ files' \in [Path -> Object]
        /\ BootInv'
    BY <1>2, BootEffect DEF Boot
  <2>2. /\ UNCHANGED <<at, loaded, value, next, cmd, new, resume>>
        /\ intact' = (intact /\ files'[Log] = files[Log])
    BY <1>2 DEF Boot, cache, creation
  <2>3. TypeOK'
    BY <2>1, <2>2 DEF IndInv, TypeOK, Lfs!PC
  <2>4. StageInv' /\ HandleInv' /\ CreateInv'
    BY <2>1, <2>2 DEF IndInv, StageInv, HandleInv, CreateInv
  <2> QED BY <2>1, <2>3, <2>4 DEF IndInv
<1> QED BY <1>1, <1>2

LEMMA NextIndInv == ASSUME IndInv, [Next]_vars PROVE IndInv'
<1>1. CASE UNCHANGED vars
  BY <1>1 DEF vars, lfs, cache, creation, told, IndInv, TypeOK, StageInv, HandleInv, CreateInv,
              BootInv, Opened, Lfs!FreshHandle, Lfs!LfsUp, Image
<1>2. CASE Next
  BY <1>2, QuietIndInv, OpenIndInv, CloseIndInv, RejectedIndInv, WriteIndInv, CreateIndInv,
     PowerIndInv DEF Next, Running
<1> QED BY <1>1, <1>2

\* Initially the flash is empty and the file system not mounted.
LEMMA InitIndInv == ASSUME Init PROVE IndInv
<1>1. /\ files = [p \in Path |-> Absent] /\ medium = "blank" /\ ready = FALSE /\ booting = TRUE
      /\ handles = [h \in Handle |-> Closed] /\ pc = "hwinit"
  BY DEF Init, Lfs!Init, Lfs!AllAbsent
<1>2. files[Log] = Absent /\ files \in [Path -> Object]
  BY <1>1 DEF Object
<1>3. handles[H] = Closed /\ handles \in [Handle -> OpenRec \cup {Closed}]
  BY <1>1
<1>4. TypeOK
  <2>1. 0 \in 0..Slots
    OBVIOUS
  <2> QED BY <1>1, <1>2, <1>3, <2>1 DEF Init, TypeOK, Stage, Lfs!PC, Lfs!BootPC
<1>5. StageInv /\ HandleInv /\ CreateInv
  BY <1>1, <1>3 DEF Init, StageInv, HandleInv, CreateInv, Lfs!BootPC
<1>6. BootInv
  BY <1>1, <1>2 DEF BootInv
<1> QED BY <1>4, <1>5, <1>6 DEF IndInv

\* The commands of the TA and the backend fit: a handle that is closed has
\* nothing to flush, a create in progress writes the image of the log, and
\* what is on flash is always absent, empty, zeroed or a log.
THEOREM Inductive == Spec => []IndInv
<1>1. Init => IndInv
  BY InitIndInv
<1>2. IndInv /\ [Next]_vars => IndInv'
  BY NextIndInv
<1> QED BY <1>1, <1>2, PTL DEF Spec

-----------------------------------------------------------------------------
(* The refinement: every step is a step of the counter, or none *)

LEMMA AheadFacts ==
  /\ IndInv => /\ at # "written" => value + Ahead = value /\ next + Ahead = next
               /\ at = "written" => value + Ahead = value + 1 /\ next + Ahead = next + 1
  /\ IndInv' => /\ at' # "written" => (value + Ahead)' = value' /\ (next + Ahead)' = next'
                /\ at' = "written" => /\ (value + Ahead)' = value' + 1
                                      /\ (next + Ahead)' = next' + 1
BY DEF Ahead, IndInv, TypeOK

LEMMA FaultFacts ==
  Fault # {} => Counter!Fails("error") /\ Counter!Fails("sync") /\ Counter!Fails("read")
BY DEF Counter!Fails

\* The steps that the counter does not see
LEMMA Hidden ==
  ASSUME IndInv, IndInv', OpenLog \/ Drop \/ Appended \/ CreateCall \/ CreateReturns
  PROVE  UNCHANGED Counter!vars
<1>1. UNCHANGED files
  BY OpenEffect, CloseEffect, ReopenEffect
     DEF OpenLog, Drop, Appended, CreateCall, CreateReturns, Lfs!Create
<1>2. UNCHANGED <<cmd, new, resume, seen, odd, intact>>
  BY DEF OpenLog, Drop, Appended, CreateCall, CreateReturns, Goto, creation, told
<1>3. CounterPc' = CounterPc
  <2>1. CASE OpenLog
    BY <2>1 DEF OpenLog, Opening, Goto, CounterPc
  <2>2. CASE Drop \/ Appended
    BY <2>2 DEF Drop, Appended, Goto, CounterPc
  <2>3. CASE CreateCall
    <3>1. at = "create" /\ at' = "creating" /\ pc' = "c_zeroize"
      BY <2>3 DEF CreateCall, Goto, Lfs!Create, Lfs!NoConflict, Lfs!BeginCall
    <3> QED BY <3>1 DEF CounterPc
  <2>4. CASE CreateReturns
    <3>1. at = "creating" /\ pc = "c_reopen" /\ at' = "done"
      BY <2>4 DEF CreateReturns, Goto, Lfs!CreateReopen
    <3> QED BY <3>1 DEF CounterPc
  <2> QED BY <2>1, <2>2, <2>3, <2>4
<1>4. loaded' = loaded /\ (value + Ahead)' = value + Ahead /\ (next + Ahead)' = next + Ahead
  <2>1. CASE Appended
    BY <2>1, AheadFacts DEF Appended, SetCache, IndInv, TypeOK, StageInv
  <2>2. CASE OpenLog \/ Drop \/ CreateCall \/ CreateReturns
    <3>1. UNCHANGED <<loaded, value, next>> /\ at # "written" /\ at' # "written"
      BY <2>2 DEF OpenLog, Opening, Drop, CreateCall, CreateReturns, Goto, cache
    <3> QED BY <3>1, AheadFacts
  <2> QED BY <2>1, <2>2
<1> QED BY <1>1, <1>2, <1>3, <1>4 DEF Counter!vars, Counter!cache, Counter!told

LEMMA SimBegin ==
  ASSUME IndInv, IndInv', NEW c \in {"read", "inc"}, Begin(c)
  PROVE  Counter!Next
<1>1. /\ UNCHANGED <<files, loaded, value, next, new, resume, seen, odd, intact>>
      /\ at = "idle" /\ at' = (IF loaded THEN "serve" ELSE "scan") /\ cmd' = c
      /\ c = "inc" => BelowBound
  BY DEF Begin, lfs, cache, creation, told
<1>2. CounterPc = "idle" /\ CounterPc' = IF loaded THEN "serve" ELSE "scan"
  BY <1>1 DEF CounterPc
<1>3. /\ value + Ahead = value /\ (value + Ahead)' = value
      /\ next + Ahead = next /\ (next + Ahead)' = next
  BY <1>1, AheadFacts
<1>4. Counter!Begin(c)
  BY <1>1, <1>2, <1>3
     DEF Counter!Begin, BelowBound, Counter!BelowBound, Counter!Slot, Slot, Counter!cache, Counter!told
<1> QED BY <1>4 DEF Counter!Next

LEMMA SimOpenFails ==
  ASSUME IndInv, IndInv', OpenFails
  PROVE  Counter!Next
<1>1. /\ UNCHANGED <<files, loaded, value, next, cmd, new, resume, seen, odd, intact>>
      /\ at' = "idle"
      /\ at = "scan" \/ (at = "serve" /\ cmd = "inc" /\ next < Slots)
  BY DEF OpenFails, Opening, Goto, lfs, cache, creation, told
<1>2. /\ CounterPc = IF at = "scan" THEN "scan" ELSE "serve"
      /\ CounterPc' = "idle"
  BY <1>1 DEF CounterPc
<1>3. /\ value + Ahead = value /\ (value + Ahead)' = value
      /\ next + Ahead = next /\ (next + Ahead)' = next
  BY <1>1, AheadFacts
<1>4. Fault # {} \/ (at = "serve" /\ Kind(files[Log]) = "absent")
  <2>1. pc = "idle"
    BY <1>1 DEF IndInv, StageInv
  <2>2. ~ready => Fault # {}
    BY <2>1 DEF IndInv, BootInv
  <2>3. ready /\ Lfs!ReadMayFail => Fault # {}
    BY FailuresAreFaults
  <2> QED BY <2>2, <2>3 DEF OpenFails, Kind
<1>5. CASE at = "scan"
  BY <1>1, <1>2, <1>3, <1>4, <1>5, FaultFacts
     DEF Counter!Next, Counter!ScanRejected, Counter!Fail, Counter!cache, Counter!told
<1>6. CASE at = "serve"
  BY <1>1, <1>2, <1>3, <1>4, <1>6, FaultFacts
     DEF Counter!Next, Counter!Append, Counter!Fail, Counter!cache, Counter!told
<1> QED BY <1>1, <1>5, <1>6

LEMMA SimServing ==
  ASSUME IndInv, IndInv', ScanAbsent \/ ServeRead \/ Compact \/ Reply
  PROVE  Counter!Next
<1>1. /\ UNCHANGED <<files, loaded, value, next, cmd, intact>>
      /\ at # "written" /\ at' # "written"
  BY DEF ScanAbsent, ServeRead, Compact, Reply, Report, NewLog, lfs, cache
<1>2. /\ value + Ahead = value /\ (value + Ahead)' = value
      /\ next + Ahead = next /\ (next + Ahead)' = next
  BY <1>1, AheadFacts
<1>3. CASE ScanAbsent
  <2>1. /\ at = "scan" /\ Kind(files[Log]) = "absent"
        /\ \/ cmd = "read" /\ Report(0)
           \/ cmd = "inc" /\ NewLog(1)
    BY <1>3 DEF ScanAbsent, Kind
  <2>2. CounterPc = "scan" /\ CounterPc' = IF cmd = "read" THEN "idle" ELSE "zeroize"
    BY <2>1 DEF Report, NewLog, CounterPc
  <2> QED BY <1>1, <1>2, <2>1, <2>2
          DEF Counter!Next, Counter!ScanAbsent, Counter!Report, Counter!Create, Report, NewLog,
              Counter!cache, Counter!told, creation, told
<1>4. CASE ServeRead
  <2>1. CounterPc = "serve" /\ CounterPc' = "idle"
    BY <1>4 DEF ServeRead, Report, CounterPc
  <2> QED BY <1>1, <1>2, <1>4, <2>1
          DEF Counter!Next, Counter!ServeRead, Counter!Report, ServeRead, Report,
              Counter!cache, creation
<1>5. CASE Compact
  <2>1. CounterPc = "serve" /\ CounterPc' = "zeroize"
    BY <1>5 DEF Compact, NewLog, CounterPc
  <2> QED BY <1>1, <1>2, <1>5, <2>1
          DEF Counter!Next, Counter!Compact, Counter!Create, Compact, NewLog,
              Counter!cache, Counter!told, told
<1>6. CASE Reply
  <2>1. CounterPc = "reply" /\ CounterPc' = "idle"
    BY <1>6 DEF Reply, Report, CounterPc
  <2> QED BY <1>1, <1>2, <1>6, <2>1
          DEF Counter!Next, Counter!Reply, Counter!Report, Reply, Report, Counter!cache, creation
<1> QED BY <1>3, <1>4, <1>5, <1>6

\* What the core rejects is no log, or the flash failed.
LEMMA SimRejected ==
  ASSUME IndInv, IndInv', OpenRejected
  PROVE  Counter!Next
<1> DEFINE k == Kind(files[Log])
<1>1. /\ UNCHANGED <<loaded, value, next, cmd, new, resume, seen, odd, intact>>
      /\ at \in {"scanning", "appending"} /\ at' \in {"idle", "drop"}
  BY DEF OpenRejected, Goto, cache, creation, told
<1>2. /\ CounterPc = (IF at = "scanning" THEN "scan" ELSE "serve")
      /\ CounterPc' = "idle"
  BY <1>1 DEF CounterPc
<1>3. /\ value + Ahead = value /\ (value + Ahead)' = value
      /\ next + Ahead = next /\ (next + Ahead)' = next
  BY <1>1, AheadFacts
<1>4. Opened /\ files[Log] \in Object \ {Absent}
  <2>1. handles[H] # Closed /\ Opened
    BY <1>1 DEF IndInv, HandleInv
  <2>2. handles[H] \in OpenRec
    BY <2>1 DEF IndInv, TypeOK
  <2> QED BY <2>1, <2>2, OpenRecFacts DEF Opened, Lfs!FreshHandle
<1>5. /\ k \in {"torn", "zeroed", "log"}
      /\ Records(files'[Log]) = Records(files[Log])
      /\ \/ k = "torn" /\ Kind(files'[Log]) \in {"torn", "absent"}
         \/ (k = "zeroed" \/ Fault # {}) /\ Kind(files'[Log]) = k
  <2>1. CASE (~HasHead \/ "io" \in Fault) /\ Lfs!Close(H)
    <3>1. UNCHANGED files
      BY <2>1, CloseEffect
    <3>2. k \in {"torn", "zeroed"} \/ Fault # {}
      BY <1>4, <2>1, HeadFacts, KindOf
    <3> QED BY <1>4, <3>1, <3>2, KindOf
  <2>2. CASE Read(0) = <<>> /\ Lfs!Remove(H)
    <3>1. files[Log] = <<>> /\ files'[Log] \in {<<>>, Absent}
      BY <1>4, <2>2, HeadFacts, RemoveEffect
    <3>2. k = "torn" /\ Kind(files'[Log]) \in {"torn", "absent"}
      BY <3>1, EmptySequence DEF Kind
    <3>3. k # "log" /\ Kind(files'[Log]) # "log"
      BY <3>2
    <3> QED BY <3>2, <3>3, NoRecords
  <2> QED BY <2>1, <2>2 DEF OpenRejected
<1> HIDE DEF k
<1>6. CASE at = "scanning"
  BY <1>1, <1>2, <1>3, <1>5, <1>6, FaultFacts
     DEF k, Counter!Next, Counter!ScanRejected, Counter!Fail, Counter!cache, Counter!told
<1>7. CASE at = "appending"
  <2>1. cmd = "inc" /\ next < Slots
    BY <1>7 DEF IndInv, StageInv
  <2> QED BY <1>1, <1>2, <1>3, <1>5, <1>7, <2>1, FaultFacts
          DEF k, Counter!Next, Counter!Append, Counter!Fail, Counter!cache, Counter!told
<1> QED BY <1>1, <1>6, <1>7

LEMMA SimScanLog ==
  ASSUME IndInv, IndInv', ScanLog
  PROVE  Counter!Next
<1> DEFINE R == Records(files[Log])
<1>1. /\ UNCHANGED files
      /\ UNCHANGED <<cmd, new, resume, seen, odd>>
      /\ at = "scanning" /\ at' = "serve"
  BY CloseEffect DEF ScanLog, creation, told
<1>2. CounterPc = "scan" /\ CounterPc' = "serve"
  BY <1>1 DEF CounterPc
<1>3. (value + Ahead)' = value' /\ (next + Ahead)' = next'
  BY <1>1, AheadFacts
<1>4. Kind(files[Log]) = "log" /\ \A s \in Slot : Record(s) = R[s]
  BY ScanFacts DEF ScanLog
<1>5. PICK n \in 0..Slots :
        /\ Readable(n)
        /\ ScanEnd(n) \/ "io" \in Fault
        /\ SetCache(IF n = 0 THEN 0 ELSE Record(n), n)
        /\ intact' = (intact /\ ScanEnd(n))
  BY DEF ScanLog
<1> HIDE DEF R
<1>6. /\ Readable(n) <=> Counter!Readable(R, n)
      /\ ScanEnd(n) <=> Counter!ScanEnd(R, n)
      /\ (IF n = 0 THEN 0 ELSE Record(n)) = Counter!Last(R, n)
  BY <1>4 DEF Readable, ScanEnd, Counter!Readable, Counter!ScanEnd, Counter!Last, Slot
<1>7. /\ Counter!Readable(R, n)
      /\ Counter!ScanEnd(R, n) \/ Counter!Fails("read")
      /\ loaded' = TRUE /\ value' = Counter!Last(R, n) /\ next' = n
  BY <1>5, <1>6, FaultFacts DEF SetCache
<1>8. intact' = (intact /\ Counter!ScanEnd(R, n))
  BY <1>5, <1>6
<1>9. Counter!Goto("serve")
  BY <1>1, <1>2 DEF Counter!Goto, Counter!told
<1>10. Counter!ScanLog
  BY <1>1, <1>2, <1>3, <1>4, <1>7, <1>8, <1>9 DEF Counter!ScanLog, R
<1> QED BY <1>10 DEF Counter!Next

LEMMA SimAppend ==
  ASSUME IndInv, IndInv', AppendRecord \/ AppendFails
  PROVE  Counter!Next
<1>1. /\ at = "appending" /\ HasHead
      /\ at' = (IF AppendRecord THEN "written" ELSE "drop")
      /\ UNCHANGED <<loaded, value, next, cmd, new, resume, seen, odd>>
  BY DEF AppendRecord, AppendFails, Goto, cache, creation, told
<1>2. /\ Kind(files[Log]) = "log" /\ cmd = "inc" /\ next < Slots /\ loaded
      /\ loaded \in BOOLEAN /\ intact \in BOOLEAN
  BY <1>1, AppendingFacts DEF IndInv, TypeOK, StageInv
<1>3. /\ CounterPc = "serve" /\ CounterPc' = IF AppendRecord THEN "reply" ELSE "idle"
      /\ value + Ahead = value /\ next + Ahead = next
      /\ AppendRecord => (value + Ahead)' = value + 1 /\ (next + Ahead)' = next + 1
      /\ ~AppendRecord => (value + Ahead)' = value /\ (next + Ahead)' = next
  BY <1>1, AheadFacts DEF CounterPc
<1>4. CASE AppendRecord
  <2>1. /\ \/ /\ files'[Log] = handles'[H].data
              /\ Kind(files'[Log]) = "log"
              /\ Records(files'[Log]) = [Records(files[Log]) EXCEPT ![next + 1] = value + 1]
           \/ files'[Log] # handles'[H].data /\ UNCHANGED files /\ Fault # {}
        /\ intact' = (intact /\ files'[Log] = handles'[H].data)
    BY <1>1, <1>4, WriteEffect DEF AppendRecord
  <2>2. Counter!SetCache(value + 1, next + 1) /\ Counter!Goto("reply")
    BY <1>1, <1>2, <1>3, <1>4 DEF Counter!SetCache, Counter!Goto, Counter!told
  <2> QED BY <1>2, <1>3, <2>1, <2>2, FaultFacts DEF Counter!Next, Counter!Append
<1>5. CASE ~AppendRecord
  <2>1. UNCHANGED files /\ Fault # {} /\ UNCHANGED intact
    BY <1>1, <1>5, WriteFailsEffect DEF AppendFails, Goto
  <2> QED BY <1>1, <1>2, <1>3, <1>5, <2>1, FaultFacts
          DEF Counter!Next, Counter!Append, Counter!Fail, Counter!cache, Counter!told
<1> QED BY <1>4, <1>5

LEMMA ContentFacts ==
  /\ Kind(Absent) = "absent" /\ Kind(<<>>) = "torn" /\ Kind(AllZero) = "zeroed"
  /\ Records(Absent) = Counter!AllEmpty /\ Records(<<>>) = Counter!AllEmpty
  /\ Records(AllZero) = Counter!AllEmpty
<1>1. Kind(Absent) = "absent" /\ Kind(<<>>) = "torn" /\ Kind(AllZero) = "zeroed"
  BY EmptySequence, ZeroFacts DEF Kind
<1> QED BY <1>1, NoRecords

\* A commit of the create that the counter sees, or none.
LEMMA SimCreateRuns ==
  ASSUME IndInv, IndInv', CreateRuns
  PROVE  Counter!Next \/ UNCHANGED Counter!vars
<1>1. /\ at = "creating" /\ at' = "creating" /\ Lfs!CreateStep /\ pc' # "idle"
      /\ UNCHANGED <<loaded, value, next, cmd, new, resume, seen, odd>>
      /\ intact' = (intact /\ ~call'.lost)
  BY DEF CreateRuns, Lfs!Idle, cache, creation, told
<1>2. /\ value + Ahead = value /\ (value + Ahead)' = value
      /\ next + Ahead = next /\ (next + Ahead)' = next
  BY <1>1, AheadFacts
<1>3. /\ intact \in BOOLEAN /\ new \in Nat /\ files[Log] \in Object /\ pc \in Lfs!CreatePC
      /\ call.lost = FALSE \/ pc = "c_reopen"
      /\ call' = [call EXCEPT !.lost = TRUE] => call'.lost = TRUE
  <2>1. /\ intact \in BOOLEAN /\ new \in Nat /\ files[Log] \in Object /\ pc \in Lfs!CreatePC
        /\ call.lost => pc = "c_reopen"
    BY <1>1 DEF IndInv, TypeOK, StageInv, CreateInv
  <2>2. call = [p |-> Log, q |-> Log, ow |-> TRUE, pay |-> Image(new), h |-> H,
                lost |-> call.lost]
    BY <1>1 DEF IndInv, CreateInv
  <2>3. call' = [call EXCEPT !.lost = TRUE] => call'.lost = TRUE
    BY <2>2
  <2> QED BY <2>1, <2>3
<1>4. UNCHANGED call /\ pc # "c_reopen" => UNCHANGED intact
  BY <1>1, <1>3
<1>5. CASE pc = "c_zeroize"
  <2>1. CounterPc = "zeroize" /\ CounterPc' = "creat"
    BY <1>1, <1>5, CreateEffect DEF CounterPc
  <2>2. Counter!Goto("creat") /\ UNCHANGED <<Counter!cache, intact>>
    BY <1>1, <1>2, <1>4, <1>5, <2>1, CreateEffect DEF Counter!Goto, Counter!cache, Counter!told
  <2>3. CASE files[Log] # Absent /\ files'[Log] = Lfs!Zeros(files[Log])
    <3>1. files'[Log] = IF files[Log] = <<>> THEN <<>> ELSE AllZero
      BY <1>3, <2>3, ZerosFacts
    <3>2. CASE files[Log] = <<>>
      BY <2>1, <2>2, <3>1, <3>2, ContentFacts DEF Counter!Next, Counter!CreateZeroize
    <3>3. CASE files[Log] # <<>>
      <4>1. Kind(files[Log]) \in {"zeroed", "log"}
        BY <1>3, <2>3, <3>3, KindOf
      <4> QED BY <2>1, <2>2, <3>1, <3>3, <4>1, ContentFacts
              DEF Counter!Next, Counter!CreateZeroize
    <3> QED BY <3>2, <3>3
  <2>4. CASE (files[Log] \in {Absent, <<>>} \/ Fault # {}) /\ UNCHANGED files
    BY <2>1, <2>2, <2>4, ContentFacts, FaultFacts DEF Counter!Next, Counter!CreateZeroize
  <2> QED BY <1>1, <1>5, <2>3, <2>4, CreateEffect
<1>6. CASE pc \in {"c_mkdir", "c_fill"}
  <2>1. CounterPc' = CounterPc /\ UNCHANGED <<files, call>>
    BY <1>1, <1>6, CreateEffect DEF CounterPc
  <2> QED BY <1>1, <1>2, <1>4, <1>6, <2>1 DEF Counter!vars, Counter!cache, Counter!told
<1>7. CASE pc = "c_creat"
  <2>1. /\ pc' = "c_fill" /\ UNCHANGED call
        /\ files'[Log] = IF files[Log] = Absent THEN <<>> ELSE files[Log]
    BY <1>1, <1>7, CreateEffect
  <2>2. CounterPc = "creat" /\ CounterPc' = "fill"
    BY <1>1, <1>7, <2>1 DEF CounterPc
  <2>3. Counter!Goto("fill") /\ UNCHANGED <<Counter!cache, intact>>
    BY <1>1, <1>2, <1>4, <1>7, <2>1, <2>2 DEF Counter!Goto, Counter!cache, Counter!told
  <2>4. /\ Records(files'[Log]) = Records(files[Log])
        /\ Kind(files'[Log]) = IF Kind(files[Log]) = "absent" THEN "torn" ELSE Kind(files[Log])
    BY <1>3, <2>1, ContentFacts, KindOf
  <2> QED BY <2>2, <2>3, <2>4 DEF Counter!Next, Counter!CreateName
<1>8. CASE pc = "c_close"
  <2>1. CounterPc = "fill" /\ CounterPc' = "stored"
    BY <1>1, <1>8, CreateEffect DEF CounterPc
  <2>2. Counter!Goto("stored") /\ UNCHANGED Counter!cache
    BY <1>1, <1>2, <2>1 DEF Counter!Goto, Counter!cache, Counter!told
  <2>3. CASE files'[Log] = Image(new) /\ UNCHANGED call
    <3>1. Kind(Image(new)) = "log" /\ Records(Image(new)) = Counter!Fresh(new)
      BY <1>3, ImageFacts, LogFacts
    <3> QED BY <1>4, <1>8, <2>1, <2>2, <2>3, <3>1 DEF Counter!Next, Counter!CreateFill
  <2>4. CASE UNCHANGED files /\ call' = [call EXCEPT !.lost = TRUE] /\ Fault # {}
    <3>1. intact' = FALSE
      BY <1>1, <1>3, <2>4
    <3> QED BY <2>1, <2>2, <2>4, <3>1, FaultFacts DEF Counter!Next, Counter!CreateFill
  <2> QED BY <1>1, <1>8, <2>3, <2>4, CreateEffect
<1>9. pc \notin {"c_undo", "c_reopen"}
  BY <1>1, CreateEffect
<1> QED BY <1>3, <1>5, <1>6, <1>7, <1>8, <1>9 DEF Lfs!CreatePC

LEMMA SimCreateFails ==
  ASSUME IndInv, IndInv', CreateFails \/ NoMemory
  PROVE  Counter!Next
<1>1. /\ at \in {"create", "creating"} /\ at' = "idle"
      /\ UNCHANGED <<loaded, value, next, cmd, new, resume, seen, odd>>
  BY DEF CreateFails, NoMemory, Goto, cache, creation, told
<1>2. /\ value + Ahead = value /\ (value + Ahead)' = value
      /\ next + Ahead = next /\ (next + Ahead)' = next
  BY <1>1, AheadFacts
<1>3. CounterPc' = "idle"
  BY <1>1 DEF CounterPc
<1>4. Counter!Fail /\ UNCHANGED Counter!cache
  BY <1>1, <1>2, <1>3 DEF Counter!Fail, Counter!cache, Counter!told
<1>5. CASE NoMemory
  <2>1. CounterPc = "zeroize" /\ UNCHANGED <<files, intact>>
    BY <1>5 DEF NoMemory, Goto, lfs, CounterPc
  <2>2. Fault # {}
    BY <1>5 DEF NoMemory, IndInv, StageInv
  <2> QED BY <1>4, <2>1, <2>2, FaultFacts DEF Counter!Next, Counter!CreateZeroize
<1>6. CASE CreateFails
  <2>1. /\ at = "creating" /\ Lfs!CreateStep /\ pc' = "idle" /\ handles'[H] = Closed
        /\ intact' = (intact /\ pc # "c_undo") /\ pc \in Lfs!CreatePC
        /\ intact \in BOOLEAN
    BY <1>6 DEF CreateFails, Lfs!Idle, IndInv, TypeOK, StageInv
  <2>2. pc \in {"c_mkdir", "c_creat", "c_undo", "c_reopen"} /\ Fault # {}
    BY <2>1, CreateEffect DEF Lfs!CreatePC
  <2>3. CASE pc \in {"c_mkdir", "c_creat"}
    <3>1. CounterPc = "creat" /\ UNCHANGED <<files, intact>>
      BY <2>1, <2>3, CreateEffect DEF CounterPc
    <3> QED BY <1>4, <2>2, <3>1, FaultFacts DEF Counter!Next, Counter!CreateName
  <2>4. CASE pc = "c_undo"
    <3>1. CounterPc = "fill" /\ intact' = FALSE /\ files'[Log] \in {files[Log], Absent}
      BY <2>1, <2>4, CreateEffect DEF CounterPc
    <3>2. \/ Kind(files'[Log]) = "absent" /\ Records(files'[Log]) = Counter!AllEmpty
          \/ /\ Kind(files'[Log]) = Kind(files[Log])
             /\ Records(files'[Log]) = Records(files[Log])
      BY <3>1, ContentFacts
    <3> QED BY <1>4, <2>2, <3>1, <3>2, FaultFacts DEF Counter!Next, Counter!CreateFill
  <2>5. CASE pc = "c_reopen"
    <3>1. CounterPc = "stored" /\ UNCHANGED <<files, intact>>
      BY <2>1, <2>5, CreateEffect DEF CounterPc
    <3> QED BY <1>4, <2>2, <3>1, FaultFacts DEF Counter!Next, Counter!CreateReturn
  <2> QED BY <2>2, <2>3, <2>4, <2>5
<1> QED BY <1>5, <1>6

LEMMA SimCreated ==
  ASSUME IndInv, IndInv', Created
  PROVE  Counter!Next
<1>1. /\ UNCHANGED <<files, cmd, new, resume, seen, odd, intact>>
      /\ at = "done" /\ at' = resume /\ resume \in {"serve", "reply"}
      /\ loaded' = TRUE /\ value' = new /\ next' = 1
  BY CloseEffect DEF Created, SetCache, creation, told, IndInv, TypeOK
<1>2. CounterPc = "stored" /\ CounterPc' = resume
  BY <1>1 DEF CounterPc
<1>3. (value + Ahead)' = new /\ (next + Ahead)' = 1
  BY <1>1, AheadFacts
<1>4. Counter!CreateReturn
  BY <1>1, <1>2, <1>3 DEF Counter!CreateReturn, Counter!SetCache, Counter!Goto, Counter!told
<1> QED BY <1>4 DEF Counter!Next

LEMMA SimPower ==
  ASSUME IndInv, IndInv', SessionEnds \/ PowerLoss \/ Boot
  PROVE  Counter!Next \/ UNCHANGED Counter!vars
<1>1. UNCHANGED <<cmd, new, resume, seen, odd>> /\ at' = "idle"
  BY BootEffect DEF SessionEnds, PowerLoss, Boot, creation, told
<1>2. CounterPc' = "idle" /\ (value + Ahead)' = value' /\ (next + Ahead)' = next'
  BY <1>1, AheadFacts DEF CounterPc
<1>3. CASE SessionEnds \/ PowerLoss
  <2>1. /\ UNCHANGED <<files, intact>> /\ loaded' = FALSE /\ value' = 0 /\ next' = 0
    BY <1>3 DEF SessionEnds, PowerLoss, ClearCache, lfs, Lfs!Crash
  <2> QED BY <1>1, <1>2, <2>1 DEF Counter!Next, Counter!Restart, Counter!told
<1>4. CASE Boot
  <2>1. /\ at = "idle" /\ ~loaded
        /\ \/ UNCHANGED files
           \/ files'[Log] = Absent /\ (files[Log] # Absent => Fault # {})
        /\ UNCHANGED <<loaded, value, next>>
        /\ intact' = (intact /\ files'[Log] = files[Log])
        /\ intact \in BOOLEAN /\ files[Log] \in Object
    BY <1>4, BootEffect DEF Boot, cache, IndInv, TypeOK
  <2>2. CounterPc = "idle" /\ (value + Ahead)' = value + Ahead /\ (next + Ahead)' = next + Ahead
    BY <1>2, <2>1, AheadFacts DEF CounterPc
  <2>3. CASE files'[Log] = files[Log]
    BY <1>1, <1>2, <2>1, <2>2, <2>3 DEF Counter!vars, Counter!cache, Counter!told
  <2>4. CASE files'[Log] # files[Log]
    <3>1. files'[Log] = Absent /\ Kind(files[Log]) # "absent" /\ Fault # {} /\ intact' = FALSE
      BY <2>1, <2>4, KindOf
    <3> QED BY <1>1, <1>2, <2>1, <2>2, <3>1, ContentFacts, FaultFacts
            DEF Counter!Next, Counter!Reformat, Counter!cache, Counter!told
  <2> QED BY <2>3, <2>4
<1> QED BY <1>3, <1>4

LEMMA Simulation ==
  ASSUME IndInv, IndInv', [Next]_vars
  PROVE  [Counter!Next]_(Counter!vars)
<1>1. CASE UNCHANGED vars
  <2>1. UNCHANGED <<files, pc, at, loaded, value, next, cmd, new, resume, seen, odd, intact>>
    BY <1>1 DEF vars, lfs, cache, creation, told
  <2> QED BY <2>1 DEF Counter!vars, Counter!cache, Counter!told, CounterPc, Ahead
<1>2. CASE Next
  BY <1>2, Hidden, SimBegin, SimOpenFails, SimServing, SimRejected, SimScanLog, SimAppend,
     SimCreateRuns, SimCreateFails, SimCreated, SimPower DEF Next, Running
<1> QED BY <1>1, <1>2

LEMMA InitRefines == ASSUME Init PROVE Counter!Init
<1>1. files[Log] = Absent
  BY DEF Init, Lfs!Init, Lfs!AllAbsent
<1>2. CounterPc = "idle" /\ value + Ahead = 0 /\ next + Ahead = 0
  BY DEF Init, CounterPc, Ahead
<1> QED BY <1>1, <1>2, ContentFacts DEF Init, Counter!Init

\* The counter of the demo TA, commit by commit on the storage backend, is the
\* counter of TeeDemoCounter, for any number of slots, any values and any
\* combination of I/O errors, lack of space and lack of memory.
THEOREM Implements == Spec => ImplementsCounter
<1>1. Init => Counter!Init
  BY InitRefines
<1>2. IndInv /\ IndInv' /\ [Next]_vars => [Counter!Next]_(Counter!vars)
  BY Simulation
<1> QED BY <1>1, <1>2, Inductive, PTL DEF Spec, ImplementsCounter, Counter!Spec

-----------------------------------------------------------------------------
(* What follows from the proofs of the two parts *)

\* Every step of a command is a call, or a commit, that the storage backend has.
LEMMA BackendStep ==
  ASSUME IndInv, [Next]_vars
  PROVE  [Lfs!Next]_(Lfs!vars)
<1>1. H \in Handle /\ Log \in Path
  OBVIOUS
<1>2. /\ Lfs!Open(Log, H) => Lfs!Next
      /\ Lfs!Close(H) => Lfs!Next
      /\ Lfs!Remove(H) => Lfs!Next
      /\ Lfs!Crash => Lfs!Next
      /\ Lfs!Boot => Lfs!Next
      /\ Lfs!CreateStep => Lfs!Next
  BY <1>1 DEF Lfs!Next, Lfs!HandleCall
<1>3. CASE AppendRecord \/ AppendFails
  <2>1. at = "appending"
    BY <1>3 DEF AppendRecord, AppendFails
  <2>2. next \in 0..(Slots - 1) /\ value + 1 \in Nat
    BY <2>1 DEF IndInv, TypeOK, StageInv
  <2>3. next + 1 \in 0..(Slots + 1) /\ <<value + 1>> \in Seq(Unit)
    BY <2>2 DEF Unit
  <2> QED BY <1>1, <1>3, <2>3 DEF Lfs!Next, Lfs!HandleCall, AppendRecord, AppendFails
<1>4. CASE CreateCall
  <2>1. Image(new) \in [1..(Slots + 1) -> Unit]
    BY ImageFacts, LogFacts DEF IndInv, TypeOK
  <2>2. Image(new) \in Seq(Unit)
    BY <2>1, SizedSequence
  <2> QED BY <1>1, <1>4, <2>2 DEF Lfs!Next, Lfs!NameCall, CreateCall
<1>5. CASE UNCHANGED lfs
  BY <1>5 DEF lfs, Lfs!vars
<1>6. UNCHANGED vars => UNCHANGED lfs
  BY DEF vars
<1>7. CASE \/ \E c \in {"read", "inc"} : Begin(c)
           \/ OpenFails \/ ScanAbsent \/ ServeRead \/ Compact \/ NoMemory \/ Reply
           \/ SessionEnds
  <2>1. UNCHANGED lfs
    BY <1>7 DEF Begin, OpenFails, ScanAbsent, ServeRead, Compact, NoMemory, Reply, SessionEnds,
                Report, NewLog
  <2> QED BY <1>5, <2>1
<1>8. CASE \/ OpenLog \/ OpenRejected \/ Drop \/ ScanLog \/ Appended \/ CreateRuns
           \/ CreateReturns \/ CreateFails \/ Created \/ PowerLoss \/ Boot
  BY <1>2, <1>8 DEF OpenLog, OpenRejected, Drop, ScanLog, Appended, CreateRuns, CreateReturns,
                    CreateFails, Created, PowerLoss, Boot, Lfs!CreateStep
<1> QED BY <1>3, <1>4, <1>5, <1>6, <1>7, <1>8 DEF Next, Running

\* The demo TA calls the backend as TeeLfsStorage says that it is called.
THEOREM UsesBackend == Spec => Lfs!Spec
<1>1. Init => Lfs!Init
  BY DEF Init
<1>2. IndInv /\ [Next]_vars => [Lfs!Next]_(Lfs!vars)
  BY BackendStep
<1> QED BY <1>1, <1>2, Inductive, PTL DEF Spec, Lfs!Spec

CounterProofs == INSTANCE TeeDemoCounterProofs WITH
                   kind <- Kind(files[Log]), log <- Records(files[Log]),
                   value <- value + Ahead, next <- next + Ahead, pc <- CounterPc,
                   OldValue <- 0, Start <- {"absent"},
                   Fault <- IF Fault = {} THEN {} ELSE {"error", "sync", "read"}

BackendProofs == INSTANCE TeeLfsStorageProofs WITH
                   Byte <- Unit, Payload <- Seq(Unit), MaxLen <- Slots + 1,
                   Maintenance <- {}, RenameOverwrite <- {}

\* The instances that the proofs are about are those of CounterOnLfs.
LEMMA SameCounter ==
  /\ Counter!Init => CounterProofs!Init
  /\ [Counter!Next]_(Counter!vars) => [CounterProofs!Next]_(CounterProofs!vars)
BY DEF Counter!Slot, Counter!AllEmpty, Counter!Fresh, Counter!Fails, Counter!Readable,
       Counter!ScanEnd, Counter!Last, Counter!BelowBound, Counter!Fail, Counter!Report,
       Counter!Goto, Counter!Create, Counter!Init, Counter!Begin, Counter!ScanLog,
       Counter!ScanAbsent, Counter!ScanRejected, Counter!Migrate,
       Counter!CreateZeroize, Counter!CreateName, Counter!CreateFill, Counter!SetCache,
       Counter!CreateReturn, Counter!ServeRead, Counter!Compact, Counter!Append,
       Counter!Reply, Counter!Restart, Counter!Reformat, Counter!Next, Counter!cache,
       Counter!told, Counter!vars, CounterProofs!Slot, CounterProofs!AllEmpty,
       CounterProofs!Fresh, CounterProofs!Fails, CounterProofs!Readable,
       CounterProofs!ScanEnd, CounterProofs!Last, CounterProofs!BelowBound,
       CounterProofs!Fail, CounterProofs!Report, CounterProofs!Goto,
       CounterProofs!Create, CounterProofs!Init, CounterProofs!Begin,
       CounterProofs!ScanLog, CounterProofs!ScanAbsent, CounterProofs!ScanRejected,
       CounterProofs!Migrate, CounterProofs!CreateZeroize, CounterProofs!CreateName,
       CounterProofs!CreateFill, CounterProofs!SetCache, CounterProofs!CreateReturn,
       CounterProofs!ServeRead, CounterProofs!Compact, CounterProofs!Append,
       CounterProofs!Reply, CounterProofs!Restart, CounterProofs!Reformat,
       CounterProofs!Next, CounterProofs!cache, CounterProofs!told, CounterProofs!vars

LEMMA SameBackend ==
  /\ Lfs!Init => BackendProofs!Init
  /\ [Lfs!Next]_(Lfs!vars) => [BackendProofs!Next]_(BackendProofs!vars)
BY DEF Lfs!BootPC, Lfs!CreatePC, Lfs!RenamePC, Lfs!PC, Lfs!Maximum, Lfs!Minimum,
       Lfs!WriteAt, Lfs!Resize, Lfs!Zeros, Lfs!Write1, Lfs!Resize1, Lfs!Zeros1,
       Lfs!LfsUp, Lfs!MayFail, Lfs!ReadMayFail, Lfs!WriteMayFail, Lfs!Idle, Lfs!IsOpen,
       Lfs!Usable, Lfs!Named, Lfs!Detached, Lfs!OpenOn, Lfs!AllAbsent, Lfs!Stale, Lfs!FreshHandle, Lfs!Init,
       Lfs!Mounted, Lfs!NotMounted, Lfs!HwInit, Lfs!MountOK, Lfs!MountFails,
       Lfs!FormatBegin, Lfs!FormatEnd, Lfs!FormatFails, Lfs!Remount, Lfs!Crash,
       Lfs!Open, Lfs!Synced, Lfs!SyncFails, Lfs!SyncSkipped, Lfs!SyncIgnored,
       Lfs!Write, Lfs!WriteFails, Lfs!Truncate, Lfs!TruncateFails, Lfs!Close,
       Lfs!UseStale, Lfs!BeginCall, Lfs!Return, Lfs!Conflict, Lfs!NoConflict,
       Lfs!CreateRefused, Lfs!Create, Lfs!Zeroize, Lfs!CreateZeroize, Lfs!CreateMkdir,
       Lfs!CreateOpen, Lfs!CreateFill, Lfs!CreateUndo, Lfs!CreateClose,
       Lfs!CreateReopen, Lfs!CreateReopenFails, Lfs!Remove, Lfs!RenameRefused,
       Lfs!Rename, Lfs!RenameZeroize, Lfs!RenameRemove, Lfs!RenameMkdir,
       Lfs!RenameCommit, Lfs!EraseSector, Lfs!EraseChip, Lfs!Boot, Lfs!CreateStep,
       Lfs!RenameStep, Lfs!HandleCall, Lfs!NameCall, Lfs!Next, Lfs!vars,
       BackendProofs!BootPC, BackendProofs!CreatePC, BackendProofs!RenamePC,
       BackendProofs!PC, BackendProofs!Maximum, BackendProofs!Minimum,
       BackendProofs!WriteAt, BackendProofs!Resize, BackendProofs!Zeros,
       BackendProofs!Write1, BackendProofs!Resize1, BackendProofs!Zeros1,
       BackendProofs!LfsUp, BackendProofs!MayFail, BackendProofs!ReadMayFail,
       BackendProofs!WriteMayFail, BackendProofs!Idle, BackendProofs!IsOpen,
       BackendProofs!Usable, BackendProofs!Named, BackendProofs!Detached, BackendProofs!OpenOn, BackendProofs!AllAbsent,
       BackendProofs!Stale, BackendProofs!FreshHandle, BackendProofs!Init,
       BackendProofs!Mounted, BackendProofs!NotMounted, BackendProofs!HwInit,
       BackendProofs!MountOK, BackendProofs!MountFails, BackendProofs!FormatBegin,
       BackendProofs!FormatEnd, BackendProofs!FormatFails, BackendProofs!Remount,
       BackendProofs!Crash, BackendProofs!Open, BackendProofs!Synced,
       BackendProofs!SyncFails, BackendProofs!SyncSkipped, BackendProofs!SyncIgnored,
       BackendProofs!Write, BackendProofs!WriteFails, BackendProofs!Truncate,
       BackendProofs!TruncateFails, BackendProofs!Close, BackendProofs!UseStale,
       BackendProofs!BeginCall, BackendProofs!Return, BackendProofs!Conflict,
       BackendProofs!NoConflict, BackendProofs!CreateRefused, BackendProofs!Create,
       BackendProofs!Zeroize, BackendProofs!CreateZeroize, BackendProofs!CreateMkdir,
       BackendProofs!CreateOpen, BackendProofs!CreateFill, BackendProofs!CreateUndo,
       BackendProofs!CreateClose, BackendProofs!CreateReopen,
       BackendProofs!CreateReopenFails, BackendProofs!Remove,
       BackendProofs!RenameRefused, BackendProofs!Rename, BackendProofs!RenameZeroize,
       BackendProofs!RenameRemove, BackendProofs!RenameMkdir,
       BackendProofs!RenameCommit, BackendProofs!EraseSector, BackendProofs!EraseChip,
       BackendProofs!Boot, BackendProofs!CreateStep, BackendProofs!RenameStep,
       BackendProofs!HandleCall, BackendProofs!NameCall, BackendProofs!Next,
       BackendProofs!vars

\* What the demo TA promises of COUNTER_INC and COUNTER_READ holds of the whole
\* stack, down to the commits of the storage backend: until a flash failure
\* breaks the promise, increments report ever larger values and reads never
\* less than the value reported last, wherever power is lost.
THEOREM MonotonicOnFlash == Spec => Counter!Monotonic
<1>1. /\ CounterProofs!SlotsAssumption /\ CounterProofs!ValueAssumption
      /\ CounterProofs!EmptyAssumption /\ CounterProofs!StartAssumption
  BY DEF CounterProofs!SlotsAssumption, CounterProofs!ValueAssumption,
         CounterProofs!EmptyAssumption, CounterProofs!StartAssumption
<1>2. CounterProofs!Spec => CounterProofs!Monotonic
  BY <1>1, CounterProofs!ImplementsMonotonic
<1>3. /\ CounterProofs!Abstract!Init => Counter!Abstract!Init
      /\ [CounterProofs!Abstract!Next]_(CounterProofs!Abstract!state)
           => [Counter!Abstract!Next]_(Counter!Abstract!state)
  BY DEF CounterProofs!Abstract!Init, Counter!Abstract!Init,
         CounterProofs!Abstract!Next, Counter!Abstract!Next,
         CounterProofs!Abstract!Increment, Counter!Abstract!Increment,
         CounterProofs!Abstract!Read, Counter!Abstract!Read,
         CounterProofs!Abstract!Break, Counter!Abstract!Break,
         CounterProofs!Abstract!state, Counter!Abstract!state
<1> QED BY <1>2, <1>3, SameCounter, Implements, PTL
        DEF ImplementsCounter, Counter!Spec, CounterProofs!Spec, Counter!Monotonic,
            CounterProofs!Monotonic, Counter!Abstract!Spec, CounterProofs!Abstract!Spec

\* And between commands the value the TA has cached is the last record on flash.
THEOREM CacheIsOnFlash == Spec => []Counter!CacheMatchesLog
<1>1. /\ CounterProofs!SlotsAssumption /\ CounterProofs!ValueAssumption
      /\ CounterProofs!EmptyAssumption /\ CounterProofs!StartAssumption
  BY DEF CounterProofs!SlotsAssumption, CounterProofs!ValueAssumption,
         CounterProofs!EmptyAssumption, CounterProofs!StartAssumption
<1>2. CounterProofs!Spec => []CounterProofs!CacheMatchesLog
  BY <1>1, CounterProofs!CacheAgrees
<1>3. CounterProofs!CacheMatchesLog => Counter!CacheMatchesLog
  BY DEF CounterProofs!CacheMatchesLog, Counter!CacheMatchesLog, CounterProofs!ScanEnd,
         Counter!ScanEnd, CounterProofs!Readable, Counter!Readable, CounterProofs!Last,
         Counter!Last, CounterProofs!Fresh, Counter!Fresh, CounterProofs!AllEmpty,
         Counter!AllEmpty, CounterProofs!Slot, Counter!Slot
<1> QED BY <1>2, <1>3, SameCounter, Implements, PTL
        DEF ImplementsCounter, Counter!Spec, CounterProofs!Spec

\* The log is accounted for as every object of the backend is.
THEOREM LogAccounted == Spec => []Lfs!Accounted
<1>1. /\ BackendProofs!ByteAssumption /\ BackendProofs!MaxLenAssumption
      /\ BackendProofs!PayloadAssumption /\ BackendProofs!AbsentAssumption
      /\ BackendProofs!RenameAssumption
  BY AbsentAssumption
     DEF BackendProofs!ByteAssumption, BackendProofs!MaxLenAssumption,
         BackendProofs!PayloadAssumption, BackendProofs!AbsentAssumption,
         BackendProofs!RenameAssumption, Unit
<1>2. BackendProofs!Spec => []BackendProofs!Accounted
  BY <1>1, BackendProofs!ObjectsAccounted
<1>3. BackendProofs!Accounted => Lfs!Accounted
  BY DEF BackendProofs!Accounted, Lfs!Accounted
<1> QED BY <1>2, <1>3, SameBackend, UsesBackend, PTL DEF Lfs!Spec, BackendProofs!Spec
=============================================================================
