------------------------- MODULE TeeStorageTaProofs -------------------------
(* That the tee-storage TA implements the abstract store, and that its     *)
(* enumerations are complete, for any number of sessions and objects.      *)
EXTENDS TeeStorageTa, FiniteSetTheorems, TLAPS

USE KindsAssumption

LEMMA Initially == Init => IndInv
<1> SUFFICES ASSUME Init PROVE IndInv
  OBVIOUS
<1>1. TypeOK
  BY DEF Init, TypeOK, Browsing
<1> QED
  BY <1>1 DEF Init, IndInv, OneHandle, HandleInv, CursorInv, DueLive, ListComplete,
              FormatEmpties, Ended, Holds

\* A write begins with no handle.
LEMMA WritesKeeps ==
  ASSUME IndInv, NEW s \in Session, NEW n \in Name, Writes(s, n)
  PROVE  IndInv'
<1>1. TypeOK'
  BY DEF IndInv, TypeOK, Browsing, vars, run, Writes, Begin
<1>2. OneHandle'
  BY DEF IndInv, TypeOK, OneHandle, Holds, Browsing, vars, run, Writes, Begin
<1>3. HandleInv'
  BY DEF IndInv, TypeOK, OneHandle, HandleInv, Holds, Content, Browsing, vars, run, Writes, Begin
<1>4. CursorInv'
  BY DEF IndInv, TypeOK, CursorInv, HandleInv, Browsing, vars, run, Writes, Begin
<1>5. DueLive'
  BY DEF IndInv, TypeOK, DueLive, Live, Content, Browsing, vars, run, Writes, Begin
<1>6. ListComplete'
  BY DEF IndInv, TypeOK, ListComplete, Ended, HandleInv, DueLive, Content, Browsing, vars, run, Writes, Begin
<1>7. FormatEmpties'
  BY DEF IndInv, TypeOK, FormatEmpties, Ended, HandleInv, DueLive, CursorInv, Content, Browsing, vars, run, Writes, Begin
<1> QED
  BY <1>1, <1>2, <1>3, <1>4, <1>5, <1>6, <1>7 DEF IndInv

\* A read begins with no handle.
LEMMA ReadsKeeps ==
  ASSUME IndInv, NEW s \in Session, NEW n \in Name, Reads(s, n)
  PROVE  IndInv'
<1>1. TypeOK'
  BY DEF IndInv, TypeOK, Browsing, vars, run, Reads, Begin
<1>2. OneHandle'
  BY DEF IndInv, TypeOK, OneHandle, Holds, Browsing, vars, run, Reads, Begin
<1>3. HandleInv'
  BY DEF IndInv, TypeOK, OneHandle, HandleInv, Holds, Content, Browsing, vars, run, Reads, Begin
<1>4. CursorInv'
  BY DEF IndInv, TypeOK, CursorInv, HandleInv, Browsing, vars, run, Reads, Begin
<1>5. DueLive'
  BY DEF IndInv, TypeOK, DueLive, Live, Content, Browsing, vars, run, Reads, Begin
<1>6. ListComplete'
  BY DEF IndInv, TypeOK, ListComplete, Ended, HandleInv, DueLive, Content, Browsing, vars, run, Reads, Begin
<1>7. FormatEmpties'
  BY DEF IndInv, TypeOK, FormatEmpties, Ended, HandleInv, DueLive, CursorInv, Content, Browsing, vars, run, Reads, Begin
<1> QED
  BY <1>1, <1>2, <1>3, <1>4, <1>5, <1>6, <1>7 DEF IndInv

\* An erase begins with no handle.
LEMMA ErasesKeeps ==
  ASSUME IndInv, NEW s \in Session, NEW n \in Name, Erases(s, n)
  PROVE  IndInv'
<1>1. TypeOK'
  BY DEF IndInv, TypeOK, Browsing, vars, run, Erases, Begin
<1>2. OneHandle'
  BY DEF IndInv, TypeOK, OneHandle, Holds, Browsing, vars, run, Erases, Begin
<1>3. HandleInv'
  BY DEF IndInv, TypeOK, OneHandle, HandleInv, Holds, Content, Browsing, vars, run, Erases, Begin
<1>4. CursorInv'
  BY DEF IndInv, TypeOK, CursorInv, HandleInv, Browsing, vars, run, Erases, Begin
<1>5. DueLive'
  BY DEF IndInv, TypeOK, DueLive, Live, Content, Browsing, vars, run, Erases, Begin
<1>6. ListComplete'
  BY DEF IndInv, TypeOK, ListComplete, Ended, HandleInv, DueLive, Content, Browsing, vars, run, Erases, Begin
<1>7. FormatEmpties'
  BY DEF IndInv, TypeOK, FormatEmpties, Ended, HandleInv, DueLive, CursorInv, Content, Browsing, vars, run, Erases, Begin
<1> QED
  BY <1>1, <1>2, <1>3, <1>4, <1>5, <1>6, <1>7 DEF IndInv

\* What is there when an enumeration begins is due.
LEMMA BrowsesKeeps ==
  ASSUME IndInv, NEW s \in Session, NEW c \in Browsing, Browses(s, c)
  PROVE  IndInv'
<1>1. TypeOK'
  BY DEF IndInv, TypeOK, Browsing, vars, run, Browses, Begin, Live
<1>2. OneHandle'
  BY DEF IndInv, TypeOK, OneHandle, Holds, Browsing, vars, run, Browses, Begin
<1>3. HandleInv'
  BY DEF IndInv, TypeOK, OneHandle, HandleInv, Holds, Content, Browsing, vars, run, Browses, Begin
<1>4. CursorInv'
  BY DEF IndInv, TypeOK, CursorInv, HandleInv, Browsing, vars, run, Browses, Begin
<1>5. DueLive'
  BY DEF IndInv, TypeOK, DueLive, Live, Content, Browsing, vars, run, Browses, Begin
<1>6. ListComplete'
  BY DEF IndInv, TypeOK, ListComplete, Ended, HandleInv, DueLive, Content, Browsing, vars, run, Browses, Begin
<1>7. FormatEmpties'
  BY DEF IndInv, TypeOK, FormatEmpties, Ended, HandleInv, DueLive, CursorInv, Content, Browsing, vars, run, Browses, Begin
<1> QED
  BY <1>1, <1>2, <1>3, <1>4, <1>5, <1>6, <1>7 DEF IndInv

\* A refused command changes no object.
LEMMA RefuseKeeps ==
  ASSUME IndInv, NEW s \in Session, Refuse(s)
  PROVE  IndInv'
<1>1. TypeOK'
  BY DEF IndInv, TypeOK, Browsing, vars, run, Refuse, Return, Same
<1>2. OneHandle'
  BY DEF IndInv, TypeOK, OneHandle, Holds, Browsing, vars, run, Refuse, Return, Same
<1>3. HandleInv'
  BY DEF IndInv, TypeOK, OneHandle, HandleInv, Holds, Content, Browsing, vars, run, Refuse, Return, Same
<1>4. CursorInv'
  BY DEF IndInv, TypeOK, CursorInv, HandleInv, Browsing, vars, run, Refuse, Return, Same
<1>5. DueLive'
  BY DEF IndInv, TypeOK, DueLive, Live, Content, Browsing, vars, run, Refuse, Return, Same
<1>6. ListComplete'
  BY DEF IndInv, TypeOK, ListComplete, Ended, HandleInv, DueLive, Content, Browsing, vars, run, Refuse, Return, Same
<1>7. FormatEmpties'
  BY DEF IndInv, TypeOK, FormatEmpties, Ended, HandleInv, DueLive, CursorInv, Content, Browsing, vars, run, Refuse, Return, Same
<1> QED
  BY <1>1, <1>2, <1>3, <1>4, <1>5, <1>6, <1>7 DEF IndInv

\* A create gets the only handle of the object.
LEMMA CreateKeeps ==
  ASSUME IndInv, NEW s \in Session, Create(s)
  PROVE  IndInv'
<1>1. TypeOK'
  BY DEF IndInv, TypeOK, Browsing, vars, run, Create, Put, Return, Same, Held, Content
<1>2. OneHandle'
  BY DEF IndInv, TypeOK, OneHandle, Holds, Browsing, vars, run, Create, Put, Return, Same, Held
<1>3. HandleInv'
  BY DEF IndInv, TypeOK, OneHandle, HandleInv, Holds, Content, Browsing, vars, run, Create, Put, Return, Same, Held
<1>4. CursorInv'
  BY DEF IndInv, TypeOK, CursorInv, HandleInv, Browsing, vars, run, Create, Put, Return, Same, Held
<1>5. DueLive'
  BY DEF IndInv, TypeOK, DueLive, Live, Content, Browsing, vars, run, Create, Put, Return, Same, Held
<1>6. ListComplete'
  BY DEF IndInv, TypeOK, ListComplete, Ended, HandleInv, DueLive, Content, Browsing, vars, run, Create, Put, Return, Same, Held
<1>7. FormatEmpties'
  BY DEF IndInv, TypeOK, FormatEmpties, Ended, HandleInv, DueLive, CursorInv, Content, Browsing, vars, run, Create, Put, Return, Same, Held
<1> QED
  BY <1>1, <1>2, <1>3, <1>4, <1>5, <1>6, <1>7 DEF IndInv

\* The data written are under the handle.
LEMMA WriteDataKeeps ==
  ASSUME IndInv, NEW s \in Session, WriteData(s)
  PROVE  IndInv'
<1>1. TypeOK'
  BY DEF IndInv, TypeOK, Browsing, vars, run, WriteData, Put, Goto, Content
<1>2. OneHandle'
  BY DEF IndInv, TypeOK, OneHandle, Holds, Browsing, vars, run, WriteData, Put, Goto
<1>3. HandleInv'
  BY DEF IndInv, TypeOK, OneHandle, HandleInv, Holds, Content, Browsing, vars, run, WriteData, Put, Goto
<1>4. CursorInv'
  BY DEF IndInv, TypeOK, CursorInv, HandleInv, Browsing, vars, run, WriteData, Put, Goto
<1>5. DueLive'
  BY DEF IndInv, TypeOK, DueLive, Live, Content, Browsing, vars, run, WriteData, Put, Goto
<1>6. ListComplete'
  BY DEF IndInv, TypeOK, ListComplete, Ended, HandleInv, DueLive, Content, Browsing, vars, run, WriteData, Put, Goto
<1>7. FormatEmpties'
  BY DEF IndInv, TypeOK, FormatEmpties, Ended, HandleInv, DueLive, CursorInv, Content, Browsing, vars, run, WriteData, Put, Goto
<1> QED
  BY <1>1, <1>2, <1>3, <1>4, <1>5, <1>6, <1>7 DEF IndInv

\* A panic closes the handle.
LEMMA WriteDataFailsKeeps ==
  ASSUME IndInv, NEW s \in Session, WriteDataFails(s)
  PROVE  IndInv'
<1>1. TypeOK'
  BY DEF IndInv, TypeOK, Browsing, vars, run, WriteDataFails, Put, Panic, Content
<1>2. OneHandle'
  BY DEF IndInv, TypeOK, OneHandle, Holds, Browsing, vars, run, WriteDataFails, Put, Panic
<1>3. HandleInv'
  BY DEF IndInv, TypeOK, OneHandle, HandleInv, Holds, Content, Browsing, vars, run, WriteDataFails, Put, Panic
<1>4. CursorInv'
  BY DEF IndInv, TypeOK, CursorInv, HandleInv, Browsing, vars, run, WriteDataFails, Put, Panic
<1>5. DueLive'
  BY DEF IndInv, TypeOK, DueLive, Live, Content, Browsing, vars, run, WriteDataFails, Put, Panic
<1>6. ListComplete'
  BY DEF IndInv, TypeOK, ListComplete, Ended, HandleInv, DueLive, Content, Browsing, vars, run, WriteDataFails, Put, Panic
<1>7. FormatEmpties'
  BY DEF IndInv, TypeOK, FormatEmpties, Ended, HandleInv, DueLive, CursorInv, Content, Browsing, vars, run, WriteDataFails, Put, Panic
<1> QED
  BY <1>1, <1>2, <1>3, <1>4, <1>5, <1>6, <1>7 DEF IndInv

\* A closed object is no one's.
LEMMA CloseObjectKeeps ==
  ASSUME IndInv, NEW s \in Session, CloseObject(s)
  PROVE  IndInv'
<1>1. TypeOK'
  BY DEF IndInv, TypeOK, Browsing, vars, run, CloseObject, Return, Same
<1>2. OneHandle'
  BY DEF IndInv, TypeOK, OneHandle, Holds, Browsing, vars, run, CloseObject, Return, Same
<1>3. HandleInv'
  BY DEF IndInv, TypeOK, OneHandle, HandleInv, Holds, Content, Browsing, vars, run, CloseObject, Return, Same
<1>4. CursorInv'
  BY DEF IndInv, TypeOK, CursorInv, HandleInv, Browsing, vars, run, CloseObject, Return, Same
<1>5. DueLive'
  BY DEF IndInv, TypeOK, DueLive, Live, Content, Browsing, vars, run, CloseObject, Return, Same
<1>6. ListComplete'
  BY DEF IndInv, TypeOK, ListComplete, Ended, HandleInv, DueLive, Content, Browsing, vars, run, CloseObject, Return, Same
<1>7. FormatEmpties'
  BY DEF IndInv, TypeOK, FormatEmpties, Ended, HandleInv, DueLive, CursorInv, Content, Browsing, vars, run, CloseObject, Return, Same
<1> QED
  BY <1>1, <1>2, <1>3, <1>4, <1>5, <1>6, <1>7 DEF IndInv

\* An object opened for reading is whole and has one handle.
LEMMA OpenForReadKeeps ==
  ASSUME IndInv, NEW s \in Session, OpenForRead(s)
  PROVE  IndInv'
<1>1. TypeOK'
  BY DEF IndInv, TypeOK, Browsing, vars, run, OpenForRead, Open, Put, Goto, Return, Same, Held
<1>2. OneHandle'
  BY DEF IndInv, TypeOK, OneHandle, Holds, Browsing, vars, run, OpenForRead, Open, Put, Goto, Return, Same, Held
<1>3. HandleInv'
  BY DEF IndInv, TypeOK, OneHandle, HandleInv, Holds, Content, Browsing, vars, run, OpenForRead, Open, Put, Goto, Return, Same, Held
<1>4. CursorInv'
  BY DEF IndInv, TypeOK, CursorInv, HandleInv, Browsing, vars, run, OpenForRead, Open, Put, Goto, Return, Same, Held
<1>5. DueLive'
  BY DEF IndInv, TypeOK, DueLive, Live, Content, Browsing, vars, run, OpenForRead, Open, Put, Goto, Return, Same, Held
<1>6. ListComplete'
  BY DEF IndInv, TypeOK, ListComplete, Ended, HandleInv, DueLive, Content, Browsing, vars, run, OpenForRead, Open, Put, Goto, Return, Same, Held
<1>7. FormatEmpties'
  BY DEF IndInv, TypeOK, FormatEmpties, Ended, HandleInv, DueLive, CursorInv, Content, Browsing, vars, run, OpenForRead, Open, Put, Goto, Return, Same, Held
<1> QED
  BY <1>1, <1>2, <1>3, <1>4, <1>5, <1>6, <1>7 DEF IndInv

\* A read answers content, which is no status.
LEMMA ReadDataKeeps ==
  ASSUME IndInv, NEW s \in Session, ReadData(s)
  PROVE  IndInv'
<1>1. TypeOK'
  BY DEF IndInv, TypeOK, Browsing, vars, run, ReadData, Return, Same, HandleInv, Content
<1>2. OneHandle'
  BY DEF IndInv, TypeOK, OneHandle, Holds, Browsing, vars, run, ReadData, Return, Same
<1>3. HandleInv'
  BY DEF IndInv, TypeOK, OneHandle, HandleInv, Holds, Content, Browsing, vars, run, ReadData, Return, Same
<1>4. CursorInv'
  BY DEF IndInv, TypeOK, CursorInv, HandleInv, Browsing, vars, run, ReadData, Return, Same
<1>5. DueLive'
  BY DEF IndInv, TypeOK, DueLive, Live, Content, Browsing, vars, run, ReadData, Return, Same
<1>6. ListComplete'
  BY DEF IndInv, TypeOK, ListComplete, Ended, HandleInv, DueLive, Content, Browsing, vars, run, ReadData, Return, Same
<1>7. FormatEmpties'
  BY DEF IndInv, TypeOK, FormatEmpties, Ended, HandleInv, DueLive, CursorInv, Content, Browsing, vars, run, ReadData, Return, Same
<1> QED
  BY <1>1, <1>2, <1>3, <1>4, <1>5, <1>6, <1>7 DEF IndInv

\* An object opened for deletion is whole and has one handle.
LEMMA OpenForDeleteKeeps ==
  ASSUME IndInv, NEW s \in Session, OpenForDelete(s)
  PROVE  IndInv'
<1>1. TypeOK'
  BY DEF IndInv, TypeOK, Browsing, vars, run, OpenForDelete, Open, Put, Goto, Return, Same, Held
<1>2. OneHandle'
  BY DEF IndInv, TypeOK, OneHandle, Holds, Browsing, vars, run, OpenForDelete, Open, Put, Goto, Return, Same, Held
<1>3. HandleInv'
  BY DEF IndInv, TypeOK, OneHandle, HandleInv, Holds, Content, Browsing, vars, run, OpenForDelete, Open, Put, Goto, Return, Same, Held
<1>4. CursorInv'
  BY DEF IndInv, TypeOK, CursorInv, HandleInv, Browsing, vars, run, OpenForDelete, Open, Put, Goto, Return, Same, Held
<1>5. DueLive'
  BY DEF IndInv, TypeOK, DueLive, Live, Content, Browsing, vars, run, OpenForDelete, Open, Put, Goto, Return, Same, Held
<1>6. ListComplete'
  BY DEF IndInv, TypeOK, ListComplete, Ended, HandleInv, DueLive, Content, Browsing, vars, run, OpenForDelete, Open, Put, Goto, Return, Same, Held
<1>7. FormatEmpties'
  BY DEF IndInv, TypeOK, FormatEmpties, Ended, HandleInv, DueLive, CursorInv, Content, Browsing, vars, run, OpenForDelete, Open, Put, Goto, Return, Same, Held
<1> QED
  BY <1>1, <1>2, <1>3, <1>4, <1>5, <1>6, <1>7 DEF IndInv

\* An object removed is not due any more.
LEMMA CloseAndDeleteKeeps ==
  ASSUME IndInv, NEW s \in Session, CloseAndDelete(s)
  PROVE  IndInv'
<1>1. TypeOK'
  BY DEF IndInv, TypeOK, Browsing, vars, run, CloseAndDelete, Put, Goto, Return, Panic
<1>2. OneHandle'
  BY DEF IndInv, TypeOK, OneHandle, Holds, Browsing, vars, run, CloseAndDelete, Put, Goto, Return, Panic
<1>3. HandleInv'
  BY DEF IndInv, TypeOK, OneHandle, HandleInv, Holds, Content, Browsing, vars, run, CloseAndDelete, Put, Goto, Return, Panic
<1>4. CursorInv'
  BY DEF IndInv, TypeOK, CursorInv, HandleInv, Browsing, vars, run, CloseAndDelete, Put, Goto, Return, Panic
<1>5. DueLive'
  BY DEF IndInv, TypeOK, DueLive, Live, Content, Browsing, vars, run, CloseAndDelete, Put, Goto, Return, Panic
<1>6. ListComplete'
  BY DEF IndInv, TypeOK, ListComplete, Ended, HandleInv, DueLive, Content, Browsing, vars, run, CloseAndDelete, Put, Goto, Return, Panic
<1>7. FormatEmpties'
  BY DEF IndInv, TypeOK, FormatEmpties, Ended, HandleInv, DueLive, CursorInv, Content, Browsing, vars, run, CloseAndDelete, Put, Goto, Return, Panic
<1> QED
  BY <1>1, <1>2, <1>3, <1>4, <1>5, <1>6, <1>7 DEF IndInv

\* An enumeration starts with nothing seen.
LEMMA StartEnumeratorKeeps ==
  ASSUME IndInv, NEW s \in Session, StartEnumerator(s)
  PROVE  IndInv'
<1>1. TypeOK'
  BY DEF IndInv, TypeOK, Browsing, vars, run, StartEnumerator, Goto, Return, Same
<1>2. OneHandle'
  BY DEF IndInv, TypeOK, OneHandle, Holds, Browsing, vars, run, StartEnumerator, Goto, Return, Same
<1>3. HandleInv'
  BY DEF IndInv, TypeOK, OneHandle, HandleInv, Holds, Content, Browsing, vars, run, StartEnumerator, Goto, Return, Same
<1>4. CursorInv'
  BY DEF IndInv, TypeOK, CursorInv, HandleInv, Browsing, vars, run, StartEnumerator, Goto, Return, Same
<1>5. DueLive'
  BY DEF IndInv, TypeOK, DueLive, Live, Content, Browsing, vars, run, StartEnumerator, Goto, Return, Same
<1>6. ListComplete'
  BY DEF IndInv, TypeOK, ListComplete, Ended, HandleInv, DueLive, Content, Browsing, vars, run, StartEnumerator, Goto, Return, Same
<1>7. FormatEmpties'
  BY DEF IndInv, TypeOK, FormatEmpties, Ended, HandleInv, DueLive, CursorInv, Content, Browsing, vars, run, StartEnumerator, Goto, Return, Same
<1> QED
  BY <1>1, <1>2, <1>3, <1>4, <1>5, <1>6, <1>7 DEF IndInv

\* An enumeration that ends has seen everything live, and so everything due.
LEMMA ReadDirKeeps ==
  ASSUME IndInv, NEW s \in Session, ReadDir(s)
  PROVE  IndInv'
<1>1. TypeOK'
  BY DEF IndInv, TypeOK, Browsing, vars, run, ReadDir, Goto, Return, EndsEarly, Same, Live
<1>2. OneHandle'
  BY DEF IndInv, TypeOK, OneHandle, Holds, Browsing, vars, run, ReadDir, Goto, Return, EndsEarly, Same
<1>3. HandleInv'
  BY DEF IndInv, TypeOK, OneHandle, HandleInv, Holds, Content, Browsing, vars, run, ReadDir, Goto, Return, EndsEarly, Same
<1>4. CursorInv'
  BY DEF IndInv, TypeOK, CursorInv, HandleInv, Browsing, vars, run, ReadDir, Goto, Return, EndsEarly, Same
<1>5. DueLive'
  BY DEF IndInv, TypeOK, DueLive, Live, Content, Browsing, vars, run, ReadDir, Goto, Return, EndsEarly, Same
<1>6. ListComplete'
  BY DEF IndInv, TypeOK, ListComplete, Ended, HandleInv, DueLive, Content, Browsing, vars, run, ReadDir, Goto, Return, EndsEarly, Same
<1>7. FormatEmpties'
  BY DEF IndInv, TypeOK, FormatEmpties, Ended, HandleInv, DueLive, CursorInv, Content, Browsing, vars, run, ReadDir, Goto, Return, EndsEarly, Same
<1> QED
  BY <1>1, <1>2, <1>3, <1>4, <1>5, <1>6, <1>7 DEF IndInv

\* The entry whose head is read has been seen.
LEMMA ReadHeadKeeps ==
  ASSUME IndInv, NEW s \in Session, ReadHead(s)
  PROVE  IndInv'
<1>1. TypeOK'
  BY DEF IndInv, TypeOK, Browsing, vars, run, ReadHead, Take, Goto, Return, EndsEarly, Same
<1>2. OneHandle'
  BY DEF IndInv, TypeOK, OneHandle, Holds, Browsing, vars, run, ReadHead, Take, Goto, Return, EndsEarly, Same
<1>3. HandleInv'
  BY DEF IndInv, TypeOK, OneHandle, HandleInv, Holds, Content, Browsing, vars, run, ReadHead, Take, Goto, Return, EndsEarly, Same
<1>4. CursorInv'
  BY DEF IndInv, TypeOK, CursorInv, HandleInv, Browsing, vars, run, ReadHead, Take, Goto, Return, EndsEarly, Same
<1>5. DueLive'
  BY DEF IndInv, TypeOK, DueLive, Live, Content, Browsing, vars, run, ReadHead, Take, Goto, Return, EndsEarly, Same
<1>6. ListComplete'
  BY DEF IndInv, TypeOK, ListComplete, Ended, HandleInv, DueLive, Content, Browsing, vars, run, ReadHead, Take, Goto, Return, EndsEarly, Same
<1>7. FormatEmpties'
  BY DEF IndInv, TypeOK, FormatEmpties, Ended, HandleInv, DueLive, CursorInv, Content, Browsing, vars, run, ReadHead, Take, Goto, Return, EndsEarly, Same
<1> QED
  BY <1>1, <1>2, <1>3, <1>4, <1>5, <1>6, <1>7 DEF IndInv

\* A new session has made no promise.
LEMMA ReopenKeeps ==
  ASSUME IndInv, NEW s \in Session, Reopen(s)
  PROVE  IndInv'
<1>1. TypeOK'
  BY DEF IndInv, TypeOK, Browsing, vars, run, Reopen, Goto, Same
<1>2. OneHandle'
  BY DEF IndInv, TypeOK, OneHandle, Holds, Browsing, vars, run, Reopen, Goto, Same
<1>3. HandleInv'
  BY DEF IndInv, TypeOK, OneHandle, HandleInv, Holds, Content, Browsing, vars, run, Reopen, Goto, Same
<1>4. CursorInv'
  BY DEF IndInv, TypeOK, CursorInv, HandleInv, Browsing, vars, run, Reopen, Goto, Same
<1>5. DueLive'
  BY DEF IndInv, TypeOK, DueLive, Live, Content, Browsing, vars, run, Reopen, Goto, Same
<1>6. ListComplete'
  BY DEF IndInv, TypeOK, ListComplete, Ended, HandleInv, DueLive, Content, Browsing, vars, run, Reopen, Goto, Same
<1>7. FormatEmpties'
  BY DEF IndInv, TypeOK, FormatEmpties, Ended, HandleInv, DueLive, CursorInv, Content, Browsing, vars, run, Reopen, Goto, Same
<1> QED
  BY <1>1, <1>2, <1>3, <1>4, <1>5, <1>6, <1>7 DEF IndInv

\* Power loss ends every command and leaves no handle.
LEMMA PowerLossKeeps ==
  ASSUME IndInv, PowerLoss
  PROVE  IndInv'
<1>1. TypeOK'
  BY DEF IndInv, TypeOK, PowerLoss
<1> QED
  BY <1>1 DEF IndInv, PowerLoss, OneHandle, HandleInv, CursorInv, DueLive, ListComplete,
              FormatEmpties, Holds, Ended

LEMMA Inductive == IndInv /\ [Next]_vars => IndInv'
<1> SUFFICES ASSUME IndInv, [Next]_vars PROVE IndInv'
  OBVIOUS
<1>1. ASSUME NEW s \in Session, Invoke(s) PROVE IndInv'
  BY <1>1, WritesKeeps, ReadsKeeps, ErasesKeeps, BrowsesKeeps, RefuseKeeps, SectorAssumption
     DEF Invoke, CmdWrite, CmdRead, CmdErase, CmdWriteSector, CmdReadSector, CmdEraseSector,
         CmdList, CmdInfo, CmdFormat, Browsing
<1>2. ASSUME NEW s \in Session, Step(s) PROVE IndInv'
  BY <1>2, CreateKeeps, WriteDataKeeps, WriteDataFailsKeeps, CloseObjectKeeps, OpenForReadKeeps,
     ReadDataKeeps, OpenForDeleteKeeps, CloseAndDeleteKeeps, StartEnumeratorKeeps,
     ReadDirKeeps, ReadHeadKeeps
     DEF Step
<1>3. CASE UNCHANGED vars
  BY <1>3 DEF IndInv, TypeOK, OneHandle, HandleInv, CursorInv, DueLive, ListComplete,
              FormatEmpties, Ended, Holds, Live, vars, run
<1> QED
  BY <1>1, <1>2, <1>3, ReopenKeeps, PowerLossKeeps DEF Next

THEOREM Invariance == Spec => []IndInv
BY Initially, Inductive, PTL DEF Spec

\* Every variable keeps its type.
THEOREM TypeCorrect == Spec => []TypeOK
<1>1. IndInv => TypeOK
  BY DEF IndInv
<1> QED
  BY Invariance, <1>1, PTL

\* A LIST or INFO that does not end early returns every object that was there
\* all the time (tee_storage_ta.c, cmd_list_L and cmd_info_L).
THEOREM ListsAreComplete == Spec => []ListComplete
<1>1. IndInv => ListComplete
  BY DEF IndInv
<1> QED
  BY Invariance, <1>1, PTL

\* A FORMAT that does not end early leaves no object that was there when it
\* began (tee_storage_ta.c, cmd_format_L).
THEOREM FormatsEmpty == Spec => []FormatEmpties
<1>1. IndInv => FormatEmpties
  BY DEF IndInv
<1> QED
  BY Invariance, <1>1, PTL

-----------------------------------------------------------------------------
(* The refinement *)

\* A call in the middle of a command is no step of the abstract command,
LEMMA StillRunning ==
  ASSUME TypeOK, NEW s \in Session, NEW l, pc' = [pc EXCEPT ![s] = l], cmd' = cmd,
         pc[s] \notin {"idle", "dead"}, l \notin {"idle", "dead"}
  PROVE  Running' = Running
BY DEF TypeOK, Running

\* its last call is the end of it,
LEMMA RunningEnds ==
  ASSUME TypeOK, NEW s \in Session, NEW l \in {"idle", "dead"},
         pc' = [pc EXCEPT ![s] = l], cmd' = cmd
  PROVE  Running' = [Running EXCEPT ![s] = "none"]
BY DEF TypeOK, Running

\* and what no write is about is as the storage has it.
LEMMA OthersAsStored ==
  ASSUME TypeOK, NEW s \in Session, NEW l, l \notin {"write", "close"}, NEW o,
         pc[s] \notin {"write", "close"}, pc' = [pc EXCEPT ![s] = l],
         ~Overwritten(name[s]), store' = [store EXCEPT ![name[s]] = o],
         old' = old, name' = name
  PROVE  /\ Contents' = [Contents EXCEPT ![name[s]] = o]
         /\ Contents[name[s]] = store[name[s]]
BY ZenonT(30) DEF TypeOK, Contents, Overwritten

LEMMA NothingStored ==
  ASSUME TypeOK, NEW s \in Session, NEW l, l \notin {"write", "close"}, NEW n \in Name,
         pc[s] \notin {"write", "close"}, pc' = [pc EXCEPT ![s] = l],
         name' \in {name, [name EXCEPT ![s] = n]}, UNCHANGED <<store, old>>
  PROVE  Contents' = Contents
BY DEF TypeOK, Contents, Overwritten

\* Beginning a command begins the abstract one.
LEMMA BeginRefines ==
  ASSUME IndInv, NEW s \in Session, NEW n \in Name, NEW v \in Value,
         NEW c \in {"write", "read", "erase"} \cup Browsing,
         NEW l \in {"create", "openread", "opendelete", "start"},
         Begin(s, c, l), name' \in {name, [name EXCEPT ![s] = n]},
         val' \in {val, [val EXCEPT ![s] = v]}
  PROVE  Abstract!Begin(s)
<1> USE DEF IndInv
<1>1. Contents' = Contents
  BY NothingStored DEF Begin
<1>2. Running[s] = "none" /\ Running' = [Running EXCEPT ![s] = c]
  BY DEF Begin, Running, TypeOK
<1>3. \E m \in Name : name' = [name EXCEPT ![s] = m]
  BY DEF TypeOK
<1>4. \E w \in Content : val' = [val EXCEPT ![s] = w]
  BY DEF TypeOK, Content
<1> QED
  BY <1>1, <1>2, <1>3, <1>4 DEF Abstract!Begin, Abstract!Browsing, Browsing, Begin

\* A command that fails makes of its object what the abstract one may.
LEMMA FailRefines ==
  ASSUME IndInv, NEW s \in Session, NEW l \in {"idle", "dead"}, NEW o,
         pc[s] \notin {"idle", "dead", "write", "close"}, pc' = [pc EXCEPT ![s] = l],
         reply' = [reply EXCEPT ![s] = "error"], UNCHANGED <<cmd, name, val, old>>,
         \/ store' = store /\ o = Contents[name[s]]
         \/ ~Overwritten(name[s]) /\ store' = [store EXCEPT ![name[s]] = o],
         \/ o = Contents[name[s]]
         \/ cmd[s] = "write" /\ o \in {Torn, Absent, Empty}
         \/ cmd[s] \in {"erase", "format"} /\ o = Absent
         \/ cmd[s] = "read" /\ Contents[name[s]] = Torn /\ o \in {Torn, Absent}
  PROVE  Abstract!Fail(s)
<1>1. TypeOK /\ name[s] \in Name
  BY DEF IndInv, TypeOK
<1>2. Contents' = [Contents EXCEPT ![name[s]] = o]
  <2>1. CASE store' = store /\ o = Contents[name[s]]
    <3>1. Contents' = Contents
      BY <1>1, <2>1, NothingStored
    <3> QED BY <2>1, <3>1 DEF Contents
  <2>2. CASE ~Overwritten(name[s]) /\ store' = [store EXCEPT ![name[s]] = o]
    <3>1. \A n \in Name : Overwritten(n)' <=> Overwritten(n)
      BY <1>1 DEF TypeOK, Overwritten
    <3>2. \A n \in Name : Contents'[n] = IF n = name[s] THEN o ELSE Contents[n]
      BY <1>1, <2>2, <3>1 DEF TypeOK, Contents
    <3> QED BY <1>1, <3>2 DEF Contents
  <2> QED BY <2>1, <2>2
<1>3. Running[s] = cmd[s] /\ cmd[s] # "none"
  BY <1>1 DEF Running, TypeOK, Browsing
<1>4. Running' = [Running EXCEPT ![s] = "none"]
  BY <1>1, RunningEnds
<1>5. o \in Abstract!Damage(s)
  BY <1>3 DEF Abstract!Damage
<1> QED
  BY <1>2, <1>3, <1>4, <1>5 DEF Abstract!Fail, Abstract!Put, Abstract!Finish

\* A handle keeps writes away.
LEMMA HandleKeepsWritesAway ==
  ASSUME IndInv, NEW s \in Session, pc[s] \notin {"write", "close"},
         Holds(s) \/ ~Held(name[s])
  PROVE  ~Overwritten(name[s])
<1> SUFFICES ASSUME NEW t \in Session, pc[t] \in {"write", "close"}, name[t] = name[s]
             PROVE  FALSE
  BY DEF Overwritten
<1>1. Holds(t)
  BY DEF Holds
<1> QED
  BY <1>1 DEF IndInv, OneHandle, Held

\* A create is no step yet: what it overwrites is remembered until the write.
LEMMA CreateRefines ==
  ASSUME IndInv, NEW s \in Session, Create(s)
  PROVE  Abstract!Fail(s) \/ UNCHANGED Abstract!state
<1>0. pc[s] = "create" /\ cmd[s] = "write" /\ TypeOK
  BY DEF Create, IndInv, HandleInv
<1>1. CASE pc' = [pc EXCEPT ![s] = "write"]
  <2>1. /\ ~Held(name[s]) /\ store' = [store EXCEPT ![name[s]] = Empty]
        /\ old' = [old EXCEPT ![name[s]] = store[name[s]]] /\ name' = name
        /\ UNCHANGED <<cmd, val, reply>>
    BY <1>0, <1>1 DEF Create, Put, Return, TypeOK
  <2>2. Contents' = Contents
    BY <1>0, <1>1, <2>1 DEF Contents, Overwritten, Held, Holds, TypeOK
  <2>3. Running' = Running
    BY <1>0, <1>1, <2>1, StillRunning
  <2> QED
    BY <2>1, <2>2, <2>3 DEF Abstract!state
<1>2. CASE Return(s, "error")
  <2>1. CASE Held(name[s])
    BY <1>0, <1>2, <2>1, FailRefines DEF Create, Return, Same
  <2>2. CASE ~Held(name[s])
    <3>1. PICK o \in {store[name[s]], Torn, Absent, Empty} : store' = [store EXCEPT ![name[s]] = o]
      BY <1>0, <1>2, <2>2 DEF Create, Put, Return, TypeOK
    <3>2. ~Overwritten(name[s])
      BY <1>0, <2>2, HandleKeepsWritesAway
    <3>3. Contents[name[s]] = store[name[s]]
      BY <1>0, <3>2 DEF Contents, TypeOK
    <3>4. old' = old
      BY <1>0, <1>2, <2>2 DEF Create, Return, TypeOK
    <3> QED BY <1>0, <1>2, <3>1, <3>2, <3>3, <3>4, FailRefines DEF Create, Return
  <2> QED BY <2>1, <2>2
<1> QED BY <1>1, <1>2 DEF Create

\* Nor is the write, under whose handle nobody looks.
LEMMA WriteDataRefines ==
  ASSUME IndInv, NEW s \in Session, WriteData(s)
  PROVE  UNCHANGED Abstract!state
<1>1. TypeOK
  BY DEF IndInv
<1>2. Contents' = Contents
  BY <1>1 DEF WriteData, Put, Goto, Contents, Overwritten
<1>3. Running' = Running
  BY <1>1, StillRunning DEF WriteData, Goto
<1> QED
  BY <1>2, <1>3 DEF Abstract!state, WriteData, Goto

\* What name s holds under its own write.
LEMMA OwnWriteEnds ==
  ASSUME IndInv, NEW s \in Session, NEW l \in {"idle", "dead"}, pc[s] \in {"write", "close"},
         NEW o, store' = [store EXCEPT ![name[s]] = o],
         pc' = [pc EXCEPT ![s] = l], old' = [old EXCEPT ![name[s]] = Absent], name' = name
  PROVE  Contents' = [Contents EXCEPT ![name[s]] = o]
BY DEF IndInv, TypeOK, OneHandle, Holds, Contents, Overwritten

LEMMA WriteDataFailsRefines ==
  ASSUME IndInv, NEW s \in Session, WriteDataFails(s)
  PROVE  Abstract!Fail(s)
<1>1. TypeOK /\ cmd[s] = "write" /\ Running[s] = "write"
  BY DEF IndInv, HandleInv, WriteDataFails, Running
<1>2. PICK o \in {Empty, val[s]} : store' = [store EXCEPT ![name[s]] = o]
  BY DEF WriteDataFails, Put
<1>3. Contents' = [Contents EXCEPT ![name[s]] = o]
  BY <1>2, OwnWriteEnds DEF WriteDataFails, Panic
<1>4. Running' = [Running EXCEPT ![s] = "none"]
  BY <1>1, RunningEnds DEF WriteDataFails, Panic
<1>5. o \in Abstract!Damage(s)
  BY <1>1, <1>2 DEF Abstract!Damage
<1> QED
  BY <1>1, <1>3, <1>4, <1>5 DEF Abstract!Fail, Abstract!Put, Abstract!Finish, WriteDataFails, Panic

\* The write takes effect when the handle is closed,
LEMMA CloseObjectRefines ==
  ASSUME IndInv, NEW s \in Session, CloseObject(s)
  PROVE  Abstract!Write(s)
<1>1. TypeOK /\ cmd[s] = "write" /\ Running[s] = "write" /\ store[name[s]] = val[s]
  BY DEF IndInv, HandleInv, CloseObject, Running
<1>2. store' = [store EXCEPT ![name[s]] = val[s]]
  BY <1>1 DEF CloseObject, Same, TypeOK
<1>3. Contents' = [Contents EXCEPT ![name[s]] = val[s]]
  BY <1>2, OwnWriteEnds DEF CloseObject, Return
<1>4. Running' = [Running EXCEPT ![s] = "none"]
  BY <1>1, RunningEnds DEF CloseObject, Return
<1> QED
  BY <1>1, <1>3, <1>4 DEF Abstract!Write, Abstract!Put, Abstract!Finish, CloseObject, Return

\* An open finds what it opens or fails.
LEMMA OpenRefines ==
  ASSUME IndInv, NEW s \in Session, NEW l \in {"read", "delete"},
         pc[s] \in {"openread", "opendelete"}, Open(s, l), UNCHANGED <<name, seen, old>>
  PROVE  Abstract!Fail(s) \/ UNCHANGED Abstract!state
<1>0. TypeOK /\ cmd[s] \in {"read", "erase", "format"}
  BY DEF IndInv, HandleInv
<1>1. CASE Goto(s, l) /\ Same
  <2>1. Contents' = Contents
    BY <1>0, <1>1, NothingStored DEF Goto, Same, TypeOK
  <2>2. Running' = Running
    BY <1>0, <1>1, StillRunning DEF Goto
  <2> QED
    BY <1>1, <2>1, <2>2 DEF Abstract!state, Goto
<1>2. CASE Return(s, "error") /\ Same
  BY <1>0, <1>2, FailRefines DEF Return, Same
<1>3. CASE /\ ~Held(name[s]) /\ store[name[s]] = Torn
           /\ \E o \in {Torn, Absent} : Put(name[s], o)
           /\ Return(s, "error")
  <2>1. PICK o \in {Torn, Absent} : store' = [store EXCEPT ![name[s]] = o]
    BY <1>3 DEF Put
  <2>2. ~Overwritten(name[s])
    BY <1>3, HandleKeepsWritesAway
  <2>3. Contents[name[s]] = Torn
    BY <1>0, <1>3, <2>2 DEF Contents, TypeOK
  <2> QED
    BY <1>0, <1>3, <2>1, <2>2, <2>3, FailRefines DEF Return
<1> QED BY <1>1, <1>2, <1>3 DEF Open

\* A read answers what the object holds,
LEMMA ReadDataRefines ==
  ASSUME IndInv, NEW s \in Session, ReadData(s)
  PROVE  Abstract!Read(s) \/ Abstract!Fail(s)
<1>0. TypeOK /\ cmd[s] = "read" /\ Running[s] = "read" /\ store[name[s]] \in Content
  BY DEF IndInv, HandleInv, ReadData, Running
<1>1. CASE Return(s, store[name[s]])
  <2>1. ~Overwritten(name[s])
    BY HandleKeepsWritesAway DEF ReadData, Holds
  <2>2. Contents[name[s]] = store[name[s]]
    BY <1>0, <2>1 DEF Contents, TypeOK
  <2>3. Contents' = Contents
    BY <1>0, <1>1, NothingStored DEF ReadData, Return, Same, TypeOK
  <2>4. Running' = [Running EXCEPT ![s] = "none"]
    BY <1>0, <1>1, RunningEnds DEF Return
  <2> QED
    BY <1>0, <1>1, <2>2, <2>3, <2>4 DEF Abstract!Read, Abstract!Finish, Return, ReadData
<1>2. CASE Return(s, "error")
  BY <1>0, <1>2, FailRefines DEF ReadData, Return, Same
<1> QED BY <1>1, <1>2 DEF ReadData

\* and a deletion removes it.
LEMMA CloseAndDeleteRefines ==
  ASSUME IndInv, NEW s \in Session, CloseAndDelete(s)
  PROVE  Abstract!Erase(s) \/ Abstract!Remove(s) \/ Abstract!Fail(s)
<1>0. /\ TypeOK /\ cmd[s] \in {"erase", "format"} /\ Running[s] = cmd[s]
      /\ ~Overwritten(name[s]) /\ pc[s] = "delete"
  BY HandleKeepsWritesAway DEF IndInv, HandleInv, CloseAndDelete, Running, Holds
<1>1. CASE Put(name[s], Absent) /\ cmd[s] = "format" /\ Goto(s, "start")
  <2>1. Contents' = [Contents EXCEPT ![name[s]] = Absent]
    <3>1. /\ store' = [store EXCEPT ![name[s]] = Absent] /\ UNCHANGED <<old, name>>
          /\ pc' = [pc EXCEPT ![s] = "start"]
      BY <1>1 DEF CloseAndDelete, Put, Goto
    <3> QED BY <1>0, <3>1, OthersAsStored
  <2>2. Running' = Running
    <3>1. pc' = [pc EXCEPT ![s] = "start"] /\ cmd' = cmd
      BY <1>1 DEF Goto, CloseAndDelete
    <3> QED BY <1>0, <3>1, StillRunning
  <2> QED
    BY <1>0, <1>1, <2>1, <2>2 DEF Abstract!Remove, Abstract!Put, Goto, CloseAndDelete
<1>2. CASE Put(name[s], Absent) /\ cmd[s] = "erase" /\ Return(s, "ok")
  <2>1. Contents' = [Contents EXCEPT ![name[s]] = Absent]
    <3>1. /\ store' = [store EXCEPT ![name[s]] = Absent] /\ UNCHANGED <<old, name>>
          /\ pc' = [pc EXCEPT ![s] = "idle"]
      BY <1>2 DEF CloseAndDelete, Put, Return
    <3> QED BY <1>0, <3>1, OthersAsStored
  <2>2. Running' = [Running EXCEPT ![s] = "none"]
    BY <1>0, <1>2, RunningEnds DEF Return
  <2> QED
    BY <1>0, <1>2, <2>1, <2>2 DEF Abstract!Erase, Abstract!Put, Abstract!Finish, Return, CloseAndDelete
<1>3. CASE /\ \E o \in {store[name[s]], Absent} : Put(name[s], o)
           /\ Panic(s)
  <2>1. PICK o \in {store[name[s]], Absent} : store' = [store EXCEPT ![name[s]] = o]
    BY <1>3 DEF Put
  <2>2. Contents[name[s]] = store[name[s]]
    BY <1>0 DEF Contents, TypeOK
  <2> QED
    BY <1>0, <1>3, <2>1, <2>2, FailRefines DEF CloseAndDelete, Panic
<1> QED BY <1>0, <1>1, <1>2, <1>3 DEF CloseAndDelete

\* An enumeration changes nothing.
LEMMA BrowsingRefines ==
  ASSUME IndInv, NEW s \in Session, StartEnumerator(s) \/ ReadDir(s) \/ ReadHead(s)
  PROVE  Abstract!Browse(s) \/ Abstract!Browsed(s) \/ Abstract!Fail(s)
<1>0. /\ TypeOK /\ cmd[s] \in Browsing /\ Running[s] = cmd[s]
      /\ pc[s] \in {"start", "next", "head"}
  BY DEF IndInv, HandleInv, StartEnumerator, ReadDir, ReadHead, Running
<1>1. /\ UNCHANGED <<store, old, val>>
      /\ \E n \in Name : name' \in {name, [name EXCEPT ![s] = n]}
  BY <1>0 DEF StartEnumerator, ReadDir, ReadHead, Same, Take, Goto, Return, EndsEarly, Live, TypeOK
<1>2. ASSUME NEW l \in {"next", "head", "opendelete"}, Goto(s, l)
      PROVE  Abstract!Browse(s)
  <2>1. Contents' = Contents
    BY <1>0, <1>1, <1>2, NothingStored DEF Goto
  <2>2. Running' = Running
    BY <1>0, <1>2, StillRunning DEF Goto
  <2>3. \E n \in Name : name' = [name EXCEPT ![s] = n]
    BY <1>0, <1>1 DEF TypeOK
  <2> QED
    BY <1>0, <1>1, <1>2, <2>1, <2>2, <2>3 DEF Abstract!Browse, Abstract!Browsing, Browsing, Goto
<1>3. ASSUME pc' = [pc EXCEPT ![s] = "idle"], cmd' = cmd, name' = name,
             reply' = [reply EXCEPT ![s] = "ok"]
      PROVE  Abstract!Browsed(s)
  <2>1. Contents' = Contents
    BY <1>0, <1>1, <1>3, NothingStored DEF TypeOK
  <2>2. Running' = [Running EXCEPT ![s] = "none"]
    BY <1>0, <1>3, RunningEnds
  <2> QED
    BY <1>0, <1>1, <1>3, <2>1, <2>2 DEF Abstract!Browsed, Abstract!Browsing, Browsing, Abstract!Finish
<1>4. ASSUME Return(s, "error"), name' = name
      PROVE  Abstract!Fail(s)
  BY <1>0, <1>1, <1>4, FailRefines DEF Return
<1> QED
  BY <1>2, <1>3, <1>4 DEF StartEnumerator, ReadDir, ReadHead, Take, Return, EndsEarly

\* A refused command, a panic that is over and power loss:
LEMMA RefuseRefines ==
  ASSUME IndInv, NEW s \in Session, Refuse(s)
  PROVE  Abstract!Refuse(s)
<1>1. TypeOK /\ Running[s] = "none"
  BY DEF IndInv, Refuse, Running
<1>2. Contents' = Contents
  BY <1>1, NothingStored DEF Refuse, Return, Same, TypeOK
<1>3. Running' = [Running EXCEPT ![s] = "none"]
  BY <1>1, RunningEnds DEF Refuse, Return
<1> QED
  BY <1>1, <1>2, <1>3 DEF Abstract!Refuse, Abstract!Finish, Refuse, Return

LEMMA ReopenRefines ==
  ASSUME IndInv, NEW s \in Session, Reopen(s)
  PROVE  UNCHANGED Abstract!state
<1>1. TypeOK /\ Running[s] = "none"
  BY DEF IndInv, Reopen, Running
<1>2. Contents' = Contents
  BY <1>1, NothingStored DEF Reopen, Goto, Same, TypeOK
<1>3. Running' = [Running EXCEPT ![s] = "none"]
  BY <1>1, RunningEnds DEF Reopen, Goto
<1>4. Running' = Running
  BY <1>1, <1>3 DEF Running
<1> QED
  BY <1>2, <1>4 DEF Abstract!state, Reopen, Goto

LEMMA PowerLossRefines ==
  ASSUME IndInv, PowerLoss
  PROVE  Abstract!PowerLoss
<1>0. TypeOK
  BY DEF IndInv
<1>1. Contents' = store'
  BY <1>0 DEF PowerLoss, Contents, Overwritten
<1>2. \A s \in Session : pc[s] \in {"create", "write", "close"} => Running[s] = "write"
  BY DEF IndInv, HandleInv, Running
<1>3. ASSUME NEW n \in Name
      PROVE  store'[n] = Contents[n] \/ \E s \in Session :
               Running[s] = "write" /\ name[s] = n /\ store'[n] \in {val[s], Empty, Torn}
  <2>1. CASE Overwritten(n)
    <3>1. PICK s \in Session : pc[s] \in {"write", "close"} /\ name[s] = n
      BY <2>1 DEF Overwritten
    <3>2. store[n] \in {val[s], Empty}
      BY <3>1 DEF IndInv, HandleInv
    <3>3. ~Creating(n)
      BY <3>1 DEF Creating, Held, Holds
    <3> QED
      BY <1>2, <3>1, <3>2, <3>3 DEF PowerLoss
  <2>2. CASE ~Overwritten(n)
    BY <1>2, <2>2 DEF PowerLoss, Creating, Contents
  <2> QED BY <2>1, <2>2
<1> QED
  BY <1>1, <1>3 DEF Abstract!PowerLoss, PowerLoss, Running

LEMMA StepRefines == IndInv /\ [Next]_vars => [Abstract!Next]_Abstract!state
<1> SUFFICES ASSUME IndInv, [Next]_vars PROVE [Abstract!Next]_Abstract!state
  OBVIOUS
<1>1. ASSUME NEW s \in Session, Invoke(s) PROVE Abstract!Begin(s) \/ Abstract!Refuse(s)
  <2>0. TypeOK
    BY DEF IndInv
  <2>1. ASSUME NEW n \in Name, Writes(s, n) PROVE Abstract!Begin(s)
    <3>1. PICK v \in Value : val' = [val EXCEPT ![s] = v]
      BY <2>1 DEF Writes
    <3> QED BY <2>1, <3>1, BeginRefines DEF Writes
  <2>2. ASSUME NEW n \in Name, Reads(s, n) PROVE Abstract!Begin(s)
    BY <2>0, <2>2, BeginRefines DEF Reads, TypeOK
  <2>3. ASSUME NEW n \in Name, Erases(s, n) PROVE Abstract!Begin(s)
    BY <2>0, <2>3, BeginRefines DEF Erases, TypeOK
  <2>4. ASSUME NEW c \in Browsing, Browses(s, c) PROVE Abstract!Begin(s)
    BY <2>0, <2>4, BeginRefines DEF Browses, TypeOK
  <2> QED
    BY <1>1, <2>1, <2>2, <2>3, <2>4, RefuseRefines, SectorAssumption
       DEF Invoke, CmdWrite, CmdRead, CmdErase, CmdWriteSector, CmdReadSector, CmdEraseSector,
           CmdList, CmdInfo, CmdFormat, Browsing
<1>2. ASSUME NEW s \in Session, Step(s)
      PROVE  \/ Abstract!Write(s) \/ Abstract!Erase(s) \/ Abstract!Read(s) \/ Abstract!Browse(s)
             \/ Abstract!Remove(s) \/ Abstract!Browsed(s) \/ Abstract!Fail(s)
             \/ UNCHANGED Abstract!state
  BY <1>2, CreateRefines, WriteDataRefines, WriteDataFailsRefines, CloseObjectRefines,
     OpenRefines, ReadDataRefines, CloseAndDeleteRefines, BrowsingRefines
     DEF Step, OpenForRead, OpenForDelete
<1>3. CASE UNCHANGED vars
  BY <1>3 DEF vars, run, Abstract!state, Contents, Overwritten, Running
<1> QED
  BY <1>1, <1>2, <1>3, ReopenRefines, PowerLossRefines DEF Next, Abstract!Next

LEMMA InitRefines == Init => Abstract!Init
BY DEF Init, Abstract!Init, Contents, Overwritten, Running, Content

\* The TA implements the abstract store: each command takes effect at one
\* instant, reads see whole objects, and only a failed or interrupted command
\* damages the object it is about (tee_storage_ta.c).
THEOREM Refinement == Spec => AtomicStore
<1>1. IndInv /\ IndInv' /\ [Next]_vars => [Abstract!Next]_Abstract!state
  BY StepRefines
<1> QED
  BY Invariance, InitRefines, <1>1, PTL DEF Spec, AtomicStore, Abstract!Spec

-----------------------------------------------------------------------------
(* Why commands return: the number of calls they have left. *)

LEMMA LeftCounts ==
  ASSUME NEW S \in SUBSET Name
  PROVE  IsFiniteSet(S) /\ Cardinality(S) \in Nat
BY NameAssumption, FS_Subset, FS_CardinalityType

LEMMA LeftShrinks ==
  ASSUME NEW S \in SUBSET Name, NEW T \in SUBSET S
  PROVE  /\ Cardinality(T) <= Cardinality(S)
         /\ \A n \in S \ T : Cardinality(T) < Cardinality(S)
<1>1. IsFiniteSet(S) /\ Cardinality(S) \in Nat /\ Cardinality(T) \in Nat
  BY LeftCounts
<1>2. Cardinality(T) <= Cardinality(S) /\ (Cardinality(S) = Cardinality(T) => S = T)
  BY <1>1, FS_Subset
<1> QED
  BY <1>1, <1>2

LEMMA CallsLeftCounts ==
  ASSUME TypeOK, NEW s \in Session
  PROVE  /\ CallsLeft(s) \in Nat
         /\ pc[s] \notin {"idle", "dead"} => CallsLeft(s) > 0
<1>1. Rank[pc[s]] \in Nat /\ (pc[s] \notin {"idle", "dead"} => Rank[pc[s]] > 0)
  BY DEF TypeOK, Rank
<1>2. Cardinality(Live \ seen[s]) \in Nat
  BY LeftCounts DEF Live
<1> QED
  BY <1>1, <1>2 DEF CallsLeft

LEMMA CallsLeftCountsNext ==
  ASSUME TypeOK', NEW s \in Session
  PROVE  CallsLeft(s)' \in Nat
<1>1. Rank[pc[s]]' \in Nat
  BY DEF TypeOK, Rank
<1>2. Cardinality(Live' \ seen'[s]) \in Nat
  BY LeftCounts DEF Live
<1> QED
  BY <1>1, <1>2 DEF CallsLeft

\* A call that leaves no more to enumerate than there was takes the command to
\* a later place;
LEMMA LaterPlace ==
  ASSUME TypeOK, TypeOK', NEW s \in Session, cmd'[s] = cmd[s],
         Rank[pc[s]]' < Rank[pc[s]],
         cmd[s] \in Browsing => Live' \ seen'[s] \subseteq Live \ seen[s]
  PROVE  CallsLeft(s)' < CallsLeft(s)
<1>1. Rank[pc[s]] \in Nat /\ Rank[pc[s]]' \in Nat /\ Rank[pc[s]] > 0
  BY DEF TypeOK, Rank
<1>2. Cardinality(Live \ seen[s]) \in Nat /\ Cardinality(Live' \ seen'[s]) \in Nat
  BY LeftCounts DEF Live
<1>3. cmd[s] \in Browsing => Cardinality(Live' \ seen'[s]) <= Cardinality(Live \ seen[s])
  BY LeftShrinks DEF Live
<1> QED
  BY <1>1, <1>2, <1>3 DEF CallsLeft

\* one that takes an object off what is left pays for the next round.
LEMMA ObjectLess ==
  ASSUME TypeOK, TypeOK', NEW s \in Session, cmd'[s] = cmd[s], cmd[s] \in Browsing,
         pc[s] \notin {"idle", "dead"}, Rank[pc[s]]' < Rank[pc[s]] + 5,
         Live' \ seen'[s] \subseteq Live \ seen[s],
         NEW n \in Live \ seen[s], n \notin Live' \ seen'[s]
  PROVE  CallsLeft(s)' < CallsLeft(s)
<1>1. Rank[pc[s]] \in Nat /\ Rank[pc[s]]' \in Nat /\ Rank[pc[s]] > 0
  BY DEF TypeOK, Rank
<1>2. Cardinality(Live \ seen[s]) \in Nat /\ Cardinality(Live' \ seen'[s]) \in Nat
  BY LeftCounts DEF Live
<1>3. Cardinality(Live' \ seen'[s]) < Cardinality(Live \ seen[s])
  BY LeftShrinks DEF Live
<1> QED
  BY <1>1, <1>2, <1>3 DEF CallsLeft

\* A return has no calls left.
LEMMA ReturnIsLast ==
  ASSUME TypeOK, NEW s \in Session, pc[s] \notin {"idle", "dead"}, pc'[s] \in {"idle", "dead"}
  PROVE  CallsLeft(s)' < CallsLeft(s)
<1>1. CallsLeft(s)' = 0
  BY DEF CallsLeft, Rank
<1> QED
  BY <1>1, CallsLeftCounts

\* Each call of a command leaves fewer calls.
LEMMA StepAdvances ==
  ASSUME IndInv, IndInv', NEW s \in Session, Step(s)
  PROVE  CallsLeft(s)' < CallsLeft(s)
<1>0. TypeOK /\ TypeOK' /\ HandleInv /\ CursorInv
  BY DEF IndInv
<1>1. pc[s] \notin {"idle", "dead"} /\ cmd' = cmd
  BY DEF Step, Create, WriteData, WriteDataFails, CloseObject, OpenForRead, ReadData, OpenForDelete,
         CloseAndDelete, StartEnumerator, ReadDir, ReadHead, Open, Take, Goto, Return, EndsEarly,
         Panic
<1>2. CASE pc'[s] \in {"idle", "dead"}
  BY <1>0, <1>1, <1>2, ReturnIsLast
<1>3. CASE pc'[s] \notin {"idle", "dead"}
  <2>1. CASE Create(s) \/ WriteData(s) \/ WriteDataFails(s) \/ CloseObject(s)
    <3>1. cmd[s] = "write" /\ Rank[pc[s]]' < Rank[pc[s]]
      BY <1>0, <1>3, <2>1 DEF Create, WriteData, WriteDataFails, CloseObject, Goto, Return, Panic,
         HandleInv, TypeOK, Rank
    <3> QED BY <1>0, <1>1, <3>1, LaterPlace DEF Browsing
  <2>2. CASE OpenForRead(s) \/ ReadData(s) \/ OpenForDelete(s) \/ ReadDir(s)
    <3>1. store' = store /\ seen' = seen
      BY <1>0, <1>3, <2>2 DEF OpenForRead, ReadData, OpenForDelete, ReadDir, Open, Goto, Return,
         EndsEarly, Same, TypeOK
    <3>2. Rank[pc[s]]' < Rank[pc[s]]
      BY <1>0, <1>3, <2>2 DEF OpenForRead, ReadData, OpenForDelete, ReadDir, Open, Goto, Return,
         EndsEarly, TypeOK, Rank
    <3> QED BY <1>0, <1>1, <3>1, <3>2, LaterPlace DEF Live
  <2>3. CASE StartEnumerator(s)
    <3>1. store' = store /\ seen'[s] = seen[s]
      BY <1>0, <1>3, <2>3 DEF StartEnumerator, Goto, Return, Same, TypeOK, CursorInv
    <3>2. Rank[pc[s]]' < Rank[pc[s]]
      BY <1>0, <1>3, <2>3 DEF StartEnumerator, Goto, Return, TypeOK, Rank
    <3> QED BY <1>0, <1>1, <3>1, <3>2, LaterPlace DEF Live
  <2>4. CASE CloseAndDelete(s)
    <3>1. /\ cmd[s] = "format" /\ pc'[s] = "start" /\ pc[s] = "delete"
          /\ store' = [store EXCEPT ![name[s]] = Absent] /\ seen' = seen
      BY <1>0, <1>3, <2>4 DEF CloseAndDelete, Put, Goto, Return, Panic, TypeOK
    <3>2. name[s] \in Live \ seen[s] /\ name[s] \notin Live' /\ Live' \subseteq Live
      BY <1>0, <3>1 DEF Live, TypeOK, HandleInv, CursorInv, Content
    <3>3. Rank[pc[s]]' < Rank[pc[s]] + 5
      BY <3>1 DEF Rank
    <3> QED BY <1>0, <1>1, <3>1, <3>2, <3>3, ObjectLess DEF Browsing
  <2>5. CASE ReadHead(s)
    <3>1. store' = store /\ store[name[s]] \in Content /\ pc[s] = "head" /\ cmd[s] \in Browsing
      BY <1>0, <1>3, <2>5 DEF ReadHead, Goto, Return, EndsEarly, Same, TypeOK, HandleInv
    <3>2. CASE cmd[s] = "format"
      <4>1. pc'[s] = "opendelete" /\ seen' = seen
        BY <1>0, <1>3, <2>5, <3>2 DEF ReadHead, Goto, Return, EndsEarly, TypeOK
      <4> QED BY <1>0, <1>1, <3>1, <4>1, LaterPlace DEF Live, Rank
    <3>3. CASE cmd[s] # "format"
      <4>1. pc'[s] = "next" /\ seen' = [seen EXCEPT ![s] = @ \cup {name[s]}]
        BY <1>0, <1>3, <2>5, <3>1, <3>3 DEF ReadHead, Take, Goto, Return, EndsEarly, TypeOK
      <4>2. name[s] \in Live \ seen[s]
        BY <1>0, <3>1 DEF Live, CursorInv, TypeOK
      <4>3. Live' = Live /\ seen'[s] = seen[s] \cup {name[s]}
        BY <1>0, <3>1, <4>1 DEF Live, TypeOK
      <4>4. Rank[pc[s]]' < Rank[pc[s]] + 5
        BY <3>1, <4>1 DEF Rank
      <4> QED BY <1>0, <1>1, <3>1, <4>2, <4>3, <4>4, ObjectLess
    <3> QED BY <3>2, <3>3
  <2> QED BY <2>1, <2>2, <2>3, <2>4, <2>5 DEF Step
<1> QED BY <1>2, <1>3

\* What a session does leaves the others where they are, and adds no object,
\* except a create.
LEMMA OthersStay ==
  ASSUME IndInv, NEW t \in Session, Invoke(t) \/ Step(t) \/ Reopen(t)
  PROVE  /\ \A s \in Session \ {t} : pc'[s] = pc[s] /\ cmd'[s] = cmd[s] /\ seen'[s] = seen[s]
         /\ Live' \subseteq Live \/ pc[t] = "create"
<1>0. TypeOK /\ HandleInv
  BY DEF IndInv
<1>1. CASE Invoke(t) \/ Reopen(t)
  BY <1>0, <1>1 DEF Invoke, CmdWrite, CmdRead, CmdErase, CmdWriteSector, CmdReadSector,
     CmdEraseSector, CmdList, CmdInfo, CmdFormat, Writes, Reads, Erases, Browses, Begin, Refuse,
     Return, Reopen, Goto, Same, TypeOK, Live
<1>2. CASE Step(t)
  <2>1. \A s \in Session \ {t} : pc'[s] = pc[s] /\ cmd'[s] = cmd[s] /\ seen'[s] = seen[s]
    BY <1>0, <1>2 DEF Step, Create, WriteData, WriteDataFails, CloseObject, OpenForRead, ReadData,
       OpenForDelete, CloseAndDelete, StartEnumerator, ReadDir, ReadHead, Open, Take, Goto,
       Return, EndsEarly, Panic, TypeOK
  <2>2. CASE Create(t)
    BY <2>1, <2>2 DEF Create
  <2>3. CASE WriteData(t) \/ WriteDataFails(t) \/ CloseAndDelete(t) \/ OpenForRead(t) \/ OpenForDelete(t)
    <3>1. \A n \in Name : store'[n] # store[n] => store[n] # Absent
      BY <1>0, <2>3 DEF WriteData, WriteDataFails, CloseAndDelete, OpenForRead, OpenForDelete,
         Open, Put, Same, TypeOK, HandleInv, Content
    <3> QED BY <2>1, <3>1 DEF Live
  <2>4. CASE CloseObject(t) \/ ReadData(t) \/ StartEnumerator(t) \/ ReadDir(t) \/ ReadHead(t)
    BY <2>1, <2>4 DEF CloseObject, ReadData, StartEnumerator, ReadDir, ReadHead, Same, Live
  <2> QED BY <1>2, <2>2, <2>3, <2>4 DEF Step
<1> QED BY <1>1, <1>2

\* A session that waits has no more left than before, unless an object is created.
LEMMA OthersDoNotDelay ==
  ASSUME IndInv, IndInv', NEW s \in Session, pc[s] \notin {"idle", "dead"},
         pc'[s] = pc[s], cmd'[s] = cmd[s], seen'[s] = seen[s], Live' \subseteq Live
  PROVE  CallsLeft(s)' <= CallsLeft(s)
<1>1. TypeOK
  BY DEF IndInv
<1>2. Cardinality(Live' \ seen'[s]) <= Cardinality(Live \ seen[s])
  BY LeftShrinks DEF Live
<1>3. /\ Cardinality(Live' \ seen'[s]) \in Nat /\ Cardinality(Live \ seen[s]) \in Nat
      /\ Rank[pc[s]] \in Nat
  BY <1>1, LeftCounts DEF Live, TypeOK, Rank
<1> QED
  BY <1>2, <1>3 DEF CallsLeft

LEMMA NextAdvances ==
  ASSUME IndInv, IndInv', [Next]_vars, NEW s \in Session, pc[s] \notin {"idle", "dead"}
  PROVE  /\ pc'[s] # pc[s] => CallsLeft(s)' < CallsLeft(s)
         /\ CallsLeft(s)' <= CallsLeft(s) \/ \E t \in Session : pc[t] = "create"
<1>0. TypeOK /\ TypeOK' /\ CallsLeft(s) \in Nat /\ CallsLeft(s)' \in Nat
  <2>1. TypeOK /\ TypeOK'
    BY DEF IndInv
  <2> QED BY <2>1, CallsLeftCounts, CallsLeftCountsNext
<1>1. ASSUME NEW t \in Session, Invoke(t) \/ Step(t) \/ Reopen(t)
      PROVE  /\ pc'[s] # pc[s] => CallsLeft(s)' < CallsLeft(s)
             /\ CallsLeft(s)' <= CallsLeft(s) \/ \E u \in Session : pc[u] = "create"
  <2>1. CASE t = s
    <3>1. Step(s)
      BY <1>1, <2>1 DEF Invoke, CmdWrite, CmdRead, CmdErase, CmdWriteSector, CmdReadSector,
         CmdEraseSector, CmdList, CmdInfo, CmdFormat, Writes, Reads, Erases, Browses, Begin,
         Refuse, Reopen
    <3> QED BY <1>0, <3>1, StepAdvances
  <2>2. CASE t # s
    BY <1>1, <2>2, OthersStay, OthersDoNotDelay
  <2> QED BY <2>1, <2>2
<1>2. CASE PowerLoss
  <2>1. pc'[s] = "idle"
    BY <1>2 DEF PowerLoss
  <2> QED BY <1>0, <2>1, ReturnIsLast
<1>3. CASE UNCHANGED vars
  BY <1>3, OthersDoNotDelay DEF vars, run, Live
<1> QED
  BY <1>1, <1>2, <1>3 DEF Next

\* Each call of a command leaves it fewer calls, and nothing but a create of
\* another session adds any: the loops of cmd_format_L, cmd_list_L and cmd_info_L
\* (tee_storage_ta.c) end.
THEOREM CommandsEnd == Spec => CommandsAdvance
<1>1. IndInv /\ IndInv' /\ [Next]_vars =>
        [\A s \in Session : pc[s] \notin {"idle", "dead"} =>
           /\ pc'[s] # pc[s] => CallsLeft(s)' < CallsLeft(s)
           /\ CallsLeft(s)' <= CallsLeft(s) \/ \E t \in Session : pc[t] = "create"]_vars
  BY NextAdvances
<1> QED
  BY Invariance, <1>1, PTL DEF Spec, CommandsAdvance

\* A command has at most five calls for each object and five besides to make.
THEOREM CallsLeftBounded ==
  ASSUME NEW s \in Session, TypeOK
  PROVE  CallsLeft(s) <= 5 * Cardinality(Name) + 5
<1>1. Cardinality(Live \ seen[s]) <= Cardinality(Name)
  BY LeftShrinks DEF Live
<1>2. Cardinality(Live \ seen[s]) \in Nat /\ Cardinality(Name) \in Nat
  BY LeftCounts DEF Live
<1>3. Rank[pc[s]] \in 0..5
  BY DEF TypeOK, Rank
<1> QED
  BY <1>1, <1>2, <1>3 DEF CallsLeft
=============================================================================
