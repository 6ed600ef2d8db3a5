------------------------- MODULE TeeDemoObjectsProofs -------------------------
(* That the demo objects survive power loss, for any number of objects. *)
EXTENDS TeeDemoObjects, TLAPS

USE ObjectsAssumption, KindsAssumption

\* A successor is a version.
LEMMA BumpVersion ==
  ASSUME NEW v \in Version, NEW c \in Replacing
  PROVE  Bump(v, c) \in Version /\ Bump(v, c) \in Successors(v)
BY DEF Bump, Successors, Version, Replacing

LEMMA FirstVersion == First \in Version
BY DEF First, Version

\* Where the next loop iteration starts, if there is one.
LEMMA NextIndex ==
  ASSUME i \in Index, count \in 1..MaxObjects, i < count, NextObject
  PROVE  /\ i' \in Index /\ i' < count
         /\ \/ i' = i + 1 /\ res' = res /\ pc' = (IF cmd = "init" THEN "new" ELSE "open")
            \/ i' = i /\ count = i + 1 /\ res' = "ok" /\ pc' = "idle"
BY DEF NextObject, Succeed, Index

LEMMA InitIndInv == Init => IndInv
<1> SUFFICES ASSUME Init PROVE IndInv
  OBVIOUS
<1>1. 0 \in Index /\ 1 \in 1..MaxObjects
  BY DEF Index
<1>2. TypeOK
  BY <1>1, FirstVersion DEF Init, TypeOK, Unreadable
<1>3. /\ CopySurvives /\ SuccessIsComplete /\ NamedIsReached /\ StepInv /\ LoopInv
      /\ PasswordInForce
  BY DEF Init, Replacing, PasswordInForce, CopySurvives, SuccessIsComplete, NamedIsReached, StepInv, LoopInv, Present
<1> QED BY <1>2, <1>3 DEF IndInv

LEMMA NextTyped == TypeOK /\ StepInv /\ Next => TypeOK'
<1> SUFFICES ASSUME TypeOK, StepInv, Next PROVE TypeOK'
  OBVIOUS
<1> USE DEF TypeOK
<1>0. i < count
  BY DEF StepInv
<1>1. CASE BeginInit
  <2>1. 0 \in Index
    BY DEF Index
  <2> QED BY <1>1, <2>1 DEF BeginInit, flash, key
<1>2. ASSUME NEW c \in Replacing, BeginReplace(c) PROVE TypeOK'
  <2>1. 0 \in Index /\ MaxObjects \in 1..MaxObjects
    BY DEF Index
  <2> QED BY <1>2, <2>1 DEF BeginReplace, flash, key
<1>3. CASE NewName
  BY <1>3 DEF NewName, Goto, Fail, told, key
<1>4. CASE NewFill
  <2>1. pc' \in {"idle", "new", "open"} /\ i' \in Index /\ res' \in {"ok", "error"}
    BY <1>4, <1>0, NextIndex DEF NewFill, Fail
  <2>2. main' \in [Index -> {Absent, Torn} \cup Version]
    BY <1>4, FirstVersion DEF NewFill
  <2>3. reached' \in [Index -> Version \cup {Absent}]
    BY <1>4, FirstVersion DEF NewFill
  <2>4. intact' \in [Index -> BOOLEAN]
    BY <1>4 DEF NewFill
  <2> QED BY <1>4, <2>1, <2>2, <2>3, <2>4 DEF NewFill, key
<1>5. CASE OpenMain
  <2>1. pc' \in {"idle", "new", "open", "zeroize"} /\ i' \in Index /\ res' \in {"ok", "error"}
    BY <1>5, <1>0, NextIndex DEF OpenMain, Fail, Goto
  <2>2. main' \in [Index -> {Absent, Torn} \cup Version]
    BY <1>5 DEF OpenMain, Rejected
  <2>3. data' \in Version
    BY <1>5, BumpVersion DEF OpenMain, Present, StepInv
  <2> QED BY <1>5, <2>1, <2>2, <2>3 DEF OpenMain, told, key
<1>6. CASE CopyZeroize
  BY <1>6 DEF CopyZeroize, Goto, told, key, Unreadable
<1>7. CASE CopyName
  BY <1>7 DEF CopyName, Goto, Fail, told, key, Unreadable
<1>8. CASE CopyFill
  <2>1. pc' \in {"idle", "delete"} /\ UNCHANGED i /\ res' \in {"ok", "error"}
    BY <1>8 DEF CopyFill, Fail, Goto
  <2>2. tmp' \in [Index -> Unreadable \cup Version]
    BY <1>8 DEF CopyFill, Unreadable
  <2>3. intact' \in [Index -> BOOLEAN]
    BY <1>8 DEF CopyFill
  <2> QED BY <1>8, <2>1, <2>2, <2>3 DEF CopyFill, key
<1>9. CASE DeleteMain
  BY <1>9 DEF DeleteMain, Goto, Fail, told, key
<1>16. CASE Reformat
  BY <1>16 DEF Reformat, Unreadable
<1>10. CASE RenameCopy
  <2>1. pc' \in {"idle", "new", "open"} /\ i' \in Index /\ res' \in {"ok", "error"}
    BY <1>10, <1>0, NextIndex DEF RenameCopy, Fail
  <2>2. /\ main' \in [Index -> {Absent, Torn} \cup Version]
        /\ tmp' \in [Index -> Unreadable \cup Version]
        /\ reached' \in [Index -> Version \cup {Absent}]
    BY <1>10 DEF RenameCopy, Present, Unreadable
  <2> QED BY <1>10, <2>1, <2>2 DEF RenameCopy, key
<1>11. CASE PowerLoss
  BY <1>11 DEF PowerLoss, flash, told, key
<1>12. ASSUME NEW p \in Password, BeginSet(p) PROVE TypeOK'
  BY <1>12 DEF BeginSet, Goto, flash, told
<1>13. CASE SetZeroize \/ SetName \/ SetFill
  <2>1. pw' \in Unreadable \cup Password /\ inforce' \in SUBSET (Password \cup {"none"})
    BY <1>13 DEF SetZeroize, SetName, SetFill, Unreadable
  <2> QED BY <1>13, <2>1 DEF SetZeroize, SetName, SetFill, Goto, Fail, Succeed, flash, told
<1>14. CASE Verify
  BY <1>14 DEF Verify, Goto, Fail, flash, told, Unreadable
<1>15. CASE BeginList \/ List
  BY <1>15 DEF BeginList, List, Goto, Fail, Succeed, flash, told, key
<1> QED
  BY <1>1, <1>2, <1>3, <1>4, <1>5, <1>6, <1>7, <1>8, <1>9, <1>10, <1>11, <1>12, <1>13, <1>14,
     <1>15, <1>16 DEF Next

\* A command knows what it has done so far; one that ends early returns an error.
LEMMA NextProgress ==
  ASSUME IndInv, Next
  PROVE  StepInv' /\ LoopInv' /\ SuccessIsComplete'
<1> USE DEF IndInv
<1>0. TypeOK /\ TypeOK'
  BY NextTyped
<1>1. CASE BeginInit
  BY <1>1, <1>0 DEF BeginInit, flash, key, StepInv, LoopInv, SuccessIsComplete, TypeOK, Index,
     Replacing
<1>2. ASSUME NEW c \in Replacing, BeginReplace(c)
      PROVE  StepInv' /\ LoopInv' /\ SuccessIsComplete'
  BY <1>2, <1>0 DEF BeginReplace, flash, key, StepInv, LoopInv, SuccessIsComplete, TypeOK, Index,
     Replacing
<1>3. CASE NewName
  <2>1. cmd = "init" /\ cmd \notin Replacing
    BY <1>3 DEF NewName, StepInv, Replacing
  <2>2. /\ UNCHANGED <<i, cmd, count, before, reached, intact, entry, inforce>>
        /\ \/ pc' = "newfill" /\ main' = [main EXCEPT ![i] = Torn]
           \/ pc' = "idle" /\ res' = "error" /\ main' = main
    BY <1>3 DEF NewName, Goto, Fail, told, key
  <2>3. StepInv'
    BY <1>0, <2>1, <2>2 DEF StepInv, TypeOK
  <2>4. LoopInv'
    BY <1>0, <1>3, <2>1, <2>2 DEF LoopInv, NewName, TypeOK, Index
  <2>5. SuccessIsComplete'
    BY <2>1, <2>2 DEF SuccessIsComplete
  <2> QED BY <2>3, <2>4, <2>5
<1>4. CASE NewFill
  <2>1. cmd = "init" /\ cmd \notin Replacing /\ i < count
    BY <1>4 DEF NewFill, StepInv, Replacing
  <2>2. UNCHANGED <<cmd, count, before, entry, inforce>>
    BY <1>4 DEF NewFill, key
  <2>3. \/ NextObject
        \/ Fail
    BY <1>4 DEF NewFill
  <2>4. /\ \A j \in Index : j # i => main'[j] = main[j] /\ intact'[j] = intact[j]
        /\ Fail \/ (intact'[i] => main'[i] = First)
    BY <1>0, <1>4 DEF NewFill, TypeOK
  <2>5. StepInv'
    BY <1>0, <2>1, <2>2, <2>3, NextIndex DEF StepInv, Fail, TypeOK
  <2>6. LoopInv'
    BY <1>0, <1>4, <2>1, <2>2, <2>3, <2>4, NextIndex DEF LoopInv, NewFill, Fail, TypeOK, Index
  <2>7. SuccessIsComplete'
    BY <1>0, <1>4, <2>1, <2>2, <2>3, <2>4, NextIndex DEF SuccessIsComplete, LoopInv, NewFill, Fail,
       TypeOK, Index
  <2> QED BY <2>5, <2>6, <2>7
<1>5. CASE OpenMain
  BY <1>5, <1>0, NextIndex DEF OpenMain, Goto, Fail, told, StepInv, LoopInv, SuccessIsComplete,
     TypeOK, Index, Replacing, Replaced, NamedIsReached, Present
<1>6. CASE CopyZeroize
  BY <1>6, <1>0 DEF CopyZeroize, Goto, told, key, StepInv, LoopInv, SuccessIsComplete, TypeOK, Replaced
<1>7. CASE CopyName
  BY <1>7, <1>0 DEF CopyName, Goto, Fail, told, key, StepInv, LoopInv, SuccessIsComplete, TypeOK, Replaced
<1>8. CASE CopyFill
  BY <1>8, <1>0 DEF CopyFill, Goto, Fail, told, key, StepInv, LoopInv, SuccessIsComplete, TypeOK, Replaced
<1>9. CASE DeleteMain
  <2>1. /\ pc = "delete"
        /\ pc' = "rename" \/ (pc' = "idle" /\ res' = "error" /\ main' = main)
        /\ UNCHANGED <<i, tmp, cmd, count, data, before, reached, intact, entry, inforce>>
    BY <1>9 DEF DeleteMain, Goto, Fail, told, key
  <2>2. StepInv'
    BY <2>1 DEF StepInv
  <2>3. \A j \in Index : j # i => main'[j] = main[j]
    BY <1>9, <1>0 DEF DeleteMain, TypeOK
  <2>4. i \in Index /\ \A j \in Index : j < i \/ j > i => j # i
    BY <1>0 DEF TypeOK, Index
  <2>5. LoopInv'
    BY <1>0, <2>1, <2>3, <2>4 DEF LoopInv, Replaced, StepInv
  <2>6. SuccessIsComplete'
    BY <2>1 DEF SuccessIsComplete
  <2> QED BY <2>2, <2>5, <2>6
<1>10. CASE RenameCopy
  <2>1. cmd # "init" /\ cmd \in Replacing /\ i < count /\ count = MaxObjects
    BY <1>10 DEF RenameCopy, StepInv, Replacing
  <2>2. UNCHANGED <<cmd, count, before, intact, entry, inforce>>
    BY <1>10 DEF RenameCopy, key
  <2>3. NextObject \/ Fail
    BY <1>10 DEF RenameCopy
  <2>4. \A j \in Index : j # i => main'[j] = main[j]
    BY <1>0, <1>10 DEF RenameCopy, TypeOK
  <2>5. Fail \/ (intact'[i] => main'[i] = Bump(before[i], cmd) /\ Present(before[i]))
    BY <1>0, <1>10 DEF RenameCopy, StepInv, TypeOK
  <2>6. StepInv'
    BY <1>0, <2>1, <2>2, <2>3, NextIndex DEF StepInv, Fail, TypeOK
  <2>7. LoopInv'
    BY <1>0, <1>10, <2>1, <2>2, <2>3, <2>4, <2>5, NextIndex
       DEF LoopInv, RenameCopy, Replaced, Fail, TypeOK, Index
  <2>8. SuccessIsComplete'
    BY <1>0, <1>10, <2>1, <2>2, <2>3, <2>4, <2>5, NextIndex
       DEF SuccessIsComplete, LoopInv, RenameCopy, Replaced, Fail, TypeOK, Index
  <2> QED BY <2>6, <2>7, <2>8
<1>11. CASE PowerLoss
  BY <1>11, <1>0 DEF PowerLoss, flash, told, key, StepInv, LoopInv, SuccessIsComplete, TypeOK
<1>16. CASE Reformat
  BY <1>16, <1>0 DEF Reformat, StepInv, LoopInv, SuccessIsComplete, TypeOK
<1>12. ASSUME NEW p \in Password, BeginSet(p)
      PROVE  StepInv' /\ LoopInv' /\ SuccessIsComplete'
  BY <1>12, <1>0 DEF BeginSet, Goto, flash, told, StepInv, LoopInv, SuccessIsComplete, Replacing
<1>13. CASE SetZeroize \/ SetName \/ SetFill
  BY <1>13, <1>0 DEF SetZeroize, SetName, SetFill, Goto, Fail, Succeed, flash, told, StepInv,
     LoopInv, SuccessIsComplete, Replacing
<1>14. CASE Verify
  BY <1>14, <1>0 DEF Verify, Goto, Fail, flash, told, StepInv, LoopInv, SuccessIsComplete, TypeOK,
     Index, Replacing, Replaced
<1>15. CASE BeginList \/ List
  BY <1>15, <1>0 DEF BeginList, List, Goto, Fail, Succeed, flash, told, key, StepInv, LoopInv,
     SuccessIsComplete, Replacing
<1> QED
  BY <1>1, <1>2, <1>3, <1>4, <1>5, <1>6, <1>7, <1>8, <1>9, <1>10, <1>11, <1>12, <1>13, <1>14,
     <1>15, <1>16 DEF Next

\* Only the end of a create or a rename puts a version under a name, and only
\* the delete takes one away.
LEMMA NextSurvives ==
  ASSUME IndInv, Next
  PROVE  CopySurvives' /\ NamedIsReached'
<1> USE DEF IndInv
<1>0. TypeOK /\ TypeOK'
  BY NextTyped
<1>1. CASE UNCHANGED <<main, tmp, reached, intact>>
  BY <1>1 DEF CopySurvives, NamedIsReached
<1>2. CASE NewName
  BY <1>2, <1>0 DEF NewName, told, CopySurvives, NamedIsReached, TypeOK, Present
<1>3. CASE NewFill
  BY <1>3, <1>0, FirstVersion DEF NewFill, StepInv, CopySurvives, NamedIsReached, TypeOK, Present
<1>4. CASE OpenMain
  BY <1>4, <1>0 DEF OpenMain, Rejected, told, CopySurvives, NamedIsReached, TypeOK, Present
<1>5. CASE CopyZeroize \/ CopyName
  BY <1>5, <1>0 DEF CopyZeroize, CopyName, StepInv, told, CopySurvives, NamedIsReached, TypeOK
<1>6. CASE CopyFill
  BY <1>6, <1>0 DEF CopyFill, StepInv, told, CopySurvives, NamedIsReached, TypeOK
<1>7. CASE DeleteMain
  BY <1>7, <1>0, BumpVersion DEF DeleteMain, StepInv, told, CopySurvives, NamedIsReached, TypeOK, Present
<1>8. CASE RenameCopy
  BY <1>8, <1>0 DEF RenameCopy, Rejected, StepInv, CopySurvives, NamedIsReached, TypeOK, Present
<1>9. CASE BeginInit \/ (\E c \in Replacing : BeginReplace(c)) \/ PowerLoss
  BY <1>1, <1>9 DEF BeginInit, BeginReplace, PowerLoss, flash, told
<1>10. CASE \/ \E p \in Password : BeginSet(p)
            \/ SetZeroize \/ SetName \/ SetFill \/ Verify \/ BeginList \/ List
  BY <1>1, <1>10 DEF BeginSet, SetZeroize, SetName, SetFill, Verify, BeginList, List, flash, told
<1>11. CASE Reformat
  BY <1>11, <1>0 DEF Reformat, CopySurvives, NamedIsReached, Present
<1> QED
  BY <1>2, <1>3, <1>4, <1>5, <1>6, <1>7, <1>8, <1>9, <1>10, <1>11 DEF Next

\* While a SET_PASSWORD is under way its password and none at all may be in force.
LEMMA NextPassword ==
  ASSUME TypeOK, StepInv, PasswordInForce, Next
  PROVE  PasswordInForce'
<1>1. CASE UNCHANGED <<pw, inforce>>
  BY <1>1 DEF PasswordInForce
<1>2. ASSUME NEW p \in Password, BeginSet(p) PROVE PasswordInForce'
  BY <1>2 DEF BeginSet, PasswordInForce
<1>3. CASE SetZeroize \/ SetName \/ SetFill
  BY <1>3 DEF SetZeroize, SetName, SetFill, PasswordInForce, StepInv, TypeOK
<1>4. CASE Verify
  BY <1>4 DEF Verify, PasswordInForce
<1>5. CASE BeginInit \/ (\E c \in Replacing : BeginReplace(c)) \/ PowerLoss \/ BeginList \/ List
  BY <1>1, <1>5 DEF BeginInit, BeginReplace, PowerLoss, BeginList, List, key
<1>6. CASE \/ NewName \/ NewFill \/ OpenMain \/ CopyZeroize \/ CopyName \/ CopyFill
           \/ DeleteMain \/ RenameCopy
  BY <1>1, <1>6 DEF NewName, NewFill, OpenMain, CopyZeroize, CopyName, CopyFill, DeleteMain,
     RenameCopy, key
<1>7. CASE Reformat
  BY <1>7 DEF Reformat, PasswordInForce
<1> QED BY <1>2, <1>3, <1>4, <1>5, <1>6, <1>7 DEF Next

-----------------------------------------------------------------------------
(* Theorems *)

\* IndInv is inductive, so it always holds.
THEOREM Inductive == Spec => []IndInv
<1>1. Init => IndInv
  BY InitIndInv
<1>2. IndInv /\ [Next]_vars => IndInv'
  <2>1. CASE Next
    BY <2>1, NextTyped, NextProgress, NextSurvives, NextPassword DEF IndInv
  <2>2. CASE UNCHANGED vars
    BY <2>2 DEF vars, flash, told, key, IndInv, PasswordInForce, TypeOK, CopySurvives, SuccessIsComplete, Replaced,
                NamedIsReached, StepInv, LoopInv
  <2> QED BY <2>1, <2>2
<1> QED BY <1>1, <1>2, PTL DEF Spec

\* Every variable keeps its type; the loop index stays below DEMO_MAX_OBJECTS.
THEOREM TypeCorrect == Spec => []TypeOK
<1>1. IndInv => TypeOK
  BY DEF IndInv
<1> QED BY <1>1, Inductive, PTL

\* Wherever power is lost or a call fails inside INIT, READ or UPDATE, the
\* version stored last under a name is there, or its complete successor is
\* under the temporary name.
THEOREM ObjectsSurvive == Spec => []CopySurvives
<1>1. IndInv => CopySurvives
  BY DEF IndInv
<1> QED BY <1>1, Inductive, PTL

\* A command that returns TEE_SUCCESS has created or replaced every object it
\* should have, each once.
THEOREM SuccessComplete == Spec => []SuccessIsComplete
<1>1. IndInv => SuccessIsComplete
  BY DEF IndInv
<1> QED BY <1>1, Inductive, PTL

\* The password that opens the demo is the one a SET_PASSWORD was answered for
\* last; only a SET_PASSWORD that was interrupted or failed leaves another or none.
THEOREM PasswordKept == Spec => []PasswordInForce
<1>1. IndInv => PasswordInForce
  BY DEF IndInv
<1> QED BY <1>1, Inductive, PTL
=============================================================================
