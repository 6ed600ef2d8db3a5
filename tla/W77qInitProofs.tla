---------------------------- MODULE W77qInitProofs ----------------------------
(***************************************************************************)
(* The invariants of W77qInit, for any set of failures.                    *)
(***************************************************************************)
EXTENDS W77qInit, TLAPS

\* Where boot is tells what it has found or written so far: the driver's flag
\* follows the session, until SET_KEY may end the session.
BootInv ==
  /\ pc \in {"off", "connect", "device", "id", "sizing", "resize", "open",
             "provision", "reopen"} => ~ready /\ ~session
  /\ pc \notin {"up", "failed"} => session = ready
  /\ session => ready
  /\ pc \in {"open", "provision", "reopen"} => size = "target"
  /\ pc = "resize" => size # "target"
  /\ pc = "provision" => keys # "derived" \/ ~clean
  /\ pc = "reopen" => keys = "derived"

\* Objects that must survive are on a chip that holds the size and keys boot
\* would write, and no format can touch them: where reads are refused, writes
\* are refused too.
KeptInv ==
  expect => /\ store = "objects"
            /\ Provisioned
            /\ pc \notin {"formatting", "remount"}
            /\ pc = "format" => ~ready /\ policy = ConfigPolicy

\* Keys are written with the policy, or the configuration counts as torn.
PolicyInv == keys = "derived" /\ ~torn => policy = ConfigPolicy

IndInv ==
  /\ TypeOK
  /\ BootInv
  /\ KeptInv
  /\ CleanBootIsSecure
  /\ PolicyInv

USE DEF chip, hist, vars

-----------------------------------------------------------------------------
(* Configurations *)

\* The two policies, so that no later step looks inside them.
LEMMA Policies ==
  /\ FabPolicy # ConfigPolicy
  /\ ~ConfigPolicy.read /\ ~ConfigPolicy.write
  /\ FabPolicy.read /\ FabPolicy.write
BY DEF FabPolicy, ConfigPolicy

\* w77q_configChip, complete: a chip that has size and keys keeps its data.
LEMMA Configured ==
  ASSUME TypeOK, ConfigChip
  PROVE  /\ size' = "target" /\ keys' = "derived" /\ policy' = ConfigPolicy
         /\ torn' = FALSE /\ expect' = expect
         /\ store' \in {store, "blank"}
         /\ Provisioned => store' = store
BY DEF TypeOK, ConfigChip, Write, ConfigKeys, Provisioned

\* An interrupted configuration has written some of what was to be written.
LEMMA SomeWritten ==
  ASSUME NEW s, NEW k, NEW p, WriteSome(s, k, p)
  PROVE  /\ size' \in {size, s} /\ keys' \in {keys, k} /\ policy' \in {policy, p}
         /\ torn' = TRUE
         /\ store' \in {store, "blank"}
         /\ s = size /\ k = keys => store' = store
<1>1. PICK s1 \in {size, s}, k1 \in {keys, k}, p1 \in {policy, p} : Write(s1, k1, p1)
  BY DEF WriteSome
<1> QED
  BY <1>1 DEF Write, WriteSome

\* What both uses of w77q_configChip may do, for the invariants.
LEMMA FailedConfig ==
  ASSUME TypeOK, ConfigChipFails
  PROVE  /\ pc' = "mount" /\ clean' = FALSE /\ expect' = expect
         /\ size' \in {size, "target"}
         /\ keys' \in {keys, "derived"}
         /\ policy' \in {policy, ConfigPolicy}
         /\ store' \in {store, "blank"} /\ torn' \in BOOLEAN
         /\ Provisioned => store' = store
         /\ torn' \/ (keys' = keys /\ policy' = policy /\ torn' = torn)
<1>1. CASE QlibFails(PlainMode) /\ UNCHANGED <<chip, hist>>
  BY <1>1 DEF QlibFails, Failed, PlainMode, TypeOK
<1>2. CASE /\ "config" \in Fault /\ Failed(PlainMode)
           /\ WriteSome("target", ConfigKeys, ConfigPolicy) /\ UNCHANGED expect
  BY <1>2, SomeWritten DEF Failed, PlainMode, ConfigKeys, Provisioned
<1> QED
  BY <1>1, <1>2 DEF ConfigChipFails

-----------------------------------------------------------------------------
(* The inductive invariant *)

LEMMA InitInv == Init => IndInv
BY Policies DEF Init, IndInv, TypeOK, BootInv, KeptInv, CleanBootIsSecure,
                PolicyInv

\* SET_KEY, whole or not, ends what was expected of the storage section.
LEMMA KeyWritten ==
  ASSUME IndInv, pc \in {"up", "failed"},
         \/ Write("none", "none", ConfigPolicy) /\ torn' = torn
         \/ WriteSome("none", "none", ConfigPolicy)
  PROVE  /\ size' \in {size, "none"} /\ keys' \in {keys, "none"}
         /\ policy' \in {policy, ConfigPolicy}
         /\ store' \in {store, "blank"} /\ torn' \in BOOLEAN
         /\ PolicyInv'
<1>1. CASE Write("none", "none", ConfigPolicy) /\ torn' = torn
  BY <1>1 DEF Write, IndInv, TypeOK, PolicyInv
<1>2. CASE WriteSome("none", "none", ConfigPolicy)
  BY <1>2, SomeWritten DEF PolicyInv
<1> QED
  BY <1>1, <1>2

\* w77q_configChip, complete, at either of its two calls.
LEMMA ConfigStep ==
  ASSUME IndInv, pc \in {"resize", "provision"}, pc' \in {"open", "reopen"},
         clean' = clean, session' = session, ready' = ready, ConfigChip
  PROVE  IndInv'
<1>1. /\ size' = "target" /\ keys' = "derived" /\ policy' = ConfigPolicy
      /\ torn' = FALSE /\ expect' = expect
      /\ store' \in {store, "blank"}
      /\ Provisioned => store' = store
  BY Configured DEF IndInv
<1>2. ready = FALSE /\ session = FALSE
  BY DEF IndInv, BootInv, TypeOK
<1>3. TypeOK'
  BY <1>1, <1>2 DEF IndInv, TypeOK
<1>4. BootInv'
  BY <1>1, <1>2 DEF BootInv
<1>5. KeptInv'
  BY <1>1 DEF IndInv, KeptInv, Provisioned
<1>6. CleanBootIsSecure' /\ PolicyInv'
  BY <1>1 DEF CleanBootIsSecure, PolicyInv
<1> QED
  BY <1>3, <1>4, <1>5, <1>6 DEF IndInv

\* w77q_configChip fails: boot goes on in plain mode.
LEMMA ConfigFailsStep ==
  ASSUME IndInv, pc \in {"resize", "provision"}, ConfigChipFails,
         session' = session, ready' = ready
  PROVE  IndInv'
<1>1. /\ pc' = "mount" /\ clean' = FALSE /\ expect' = expect
      /\ size' \in {size, "target"}
      /\ keys' \in {keys, "derived"}
      /\ policy' \in {policy, ConfigPolicy}
      /\ store' \in {store, "blank"} /\ torn' \in BOOLEAN
      /\ Provisioned => store' = store
      /\ torn' \/ (keys' = keys /\ policy' = policy /\ torn' = torn)
  BY FailedConfig DEF IndInv
<1>2. ready = FALSE /\ session = FALSE
  BY DEF IndInv, BootInv, TypeOK
<1>3. TypeOK'
  BY <1>1, <1>2 DEF IndInv, TypeOK
<1>4. BootInv'
  BY <1>1, <1>2 DEF BootInv
<1>5. KeptInv'
  BY <1>1 DEF IndInv, KeptInv, Provisioned
<1>6. CleanBootIsSecure' /\ PolicyInv'
  BY <1>1 DEF IndInv, CleanBootIsSecure, PolicyInv
<1> QED
  BY <1>3, <1>4, <1>5, <1>6 DEF IndInv

\* Power is lost while either call runs.
LEMMA ConfigTornStep ==
  ASSUME IndInv, pc \in {"resize", "provision"}, PowerDown,
         WriteSome("target", ConfigKeys, ConfigPolicy), expect' = expect
  PROVE  IndInv'
<1>1. /\ size' \in {size, "target"} /\ keys' \in {keys, "derived"}
      /\ policy' \in {policy, ConfigPolicy}
      /\ store' \in {store, "blank"} /\ torn' = TRUE
      /\ Provisioned => store' = store
  BY SomeWritten DEF ConfigKeys, Provisioned
<1>2. pc' = "off" /\ session' = FALSE /\ ready' = FALSE /\ clean' = clean
  BY DEF PowerDown
<1>3. TypeOK'
  BY <1>1, <1>2 DEF IndInv, TypeOK
<1>4. BootInv'
  BY <1>2 DEF BootInv
<1>5. KeptInv'
  BY <1>1, <1>2 DEF IndInv, KeptInv, Provisioned
<1>6. CleanBootIsSecure' /\ PolicyInv'
  BY <1>1, <1>2 DEF CleanBootIsSecure, PolicyInv
<1> QED
  BY <1>3, <1>4, <1>5, <1>6 DEF IndInv

LEMMA NextInv == IndInv /\ [Next]_vars => IndInv'
<1> SUFFICES ASSUME IndInv, [Next]_vars PROVE IndInv'
  OBVIOUS
<1> USE Policies DEF IndInv, TypeOK, BootInv, KeptInv, CleanBootIsSecure,
                     PolicyInv, Goto, QlibFails, Failed, FlashFails, PlainMode
<1>1. CASE PowerOn
  BY <1>1 DEF PowerOn, Provisioned
<1>2. CASE Connect
  BY <1>2 DEF Connect, Provisioned
<1>3. CASE InitDevice
  BY <1>3 DEF InitDevice, Provisioned
<1>4. CASE GetIdAndKeys
  BY <1>4 DEF GetIdAndKeys, Provisioned
<1>5. CASE CheckSize
  BY <1>5 DEF CheckSize, Provisioned
<1>6. CASE Resize
  <2> HIDE DEF IndInv
  <2>1. CASE Goto("open") /\ ConfigChip
    BY <1>6, <2>1, ConfigStep DEF Resize
  <2>2. CASE ConfigChipFails
    BY <1>6, <2>2, ConfigFailsStep DEF Resize
  <2> QED
    BY <1>6, <2>1, <2>2 DEF Resize
<1>7. CASE OpenSession
  <2>1. CASE SessionOpens
    BY <1>7, <2>1 DEF OpenSession, SessionOpens, Provisioned
  <2>2. CASE SessionFails("provision")
    BY <1>7, <2>2 DEF OpenSession, SessionFails, Provisioned
  <2> QED
    BY <1>7, <2>1, <2>2 DEF OpenSession
<1>8. CASE Provision
  <2> HIDE DEF IndInv
  <2>1. CASE Goto("reopen") /\ ConfigChip
    BY <1>8, <2>1, ConfigStep DEF Provision
  <2>2. CASE ConfigChipFails
    BY <1>8, <2>2, ConfigFailsStep DEF Provision
  <2> QED
    BY <1>8, <2>1, <2>2 DEF Provision
<1>9. CASE ReopenSession
  <2>1. CASE SessionOpens
    BY <1>9, <2>1 DEF ReopenSession, SessionOpens, Provisioned
  <2>2. CASE SessionFails(PlainMode)
    BY <1>9, <2>2 DEF ReopenSession, SessionFails, Provisioned
  <2> QED
    BY <1>9, <2>1, <2>2 DEF ReopenSession
<1>10. CASE Mount
  BY <1>10 DEF Mount, CanRead, Provisioned
<1>11. CASE MountFails
  <2>1. pc = "mount" /\ pc' = "format" /\ clean' \in {clean, FALSE}
    BY <1>11 DEF MountFails
  <2>2. expect' => expect /\ ~CanRead
    BY <1>11 DEF MountFails, Provisioned
  <2>3. expect' => ~ready /\ policy = ConfigPolicy
    BY <2>1, <2>2 DEF CanRead, Provisioned
  <2>4. expect' \in BOOLEAN
    BY <1>11 DEF MountFails
  <2>5. TypeOK'
    BY <1>11, <2>1, <2>2, <2>3, <2>4 DEF MountFails
  <2>6. BootInv'
    BY <1>11, <2>1, <2>2, <2>3, <2>4 DEF MountFails, Provisioned
  <2>7. KeptInv'
    BY <1>11, <2>1, <2>2, <2>3, <2>4 DEF MountFails, Provisioned
  <2>8. CleanBootIsSecure' /\ PolicyInv'
    BY <1>11, <2>1, <2>2, <2>3, <2>4 DEF MountFails, Provisioned
  <2> QED
    BY <2>5, <2>6, <2>7, <2>8
<1>12. CASE FormatBegin
  BY <1>12 DEF FormatBegin, CanWrite, Provisioned
<1>13. CASE FormatEnd
  BY <1>13 DEF FormatEnd, CanRead, CanWrite, Provisioned
<1>14. CASE FormatFails
  <2>1. pc \in {"format", "formatting"} /\ pc' = "failed"
    BY <1>14 DEF FormatFails
  <2>2. clean => CanRead /\ CanWrite
    BY <2>1 DEF CanRead, CanWrite, Provisioned
  <2>3. clean' = FALSE
    BY <1>14, <2>2 DEF FormatFails
  <2> QED
    BY ZenonT(30), <1>14, <2>1, <2>3 DEF FormatFails, Provisioned
<1>15. CASE Remount
  <2>1. CASE Goto("up")
    BY <1>15, <2>1 DEF Remount, Provisioned
  <2>2. CASE FlashFails("failed")
    BY <1>15, <2>2 DEF Remount, Provisioned
  <2> QED
    BY <1>15, <2>1, <2>2 DEF Remount
<1>16. CASE StoreObject
  BY <1>16 DEF StoreObject, CanRead, CanWrite, Provisioned
<1>17. CASE SetKey
  <2>1. /\ size' \in {size, "none"} /\ keys' \in {keys, "none"}
        /\ policy' \in {policy, ConfigPolicy}
        /\ store' \in {store, "blank"} /\ torn' \in BOOLEAN
        /\ PolicyInv'
    BY <1>17, KeyWritten DEF SetKey
  <2>2. /\ pc \in {"up", "failed"} /\ pc' = pc /\ ready' = ready
        /\ session' = session \/ session' = FALSE
        /\ expect' = FALSE
        /\ clean' = clean \/ clean' = FALSE
    BY <1>17 DEF SetKey
  <2>3. /\ size' \in {"none", "other", "target"} /\ keys' \in {"none", "derived"}
        /\ policy' \in {FabPolicy, ConfigPolicy}
        /\ store' \in {"blank", "tree", "objects"}
    BY <2>1
  <2>4. session' \in BOOLEAN /\ ready' \in BOOLEAN /\ clean' \in BOOLEAN
        /\ torn' \in BOOLEAN /\ expect' \in BOOLEAN
    BY <2>1, <2>2
  <2>5. TypeOK'
    BY <2>2, <2>3, <2>4
  <2>6. BootInv' /\ KeptInv'
    BY <2>2
  <2>7. CleanBootIsSecure'
    BY <2>2
  <2> QED
    BY <2>1, <2>5, <2>6, <2>7
<1>18. CASE Crash
  BY <1>18 DEF Crash, PowerDown, Provisioned
<1>19. CASE CrashConfiguring
  <2>1. CASE /\ pc \in {"resize", "provision"}
             /\ WriteSome("target", ConfigKeys, ConfigPolicy) /\ UNCHANGED expect
    BY <1>19, <2>1, ConfigTornStep DEF CrashConfiguring
  <2>2. CASE /\ pc \in {"up", "failed"}
             /\ WriteSome("none", "none", ConfigPolicy) /\ expect' = FALSE
    BY ZenonT(30), <1>19, <2>2, KeyWritten DEF CrashConfiguring, PowerDown
  <2> QED
    BY ZenonT(30), <1>19, <2>1, <2>2 DEF CrashConfiguring
<1>20. CASE UNCHANGED vars
  BY <1>20 DEF Provisioned
<1> QED
  BY <1>1, <1>2, <1>3, <1>4, <1>5, <1>6, <1>7, <1>8, <1>9, <1>10,
     <1>11, <1>12, <1>13, <1>14, <1>15, <1>16, <1>17, <1>18, <1>19, <1>20 DEF Next

\* The invariant holds in every reachable state, whatever may fail.
THEOREM Inductive == Spec => []IndInv
BY InitInv, NextInv, PTL DEF Spec

\* Every variable keeps its type.
THEOREM TypeCorrect == Spec => []TypeOK
BY Inductive, PTL DEF IndInv

\* A boot in which nothing fails ends with a session on a provisioned chip,
\* from whatever state earlier boots have left.
THEOREM CleanBootsSecure == Spec => []CleanBootIsSecure
BY Inductive, PTL DEF IndInv

\* A chip with size and keys is configured again only after a failed call.
THEOREM ConfiguredOnce == Spec => []ConfiguresOnce
<1>1. IndInv => ConfiguresOnce
  BY DEF IndInv, BootInv, ConfiguresOnce, Provisioned
<1> QED
  BY <1>1, Inductive, PTL

\* Objects on a provisioned chip survive every boot but one whose mount fails
\* to read them.
THEOREM ObjectsKept == Spec => []ObjectsSurviveBoots
<1>1. IndInv => ObjectsSurviveBoots
  BY DEF IndInv, KeptInv, ObjectsSurviveBoots
<1> QED
  BY <1>1, Inductive, PTL

\* Only an interrupted configuration leaves plain access to a section with a
\* session.
THEOREM PlainClosed == Spec => []SessionClosesPlain
<1>1. IndInv => SessionClosesPlain
  BY Policies DEF IndInv, PolicyInv, SessionClosesPlain
<1> QED
  BY <1>1, Inductive, PTL
=============================================================================
