------------------------------- MODULE W77qInit -------------------------------
(***************************************************************************)
(* Boot over a chip whose configuration survives power loss: w77q_init and *)
(* w77q_configChip (w77q_qlib.c), then the mount of tee_lfs_init           *)
(* (tee_lfs_storage.c), which formats what it cannot mount.  At run time   *)
(* only what decides the next boots: objects are stored, and the           *)
(* provisioning PTA may write another configuration.                       *)
(*                                                                         *)
(* The chip is external: the storage section's size, whether it holds the  *)
(* keys derived from the chip's WID, its plain-access policy, and what is  *)
(* stored in it.  Rules: a session opens if and only if the keys match;    *)
(* without one the policy decides; an interrupted configuration has        *)
(* written any of its three parts; a section keeps its data when it is     *)
(* given the size and keys it has, and may lose them otherwise             *)
(* (user-guide/cve-findings.md, 2.8).  The device master key is taken to   *)
(* be right, and the WID to be that of one chip.                           *)
(***************************************************************************)

CONSTANT Fault   \* failures that may happen: "qlib" (a QLIB call or a key
                 \* derivation fails), "config" (QLIB_ConfigDeviceMultiDie
                 \* fails half-way), "flash" (LittleFS's reads and writes)

VARIABLES
  size,      \* the storage section: W77Q_SECTION1_SIZE_MB ("target") or not
  keys,      \* its keys
  policy,    \* plainAccessReadEnable, plainAccessWriteEnable
  store,     \* what it holds: no tree, an empty tree, a tree with objects
  pc,        \* the step boot has reached
  session,   \* the chip's session on the storage section
  ready,     \* g_sec1_ready_b_L
  clean,     \* history: nothing has failed since power on
  torn,      \* history: a configuration was interrupted, none completed since
  expect     \* history: objects stored on the provisioned chip, which no
             \* later event excuses the loss of

chip == <<size, keys, policy, store>>
hist == <<torn, expect>>
vars == <<chip, pc, session, ready, clean, hist>>

FabPolicy    == [read |-> TRUE,  write |-> TRUE]
WritablePolicy == [read |-> FALSE, write |-> TRUE]     \* a mutant
ReadablePolicy == [read |-> TRUE, write |-> FALSE]     \* a mutant
ConfigPolicy == [read |-> FALSE, write |-> FALSE]

TypeOK ==
  /\ size \in {"none", "other", "target"}
  /\ keys \in {"none", "derived"}
  /\ policy \in {FabPolicy, ConfigPolicy}
  /\ store \in {"blank", "tree", "objects"}
  /\ pc \in {"off", "connect", "device", "id", "sizing", "resize", "open",
             "provision", "reopen", "mount", "format", "formatting",
             "remount", "up", "failed"}
  /\ session \in BOOLEAN /\ ready \in BOOLEAN /\ clean \in BOOLEAN
  /\ torn \in BOOLEAN /\ expect \in BOOLEAN

\* A chip from the fab has an open policy and no keys, and may already have
\* the target size; or an earlier build has used it with another size.
Init ==
  /\ \/ /\ size \in {"none", "other", "target"}
        /\ keys = "none" /\ policy = FabPolicy /\ store = "blank"
     \/ /\ size = "other" /\ keys = "derived" /\ policy = ConfigPolicy
        /\ store \in {"tree", "objects"}
  /\ pc = "off" /\ session = FALSE /\ ready = FALSE /\ clean = TRUE
  /\ torn = FALSE /\ expect = FALSE

Provisioned == size = "target" /\ keys = "derived"

\* w77q_read, w77q_write and w77q_erase_sector access the section through the
\* session when g_sec1_ready_b_L says there is one, else plainly.
CanRead  == size # "none" /\ IF ready THEN session ELSE policy.read
CanWrite == size # "none" /\ IF ready THEN session ELSE policy.write

-----------------------------------------------------------------------------
(* Steps of boot *)

Goto(next)   == pc' = next /\ UNCHANGED clean
Failed(next) == pc' = next /\ clean' = FALSE
QlibFails(next) == "qlib" \in Fault /\ Failed(next)
PlainMode    == "mount"     \* the label plain_mode, where ready is FALSE

PowerOn ==
  /\ pc = "off"
  /\ pc' = "connect" /\ clean' = TRUE
  /\ UNCHANGED <<chip, session, ready, hist>>

\* QLIB_InitLib, QLIB_Connect; QLIB_PerformMaintenance may fail unnoticed.
Connect ==
  /\ pc = "connect"
  /\ Goto("device") \/ QlibFails("failed")
  /\ UNCHANGED <<chip, session, ready, hist>>

InitDevice ==
  /\ pc = "device"
  /\ Goto("id") \/ QlibFails(PlainMode)
  /\ UNCHANGED <<chip, session, ready, hist>>

\* QLIB_GetId and the test of the WID, then the derivation of both keys.
GetIdAndKeys ==
  /\ pc = "id"
  /\ Goto("sizing") \/ QlibFails("failed") \/ QlibFails(PlainMode)
  /\ UNCHANGED <<chip, session, ready, hist>>

CheckSizeNever ==     \* a mutant: always configured
  /\ pc = "sizing"
  /\ Goto("resize") \/ QlibFails(PlainMode)
  /\ UNCHANGED <<chip, session, ready, hist>>

\* QLIB_GetDeviceSectionConfig: "Only provision if section 1 is not yet sized".
CheckSize ==
  /\ pc = "sizing"
  /\ \/ size = "target" /\ Goto("open")
     \/ size # "target" /\ Goto("resize")
     \/ QlibFails(PlainMode)
  /\ UNCHANGED <<chip, session, ready, hist>>

\* QLIB_ConfigDeviceMultiDie: a call that succeeds has written every part of
\* the configuration, one that is interrupted any of them.
Write(s, k, p) ==
  /\ size' = s /\ keys' = k /\ policy' = p
  /\ store' \in IF s = size /\ k = keys THEN {store} ELSE {store, "blank"}

WriteSome(s, k, p) ==
  /\ \E s1 \in {size, s}, k1 \in {keys, k}, p1 \in {policy, p} : Write(s1, k1, p1)
  /\ torn' = TRUE

ConfigKeys == "derived"

\* w77q_configChip up to its return.
ConfigChip ==
  /\ Write("target", ConfigKeys, ConfigPolicy)
  /\ torn' = FALSE /\ UNCHANGED expect

ConfigChipFails ==
  \/ QlibFails(PlainMode) /\ UNCHANGED <<chip, hist>>
  \/ /\ "config" \in Fault /\ Failed(PlainMode)
     /\ WriteSome("target", ConfigKeys, ConfigPolicy) /\ UNCHANGED expect

Resize ==
  /\ pc = "resize"
  /\ (Goto("open") /\ ConfigChip) \/ ConfigChipFails
  /\ UNCHANGED <<session, ready>>

\* QLIB_LoadKey of both keys and QLIB_OpenSession.
SessionOpens ==
  /\ keys = "derived"
  /\ session' = TRUE /\ ready' = TRUE
  /\ Goto("mount")

SessionFails(next) ==
  /\ (keys # "derived" /\ Goto(next)) \/ QlibFails(next)
  /\ UNCHANGED <<session, ready>>

OpenSession ==
  /\ pc = "open"
  /\ SessionOpens \/ SessionFails("provision")
  /\ UNCHANGED <<chip, hist>>

ProvisionOnly ==     \* a mutant: the session is not tried again
  /\ pc = "provision"
  /\ (Goto(PlainMode) /\ ConfigChip) \/ ConfigChipFails
  /\ UNCHANGED <<session, ready>>

\* The label try_provision.
Provision ==
  /\ pc = "provision"
  /\ (Goto("reopen") /\ ConfigChip) \/ ConfigChipFails
  /\ UNCHANGED <<session, ready>>

ReopenSession ==
  /\ pc = "reopen"
  /\ SessionOpens \/ SessionFails(PlainMode)
  /\ UNCHANGED <<chip, hist>>

-----------------------------------------------------------------------------
(* tee_lfs_init after W77Q_LFS_PORT_HwInit *)

\* A failing read of a tree that is there excuses what the format then does.
FlashFails(next) == "flash" \in Fault /\ Failed(next)

Mount ==
  /\ pc = "mount"
  /\ CanRead /\ store # "blank"
  /\ Goto("up")
  /\ UNCHANGED <<chip, session, ready, hist>>

MountFails ==
  /\ pc = "mount"
  /\ \/ (~CanRead \/ store = "blank") /\ Goto("format") /\ UNCHANGED expect
     \/ CanRead /\ FlashFails("format") /\ expect' = FALSE
  /\ UNCHANGED <<chip, session, ready, torn>>

\* lfs_format erases the first block, writes the root and fetches it back.
FormatBegin ==
  /\ pc = "format"
  /\ CanWrite
  /\ store' = "blank" /\ Goto("formatting")
  /\ UNCHANGED <<size, keys, policy, session, ready, hist>>

FormatEnd ==
  /\ pc = "formatting"
  /\ CanWrite /\ CanRead
  /\ store' = "tree" /\ Goto("remount")
  /\ UNCHANGED <<size, keys, policy, session, ready, hist>>

FormatFails ==
  /\ \/ pc = "format" /\ ~CanWrite /\ Goto("failed")
     \/ pc = "formatting" /\ ~CanRead /\ Goto("failed")
     \/ pc \in {"format", "formatting"} /\ FlashFails("failed")
  /\ UNCHANGED <<chip, session, ready, hist>>

Remount ==
  /\ pc = "remount"
  /\ Goto("up") \/ FlashFails("failed")
  /\ UNCHANGED <<chip, session, ready, hist>>

-----------------------------------------------------------------------------
(* After boot *)

StoreObject ==
  /\ pc = "up"
  /\ CanRead /\ CanWrite
  /\ store' = "objects"
  /\ expect' = (expect \/ (session /\ Provisioned))
  /\ UNCHANGED <<size, keys, policy, pc, session, ready, clean, torn>>

\* W77Q_PROVISION_CMD_SET_KEY: the table w77q_qlib_provision writes has every
\* section disabled but CFG_W77Q_QLIB_SECTION_ID, which is not the storage
\* section.  The driver is not told; the session may end.
SetKey ==
  /\ pc \in {"up", "failed"}
  /\ \/ Write("none", "none", ConfigPolicy) /\ UNCHANGED <<torn, clean>>
     \/ "config" \in Fault /\ WriteSome("none", "none", ConfigPolicy) /\ clean' = FALSE
  /\ session' \in {session, FALSE}
  /\ expect' = FALSE
  /\ UNCHANGED <<pc, ready>>

PowerDown == pc' = "off" /\ session' = FALSE /\ ready' = FALSE /\ UNCHANGED clean

Crash ==
  /\ pc # "off"
  /\ PowerDown
  /\ UNCHANGED <<chip, hist>>

CrashConfiguring ==
  /\ PowerDown
  /\ \/ /\ pc \in {"resize", "provision"}
        /\ WriteSome("target", ConfigKeys, ConfigPolicy) /\ UNCHANGED expect
     \/ /\ pc \in {"up", "failed"}
        /\ WriteSome("none", "none", ConfigPolicy) /\ expect' = FALSE

Next ==
  \/ PowerOn \/ Connect \/ InitDevice \/ GetIdAndKeys \/ CheckSize
  \/ Resize \/ OpenSession \/ Provision \/ ReopenSession
  \/ Mount \/ MountFails \/ FormatBegin \/ FormatEnd \/ FormatFails \/ Remount
  \/ StoreObject \/ SetKey \/ Crash \/ CrashConfiguring

Spec == Init /\ [][Next]_vars

-----------------------------------------------------------------------------
(* Properties *)

\* A boot in which nothing fails reaches the mount with the session open on a
\* chip of the target size, and never the error return of the driver, whatever
\* earlier boots, power losses and configurations have left (w77q_init).
CleanBootIsSecure ==
  clean => /\ pc \in {"mount", "format", "formatting", "remount"} =>
                session /\ ready /\ Provisioned
           /\ pc = "up" => ready
           /\ pc # "failed"

\* "Only provision if section 1 is not yet sized": a chip that has size and
\* keys is configured again only in a boot in which a call has failed
\* (w77q_init 397-435, and the label try_provision).
ConfiguresOnce ==
  pc \in {"resize", "provision"} /\ Provisioned => ~clean

\* Objects stored on a provisioned chip stay, over boots that fall back to
\* plain mode, repeated and interrupted configurations and power loss: only a
\* failing read at mount and SET_KEY destroy them (w77q_init, tee_lfs_init).
ObjectsSurviveBoots == expect => store = "objects"

\* With a session open no plain access is left, unless a configuration was
\* interrupted: boot looks at size and keys, never at the policy
\* (w77q_init 414, 457; w77q_read_plain).
SessionClosesPlain ==
  session /\ keys = "derived" /\ ~torn => ~policy.read /\ ~policy.write

=============================================================================
