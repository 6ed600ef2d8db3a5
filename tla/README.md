# Verification of the W77Q secure storage

TLA+ models of the secure storage that OP-TEE 4.5 puts on a Winbond W77Q
flash (`src/meta-w77q-pkcs11`), TLC configurations that check them on small
instances, and TLAPS proofs of the main results for every instance. Paths
below are short for
`src/meta-w77q-pkcs11/recipes-bsp/optee/files/layer2_storage/tee_lfs_storage.c`
(`tee_lfs_storage.c`), `src/meta-w77q-pkcs11/tests/tee-demo/ta/tee_demo_ta.c`
(`tee_demo_ta.c`) and so on.

## 1. The system

```
 demo TA   tee-storage TA   PKCS#11 TA   test TAs        (user-mode TAs)
     \          |              |            /
      OP-TEE core: GP storage API, pobj/handle tables    (external)
                |
      tee_lfs_ops  (tee_lfs_storage.c)  <--- tree-access PTA (0008 patch)
                |  g_lock_L
      LittleFS                                           (external)
                |  read / prog / erase / sync
      w77q_lfs_port.c
                |
      w77q_qlib.c, w77q_qlib_provision.c   <--- provisioning PTA
                |
      QLIB                                               (external)
                |
      qlib_platform.c --- RPC-IF registers --- W77Q flash
```

| Component | State | Operations | Hard behaviour | Correct when |
|---|---|---|---|---|
| LittleFS backend, `tee_lfs_storage.c` | the tree on flash, `g_ready_b_L`, `g_lfs_L`, one `tee_lfs_fh` per open object | init, open, create, close, read, write, truncate, remove, rename, directory enumeration, erase sector/chip, dump | power loss between commits; I/O, space and memory errors; ignored return values; handles across a remount or rename | an object holds what its callers were told; a handle reads its object; the mutex is released |
| LittleFS port, `w77q_lfs_port.c` | none | read, chunked prog, zeroize-and-erase, whole-partition erase | failure between two chunks or between zeroize and erase | a block is whole or known bad; blocks stay in the section |
| QLIB session, `w77q_qlib.c` | section configuration and keys on chip, `g_sec1_ready_b_L` | init, configure chip, read, write, erase | transient errors; power loss while configuring; plain-mode fallback | a provisioned chip ends in a session; user data survives a boot |
| SPI transport, `qlib_platform.c` | controller mode, read cache, chip select, `g_spiInited_b_L`, `g_busClaimed_b_L` | lazy init, claim, transfer byte by byte, direct read, multi-transactions | bounded waits that give up in mid-transaction; Linux using the controller in between | every command is one frame; reads are fresh; waits end |
| Demo TA objects, `tee_demo_ta.c` | `w77q_demo_NN` and its `.tmp`, the password object | SET_PASSWORD, INIT, LIST, READ, UPDATE | delete and rename are two commits; stale copies; the password is overwritten in place | no committed version is lost; the acknowledged password opens the demo |
| Demo TA counter, `tee_demo_ta.c` | `w77q_mc` log, cached value and slot | COUNTER_READ, COUNTER_INC | compaction, migration, cache versus log | reported values grow, over restarts |
| tee-storage TA, `tee_storage_ta.c` | none of its own: handles and enumerators while a command runs | write, read, erase, the same for sectors, LIST, INFO, FORMAT | several sessions on one directory between any two storage calls; panics; enumeration per entry | commands act at one instant; listings miss nothing; FORMAT empties and ends |
| secure-counter TA | a 32-bit counter in RAM | INCREMENT, GET, RESET, ADD | wrap-around | values grow until it wraps or is reset |
| PTAs | none | dump, raw access, erase, provision | act on the flash under open handles | leave a mounted file system |

Calls are synchronous. Every backend operation runs under one mutex from its
first LittleFS call to its return (directory enumeration: per entry). What
interleaves is therefore: calls from different TAs, through different handles,
between the mutex's unlock and the next lock; the erase entry points; and
power loss, anywhere.

`PROJECT.json` lists every component with its status, and the hazards at the
line where they bite.

## 2. Modules

**`TeeLfsStorage`** is the core. An operation that reaches the flash once is
one action; boot, `create` and `rename`, which commit several times, are one
action per commit, and `pc` is at once the mutex and the place the running
handler has reached.

| Code | Model |
|---|---|
| objects on flash, superblock | `files`, `medium` |
| `g_lfs_L` / `g_ready_b_L` | `fs` / `ready` |
| `struct tee_lfs_fh` with LittleFS's open file | `handles[h]`: RAM copy, cached size, dirty, "a flush failed", and whether it is linked, renamed away, closing or stale |
| `g_lock_L`, parameters on the stack | `pc`, `call` |
| `tee_lfs_init` | `HwInit`, `MountOK`, `MountFails`, `FormatBegin`, `FormatEnd`, `FormatFails`, `Remount` |
| `tee_lfs_create_L` | `Create`, then `CreateZeroize` ... `CreateReopen` |
| `tee_lfs_rename_L` | `Rename`, then `RenameZeroize` ... `RenameCommit` |
| open, read, write, truncate, close, remove | `Open`, `ReadBytes` (operator), `Write`, `Truncate`, `Close`, `Remove` and their failures |
| a call on a handle a remount has forgotten | `UseStale` (the assertion build panics, `lfs_w77q_cfg.h`); `Remove` and `Rename` work by path all the same |
| `TEE_LFS_erase_sector`, `_erase_chip` | `EraseSector`, `EraseChip` |
| power loss | `Crash` |

Two history variables carry the specification. `allowed[p]` is computed from
return codes only: a successful call replaces it by the new value, a failed
or interrupted call adds the values that call may leave (old, zeroed, empty,
absent, new). `silent[p]` notes which of three causes may have kept a
*reported* success from the flash: an ignored sync or close, a write through a
renamed handle, a format.

External code is modelled by the rules the backend relies on, listed in the
module's header. LittleFS: each commit, remove and rename is atomic; a new name
is committed empty; a handle whose name is renamed or removed is detached; a
mount forgets all handles. OP-TEE core: no sharing flags are used anywhere in
the repository, so an object has one handle; the core passes a handle to every
`create` (the branch at 753-759 is dead) and calls `rename` without overwrite
(TRUE is allowed in some runs, for the table's other callers).

**`TeeLfsScrub`** looks below the objects. An object is the set of data blocks it
owns, a block is a row of program units, and every loop of the code over
them is a step per unit:

| Code | Model |
|---|---|
| any update (`lfs_file_write` and its commit, `zeroize_file_L`) | `UpdateBegin`, per block `Alloc` and the port, then `Commit`; `AllocFails`, `PortFails`, `CommitFails` |
| the block list of an open file that LittleFS has not committed | `held[f]`; `Close` and power loss drop it |
| a rename under the open handle (1033) | `Rename`; `detached` |
| create's new name, and the removals in `create` and `rename` that scrub nothing (726, 1022) | `Create`, `Drop` |
| `W77Q_LFS_PORT_Erase_L` | `ZeroizeUnit` for each unit, then `EraseBlock` |
| `W77Q_LFS_PORT_Prog_L` | `ProgUnit` for each unit |
| `tee_lfs_remove_L` | `RemoveBegin` (first walk), `LfsRemove`, `SecondWalk`, then `ScrubUnit` / `ScrubSkip` up to `RemoveReturn` |
| `beforeBitmap_au8`, and what the loop compares it with | `before`, `doomed` |

An update that fails leaves its handle dirty with a list of blocks, those it has
written and those it shares with the committed object; a handle whose object was
renamed can never commit and keeps its list as well. `lfs_fs_traverse` visits these
lists (`Held`), so both walks of a remove count them as used, the object's own handle
included, until it is closed.

`Fault` distinguishes `"walk"`, a block walk that stops early and whose result the
code drops, from `"io"`, any other failing flash operation. Two history variables:
`due`, the blocks this remove owes a scrub, and `lost`, the used blocks a
second walk missed. `TeeLfsStorage` and `TeeLfsScrub` model the same `remove` at two
levels: `Remove` there is `RemoveBegin` to `RemoveReturn` here, under one mutex.

**`W77qInit`** is boot below the file system: `w77q_init` step by step over a chip
whose section size, keys, policy and content survive power loss, then the mount
or format of `tee_lfs_init`.

| Code | Model |
|---|---|
| the storage section on the chip (external) | `size`, `keys`, `policy`, `store`, `session` |
| `g_sec1_ready_b_L`, and the flag it gives every read, write and erase | `ready`; `CanRead`, `CanWrite` |
| `w77q_init` | `Connect`, `InitDevice`, `GetIdAndKeys`, `CheckSize`, `Resize`, `OpenSession`, `Provision`, `ReopenSession`; a failure at the label `plain_mode` goes on to the mount |
| `w77q_configChip` | `ConfigChip` (complete), `ConfigChipFails`, and in `CrashConfiguring` power loss inside it |
| `tee_lfs_init` after the hardware | `Mount`, `MountFails`, `FormatBegin`, `FormatEnd`, `FormatFails`, `Remount` |
| provisioning PTA, `w77q_qlib_provision` | `SetKey` |

A configuration that is interrupted has written any of its parts. `clean` says that
nothing has failed in this boot, `torn` that a configuration was interrupted and none
has completed since, `expect` that objects were stored on a provisioned chip and
nothing has excused their loss. Excuses are a failing read at mount (`tee_lfs_storage.c`
115 formats after any mount error) and `SetKey`, which announces it. `dev->size` is
only printed and is left out. `TeeLfsStorage` has all of this as one step
(`HwInit`): the two meet in the state before the mount.

**`TeeDemoCounter`** is the demo TA's append-only log counter, over the
storage backend's create (three commits: zeros over the old object, the name,
the content) and write. It implements **`MonotonicCounter`**, the abstract
promise: increments report ever larger values and a read at least the last one,
until the flash breaks the promise (`intact`). What breaks it is named in the
actions: a record that cannot be read during a scan, an acknowledged commit
that did not happen, a new log whose write failed (the backend then removes
it), and a boot whose mount fails, which formats the flash (`Reformat`). Power
loss and every other error leave it unbroken. The TA is single-instance
without KEEP_ALIVE: closing the last session loses the cache, as power loss does,
so `Restart` stands for both.

**`CounterOnLfs`** composes the two: the same commands, calling the backend through
`Lfs == INSTANCE TeeLfsStorage`. The object is a sequence of units (a head, which the
core puts in front, and one unit per record), and a step is a call of the backend or a
commit of its `create`. The other variables of `TeeDemoCounter` are computed from that
state: the refinement mapping of `ImplementsCounter`.

| `TeeDemoCounter` | `CounterOnLfs` |
|---|---|
| `kind`, `log` | `Kind(files[Log])`, `Records(files[Log])` |
| `value`, `next` | the TA's, and one more from the commit of a record until the cache has it (`Ahead`) |
| `pc` | `CounterPc`: `at`, and while a create runs the place `pc` the backend has reached |
| the faults `"error"`, `"sync"`, `"read"` | any of `"io"`, `"space"` and `"mem"` |
| `Restart`; `Reformat` | `SessionEnds`, `PowerLoss`; the `FormatBegin` of a boot |

The composition has this TA alone on the backend (other TAs use other directories and
take turns at the mutex), no erase of sectors or of the chip, and a flash that starts
empty, so that nothing is migrated.

**`TeeDemoObjects`** is the rest of the demo TA: the loop of INIT, READ and UPDATE
over the objects, and for each the commits of create-copy, delete and rename;
LIST; and SET_PASSWORD, which every other command checks against. A version is
its two counters (`boot_count`, `counter`); `value` and the checksum follow from
them, and a password stands for its hash. `reached` records the version last
stored under each name; `inforce` is computed from return codes only, as
`allowed` is: the passwords that may open the demo, `"none"` if perhaps none does.
A delete that fails panics the TA (`TEE_CloseAndDeletePersistentObject1`): the command ends
there. A boot that formats (`Reformat`) empties all of it; `intact` excuses the loss.

**`RpcifSpi`** is the SPI transport, a register access or a byte at a time, over a
controller that finishes each byte when it likes:

| Code | Model |
|---|---|
| CMNCR.MD, DRCR.RBE and RCF, DRCMR/DRENR/DRDMCR, TEND, SSLKP | `md`, `burst`, `cache`, `setup`, `inflight`, `keep` |
| chip select, and what the flash has received since it was asserted | `selected`, `wire` |
| `g_spiInited_b_L`, `g_busClaimed_b_L` | `inited`, `claimed` |
| `PLAT_SPI_WriteReadTransaction`, `ensureSpiReady_L`, `rpcifInit_L`, `rpcifClaim_L` | `Transaction`, `EnsureReady`, `InitSpi` or `InitPanics`, `SkipClaim` or `Claim`, then `RouteEmpty`, `RouteManual` or a direct read |
| a byte of `rpcifXfer_L`, and `rpcifWaitTend_L` | `StartByte`, then `ByteDone` or `WaitTimesOut`; `HwShift` is the controller |
| `rpcifFlashRead_L`, `rpcifCmdRead_L` | `RouteDirect`, `RouteOutside`, `ReadByte`, `LeaveDirect` |
| `PLAT_SPI_MultiTransactionStart`, `_Stop` | the actions of those names |
| "XIP/Linux interference", power loss | `Interfere`, `PowerCycle` |

Where the repository does not say what the controller does (whether SSLN ends a frame
that SSLKP keeps open, whether leaving manual mode cuts off a byte), the model
allows both. `broken` records that a wait gave up while its frame was open,
`meddled` that Linux used the controller inside a multi-transaction, where nothing
claims the bus again.

**`TeeStorageTa`** is the tee-storage TA in any number of sessions on one directory, a
GP call at a time, with the backend's directory enumeration, which holds the mutex
for one entry only. It implements **`ObjectStore`**, the abstract promise: a
command that succeeds takes effect at one instant between its call and its return, a
read answers what the object holds then, and only a command that writes or erases an
object, and fails or is interrupted by power loss, can damage it. The refinement
mapping is

| `ObjectStore` | `TeeStorageTa` |
|---|---|
| `value` | `Contents`: `store`, but while a write has the object open, what it held before (`old`) |
| `op` | `Running`: `cmd` of a session that has not returned |
| `name`, `new`, `answer` | `name`, `val`, `reply` |

so a write takes effect when its handle is closed. `due` and `cut` are the history an
enumeration is judged by: the objects that were there all the time, and why it ended
early. A session whose panic ends the TA is `"dead"` until the client opens a new one.
A silently lost commit is not among its faults: that is `silent` of `TeeLfsStorage`,
the same backend one level below.

**Composition.** `TeeDemoCounter`, `TeeDemoObjects` and `TeeStorageTa` stand on
the backend as `TeeLfsStorage` shows it: create with OVERWRITE is its commits zeros,
name and content, the fault `"sync"` is the ignored close of `CreateClose`, and a write
that fails removes a new object (`CreateUndo`). For the counter that is checked and proved
(`CounterOnLfs`). `W77qInit` ends where `TeeLfsStorage` begins,
and `TeeLfsScrub` looks inside `Remove` and the flash commits; these and the seams of
the other two TAs are agreed on by hand. The refinements are from `TeeDemoCounter` to
`MonotonicCounter`, from `CounterOnLfs` to `TeeDemoCounter` and to `TeeLfsStorage`, and from
`TeeStorageTa` to `ObjectStore`.

**`TeeLfsStorageProofs`, `TeeLfsScrubProofs`, `W77qInitProofs`, `RpcifSpiProofs`,
`TeeDemoCounterProofs`, `CounterOnLfsProofs`, `TeeDemoObjectsProofs`,
`TeeStorageTaProofs`** hold the theorems. `MCTeeLfs` adds the symmetry of paths and handles for TLC.

## 3. Runs

| Run | Shows | Instance |
|---|---|---|
| `lfs_power_loss` | On a flash that does not fail. `AckedSurvivesPowerLoss`: power loss between any two commits costs no acknowledged value. `ReadsReturnTheObject`: a read returns bytes of a value the object may hold. Also when sectors or the chip are erased under open handles: `ReadyMeansMounted`, `CreateExclusive`. | 2 paths, 2 handles, objects up to 2 bytes, allocation failures |
| `lfs_faults` | `Accounted`: with I/O errors, a full flash, failed allocations, erases and power loss together, return codes and flash agree but for the three silent causes. `CachedSizeIsCurrent`: `dataSize_u32` is the length. `HandlersAdvance`: each commit of boot, create and rename brings the handler nearer to its return. | 2 paths, 1 handle, up to 1 byte, all faults |
| `lfs_success_not_durable` | violation: a write whose sync fails reports success. | full flash |
| `lfs_scrub` | `OnlyFreedZeroed`: with power loss and failing operations anywhere, no block of the metadata or of a stored object is zeroed, erased or half programmed. `HeldUntouched`: nor is a block that an open handle has not committed. `RemovedIsScrubbed`: a remove that succeeds has zeroed its object's blocks, but for failed writes and for those its own handle holds uncommitted. | 2 objects, 3 blocks of 2 units, updates of up to 2 blocks, all failures but of walks |
| `lfs_scrub_walk` | violation: one read error in the second walk of a remove zeroes blocks in use. | 3 blocks, failing walks only |
| `w77q_init` | `CleanBootIsSecure`: a boot without failures ends in a session on a provisioned chip, whatever earlier boots have left. `ConfiguresOnce`: a provisioned chip is written again only after a failed call. `ObjectsSurviveBoots`: plain mode, repeated or interrupted configurations and power loss destroy no stored object. `SessionClosesPlain`: plain access beside a session comes only from an interrupted configuration. | fresh chip or one of an earlier build, all failures; no bound |
| `demo_counter` | `Monotonic` (refinement of `MonotonicCounter`), `CacheMatchesLog`. | 2 slots, values up to 5, fresh flash or old format, all failures |
| `counter_on_lfs` | `ImplementsCounter` (refinement of `TeeDemoCounter`): what that module takes the backend to do, the backend does. `CommandsReturn`: every command ends. | 1 path, 1 handle, 2 slots, values up to 5, I/O errors, full flash, failed allocations |
| `demo_counter_compaction` | violation: power loss inside compaction leaves a counter no boot can read. | no faults |
| `demo_objects` | `CopySurvives`: the last version or its complete successor is on flash. `SuccessIsComplete`: success means every object was done once. `PasswordInForce`: the password that opens the demo is the one acknowledged last. | 2 objects, 1 replacement each, 2 passwords, all failures |
| `rpcif_spi` | `FramesNotShared`, `SuccessIsOneFrame`: bytes of two transactions meet in a frame only after a timeout, and success is one whole frame that has ended. `ManualMode`, `ModeSwitchedIdle`: no byte is written in the wrong mode, and the mode changes under a byte only after a timeout. `ReadsAreFresh`, `ReadsInsideWindow`: direct reads return their own bytes, from inside the window. `TransactionAdvances`: each step brings the transaction nearer to its end. `CallsReturn`: every transaction ends. | every combination of 0 or 1 command, address and output bytes, 0, 1 or 72 dummy cycles, 0 or 2 input bytes; any wait may time out |
| `tee_storage` | `AtomicStore` (refinement of `ObjectStore`). `ListComplete`: a LIST or INFO misses no object that was there all the time. `FormatEmpties`: a FORMAT that succeeds has removed all there was. `CommandsAdvance`: each storage call leaves a command fewer to make. `CommandsReturn`: none runs forever. The exceptions are named: a full buffer, an entry removed under the enumeration, a failing `lfs_dir_read`. | 2 sessions, one of which also lists, counts and formats; 2 names, one of them a sector's; 1 value; a buffer of 1 entry; failing calls, panics, power loss |

Why the bounds are enough. Objects interact only through a path (create,
rename target, two handles on different objects), so two paths hold every pair.
Lengths 0, 1 and 2 separate empty from non-empty, a write inside an object from
one beyond its end; the contents callers store are the small sets `OneByte` and
`TwoBytes` of `MCTeeLfs`, which tell a zero byte from a stored one and one position
from the next. Three blocks are the metadata and two more: an object of two blocks, or one
block each for two objects, or a block and the copy that replaces it, or a committed block
and one that only a handle holds; a fourth adds combinations of these and multiplies the
states by more than twenty. Two units make a block that can be half done. Two slots make a log
that fills, compacts and fills again within five values; the migrated value 2
lies inside the range a fresh counter would pass. Two objects give the loop
a first, a last and an untouched element; one replacement each leaves every object
old, new or in between, and two passwords are the old one and the new one. 72 dummy
cycles are nine bytes, one more than the chunk of eight in which the code sends
them; a window of 8 bytes in a word of 16 has addresses inside it, at its last
byte, and where address plus length wraps around to the window. Two sessions are a
pair in conflict over an object; the second session that browses would see
what the first does, and a buffer of one entry is full with an object left. The
theorems below do not depend on these numbers. `MaxLen`, `MaxFresh`, `MaxValue`,
`MaxBumps` and `Browser` are the only bounds, and each appears in a guard or a set
with its name.

Fairness. `CommandsReturn` of `counter_on_lfs` assumes weak fairness of the running
command's own steps (`Running`), those of the backend's handler among them: a command
that OP-TEE has invoked is a running thread, and power loss ends it too. Nothing is
assumed of the caller or of the boot.
In `rpcif_spi` the driver's step is weakly fair, for the same reason, and nothing is
assumed of the controller: each wait may end in a timeout. In `tee_storage` each
session's step is weakly fair, because OP-TEE schedules a command that it has invoked
until it returns; no session need ever call anything. `CommandsReturn` is conditional
on writes stopping eventually: FORMAT starts over after each object it removes
(`tee_storage_ta.c` 480), and a client that goes on writing can keep it at work.

Two of the properties of `lfs_power_loss` do not survive I/O errors either, which the
run does not have: `ready` stays true when the remount after an erase fails
(`tee_lfs_storage.c` 342, 364, 374), and `create` takes any failure of
`lfs_stat` for "no object" (674). No document of the repository promises
otherwise, so they are hazards and not findings. Four more were met and have
no run of their own:

- a write through a handle that is kept open over a rename reaches the RAM copy and
  never the flash (`tee_lfs_storage.c` 893, 1033): the cause `"renamed"` of `silent`;
- one read error at mount formats a healthy tree (`tee_lfs_storage.c` 115): the cause
  `"format"` of `silent`. What can be promised is that a boot whose reads are refused,
  because it has no session, does not format (`ObjectsSurviveBoots`);
- the remove of an object whose own handle is dirty, after a failed sync
  (`tee_lfs_storage.c` 893) or a write after a rename (1033, no fault needed), reports
  success and leaves the blocks in that handle's list with their content, although
  `w77q_lfs_port.c` 172-174 says that objects with a data block of their own "are still
  scrubbed immediately on delete": the exception in `RemovedIsScrubbed`;
- the comment at `tee_demo_ta.c` 474-475 promises a recovery that scans for `.tmp` objects
  at boot; no code performs it. `CopySurvives` shows that the copy is there.

## 4. Proofs

All theorems are for arbitrary constants under the named assumptions
(0 is a byte, `Absent` is not a byte sequence, and the like); no bound
on lengths, numbers of objects, slots or handles is used.

- `TeeLfsStorageProofs`: `IndInv` strengthens `Accounted` by what a handle's
  RAM copy may contain (`CopyIsAllowed`: else a later flush could store
  anything), by one handle per object (else two copies compete), by no live
  handle while mounting, and by what a running create or rename has already
  told its caller to expect. `Inductive` proves it of every step; from it
  follow `TypeCorrect` and `ObjectsAccounted`. `CachedSizeIsCurrent` is inductive beside
  it (`SizesAreCurrent`), and the two together say what a read returns
  (`ReadsAreTheObject`), for any faults. With `"io"` not in `Fault`,
  `MountInv` gives `ReadyIsMounted` and `CreateIsExclusive`; with `"space"` excluded too, `LossInv` gives
  `PowerLossSafe`, whose property is `AckedSurvivesPowerLoss`. `HandlersEnd` is the
  reason the mutex is released: `Rank` gives each place of a handler a number of
  commits, at most six, that every step lowers, whatever fails.
- `TeeLfsScrubProofs`: `IndInv` adds that no block has two owners, by committed lists or
  by those of open handles (`Exclusive`), that an update's blocks are whole but for the one
  in the port's hands, and those it keeps are whole too, unless a walk missed them
  (`UpdateInv`), and that what a remove still owes is free and what it has passed is
  zero (`RemoveInv`). From it follow `TypeCorrect`, `RemovedScrubbed` and, for any
  failures, `DamageBounded`: only blocks a second walk missed are damaged. With
  `"walk"` not in `Fault` that is `LiveBlocksSafe`, whose property is `OnlyFreedZeroed`,
  and the steps themselves give `HeldBlocksSafe` (`HeldUntouched`): the port and the scrub
  only write to blocks in no list.
- `W77qInitProofs`: `IndInv` adds what each step of boot has established (`BootInv`), that
  keys come with the policy unless a configuration was torn (`PolicyInv`), and that
  objects which must survive lie on a chip where a refused read means a refused
  write (`KeptInv`): otherwise plain mode could fail to mount and succeed to format.
  It yields `TypeCorrect`, `CleanBootsSecure`, `ConfiguredOnce`, `ObjectsKept` and
  `PlainClosed`, for any set of failures. The state is finite, so here the run is
  complete too; the theorems are the argument.
- `TeeDemoCounterProofs`: `IndInv` says where the last record stands relative to
  the value reported (`FlashInv`), that the cache names that record or a log
  being replaced (`CacheInv`), and what a running command may do next
  (`CommandInv`). It yields `TypeCorrect`, `CacheAgrees` and the refinement
  `ImplementsMonotonic`: the initial state maps to the initial state, and every step to
  an abstract step or a stutter.
- `CounterOnLfsProofs`: `IndInv` says what makes the two modules fit: the object is
  absent, empty, zeroed or a log of full length (`TypeOK`), a command is where the cache,
  the handle and the backend's handler let it be (`StageInv`, `HandleInv`), a handle that
  is closed has nothing to flush, or its close would be a commit that `TeeDemoCounter`
  does not have, a create in progress stores the image of the log (`CreateInv`), and
  a boot formats a tree that could be mounted only after a failure (`BootInv`).
  `Implements` maps each of the 22 actions to a step of `TeeDemoCounter` or to none, for
  any number of slots and any faults; `UsesBackend` maps it to a step of `TeeLfsStorage`
  or to none. Then the theorems of the two parts hold of the whole, with their assumptions
  discharged: `MonotonicOnFlash` (the stack, commit by commit, is a monotonic counter),
  `CacheIsOnFlash` and `LogAccounted`.
- `TeeDemoObjectsProofs`: `IndInv` adds to `CopySurvives` that the version under a
  name is the one reached last, that the copy is complete before the delete and the
  rename (`StepInv`), and how far the loop is (`LoopInv`). It yields
  `TypeCorrect`, `ObjectsSurvive`, `SuccessComplete` and `PasswordKept`.
- `RpcifSpiProofs`: `IndInv` ties the frame on the wire to the place of the running
  call: how many bytes a manual transfer has sent (`ManualInv`), whose command a
  direct read has set up and that the cache holds nothing older (`DirectInv`), that a
  frame is open or a byte under way only where a call or a timeout left it
  (`SelectInv`), and when the mode is manual (`ModeInv`). It yields `TypeCorrect`, `FramesSeparate`,
  `SuccessesAreFrames`, `TransfersAreManual`, `ReadsFresh`, `ReadsInside` and `SwitchedIdle`, for
  any numbers of bytes, any window and any word size. `TransactionsEnd`: every step
  lowers `StepsLeft`, so no wait is repeated; `EndsWithLastByte` and `WindowCheck`
  are the arithmetic of the chip select and of the window, for all 32-bit operands.
- `TeeStorageTaProofs`: `IndInv` adds that an object has one handle (`OneHandle`), that it
  is, under that handle, as the handle's last call left it (`HandleInv`), and that what
  an enumeration still owes is there (`DueLive`). It yields `TypeCorrect`,
  `ListsAreComplete`, `FormatsEmpty` and `Refinement`: under the mapping of section 2
  the initial states are initial states of `ObjectStore`, and every step is one of
  its steps or a stutter, for any number of sessions, names and values.
  `CommandsEnd`: a step of a session lowers the storage calls it has left (`CallsLeft`), and
  only an object that another session creates adds any, so FORMAT's loop ends although it
  starts over; `CallsLeftBounded`: there are never more than five for each object and five besides.

Only model-checked: the liveness properties (`CallsReturn` of the transport,
`CommandsReturn` of `tee_storage` and of `counter_on_lfs`), which are beyond the prover, and
every violation. The three action properties above prove what liveness rests on, that no
step leads back; that a step is always possible and taken is what TLC checks.

## 5. Not modelled

Every part whose state changes at run time and whose code is in the repository
has a module but these:

- `tee_lfs_list_all` and `tee_lfs_read_file` of the backend, raw reads and `write_raw`: the
  tree-access PTA's dump. Listing and reading change nothing; `write_raw` writes under
  the file system, after which no property of the objects can hold.
- The whole-partition erase sector by sector: one step (`EraseChip`), in which a failure
  leaves all or nothing that can be mounted.
- The secure-counter TA: a 32-bit counter in the RAM of each session's instance, which wraps to 0 after
  2^32 - 1 and which CMD_ADD may wrap at once (`secure_counter_ta.c` 72). It keeps
  nothing, so only that one assignment could be stated.
- The hex codec of object file names, a pure conversion of bytes; `PLAT_HASH` and
  `PLAT_GetNONCE`, stateless calls of OP-TEE's crypto library.
- LittleFS, QLIB, the RPC-IF controller and the OP-TEE core (not in the repository:
  external rules), the PKCS#11 TA and the R-Car flash driver (upstream code with
  patches), test TAs, host tools and scripts (sequential clients), recipes, BSP scripts
  and the user guide (no run-time state).

Left out of the modules:

- `TeeLfsStorage`: seek positions beyond 2^31, which turn negative in the cast to
  `lfs_soff_t` (883), and handles shared between sessions. `EraseSector` makes each object
  absent or leaves it whole: how LittleFS reads an object that lost one of several
  sectors is left out.
- `TeeLfsScrub`: the relocation of metadata by wear levelling, boot (`Crash` comes
  back with an idle, mounted file system) and what replaced blocks hold after an
  update, which nothing but their next erase clears.
- `W77qInit`: the device master key, several dies, and two users of the QLIB context at
  once.
- `RpcifSpi`: data bytes and timing registers; that DRDMCR holds five bits, so that a
  direct read with more than 32 dummy cycles asks for fewer than it was told to
  (`qlib_platform.c` 730); two threads inside the driver.
- `TeeDemoCounter`: the password check, and the old value that migration loses when power
  fails between its two steps: the steps are there (`Migrate`, `Restart`) but no
  property counts it, the value having been reported by an earlier version of the TA.
- `TeeDemoObjects`: the hash, the timing of its comparison, and the text LIST prints.
- `TeeStorageTa`: the length of a payload and of a LIST entry; the buffer counts entries.

Met while modelling and stated by no property:

- the comment of `w77q_qlib_provision` (59-60) has later boots use the key it burns, but
  `w77q_init` derives its own from the WID and, since the table disables the storage
  section, configures the chip anew; `g_sec1_ready_b_L` stays true after SET_KEY; and
  boot never looks at the policy, so an interrupted configuration may leave plain
  access open for good;
- `readdir` gives any error of `lfs_dir_read` out as the end of the directory
  (`tee_lfs_storage.c` 1098-1119), so a listing may be short and still succeed: `cut = "dir"`;
- an object torn by power loss stops every LIST, INFO and FORMAT of the tee-storage TA,
  and every LIST of the demo TA, with an error until it is written again.

What a later extension would take up first: the relocation of LittleFS metadata
under the scrub, two clients of the QLIB context, and handles shared between
sessions.
