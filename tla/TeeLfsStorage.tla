---------------------------- MODULE TeeLfsStorage ----------------------------
(***************************************************************************)
(* The OP-TEE file-operations table that tee_lfs_storage.c puts on top of  *)
(* LittleFS (tee_lfs_ops), together with its boot-time mount and the       *)
(* administrator's erase entry points.                                     *)
(*                                                                         *)
(* Every handler runs from its first LittleFS call to its return under one *)
(* mutex (g_lock_L), so "pc" is both the mutex and the place the running   *)
(* handler has reached: "idle" is the mutex free.  A handler that reaches  *)
(* the flash more than once has one action per flash commit, and power may *)
(* fail between any two of them.                                           *)
(*                                                                         *)
(* LittleFS itself is not in the repository.  It is modelled by the rules  *)
(* tee_lfs_storage.c relies on: a commit of one file, a remove and a       *)
(* rename are each atomic; creating a new name commits an empty file at    *)
(* once; O_TRUNC of an existing file is committed with the file; an open   *)
(* file works on its own RAM copy; a handle whose flush failed is never    *)
(* flushed again until a later write succeeds; a handle whose name was     *)
(* renamed or removed is detached and its syncs do nothing; mounting       *)
(* forgets every handle.                                                   *)
(***************************************************************************)
EXTENDS Naturals, Sequences

CONSTANTS
  Path,             \* object paths "/<uuid>/<hex id>"
  Handle,           \* struct tee_lfs_fh allocations
  Byte,             \* byte values; 0 is what zeroize_file_L writes
  MaxLen,           \* bound: longest object
  Payload,          \* what callers pass to create and write
  Absent,           \* "no such object"
  Closed,           \* "this handle is not allocated"
  NoCall,           \* "no handler has parameters to remember"
  Fault,            \* the failures that may happen: "io", "space", "mem"
  Maintenance,      \* the dump PTA's erase entry points in use: "sector", "chip"
  RenameOverwrite   \* the overwrite arguments rename is called with

ASSUME ByteAssumption == 0 \in Byte
ASSUME MaxLenAssumption == MaxLen \in Nat
ASSUME PayloadAssumption == Payload \subseteq Seq(Byte)
ASSUME AbsentAssumption == Absent \notin Seq(Byte)
ASSUME RenameAssumption == RenameOverwrite \subseteq BOOLEAN

VARIABLES
  files,     \* what the flash holds under each path
  medium,    \* the superblock: "blank", "valid" or "corrupt"
  fs,        \* g_lfs_L in RAM: "off" (never configured), "mounted",
             \* "unmounted" (by lfs_unmount, still pointing at the tree) or "dead"
  ready,     \* g_ready_b_L
  booting,   \* tee_lfs_init has not returned yet
  handles,   \* the open struct tee_lfs_fh
  pc,        \* where the handler that holds g_lock_L is
  call,      \* its parameters
  allowed,   \* history: what the callers' return codes say each object may hold
  silent     \* history: per object, why a SUCCESS may not have reached flash

vars == <<files, medium, fs, ready, booting, handles, pc, call, allowed, silent>>

-----------------------------------------------------------------------------
Content == Seq(Byte)
Cause   == {"sync", "renamed", "format"}

HandleRec ==
  [po    : Path,                  \* the object, followed through renames
   data  : Content,               \* the RAM copy LittleFS serves reads from
   size  : Nat,                   \* dataSize_u32
   dirty : BOOLEAN,               \* the copy differs from flash
   erred : BOOLEAN,               \* a flush failed: syncs are skipped
   link  : {"linked", "renamed", "closing", "stale"}]

CallRec == [p : Path, q : Path, ow : BOOLEAN, pay : Content,
            h : Handle, lost : BOOLEAN]

BootPC   == {"hwinit", "mount", "format", "superblock", "remount"}
CreatePC == {"c_zeroize", "c_mkdir", "c_creat", "c_fill", "c_undo", "c_close", "c_reopen"}
RenamePC == {"r_zeroize", "r_remove", "r_mkdir", "r_rename"}
PC       == BootPC \cup CreatePC \cup RenamePC \cup {"idle", "panic"}

Maximum(a, b) == IF a > b THEN a ELSE b
Minimum(a, b) == IF a < b THEN a ELSE b

\* lfs_file_seek(pos) then lfs_file_write(d): a gap reads as zeros.
WriteAt(c, pos, d) ==
  [i \in 1..Maximum(Len(c), pos + Len(d)) |->
      IF i \in (pos + 1)..(pos + Len(d)) THEN d[i - pos]
      ELSE IF i \in 1..Len(c) THEN c[i] ELSE 0]

\* lfs_file_truncate(n)
Resize(c, n) == [i \in 1..n |-> IF i \in 1..Len(c) THEN c[i] ELSE 0]

\* zeroize_file_L rewrites the whole length with zeros.
Zeros(c) == [i \in 1..Len(c) |-> 0]

Write1(S, pos, d) == {WriteAt(c, pos, d) : c \in S \ {Absent}}
Resize1(S, n)     == {Resize(c, n) : c \in S \ {Absent}}
Zeros1(S)         == {Zeros(c) : c \in S \ {Absent}}

LfsUp        == medium = "valid" /\ fs \in {"mounted", "unmounted"}
MayFail(F)   == ~LfsUp \/ F \cap Fault # {}
ReadMayFail  == MayFail({"io"})
WriteMayFail == MayFail({"io", "space"})

Idle          == pc = "idle"
IsOpen(h)     == handles[h] # Closed
Usable(h)     == IsOpen(h) /\ handles[h].link \in {"linked", "renamed"}
OpenOn(p)     == \E h \in Handle : IsOpen(h) /\ handles[h].po = p
AllAbsent     == [p \in Path |-> Absent]
Stale(hs)     == [h \in Handle |-> IF hs[h] = Closed THEN Closed
                                   ELSE [hs[h] EXCEPT !.link = "stale"]]
Detached(r, q) == [r EXCEPT !.po = q,
                            !.link = IF r.link = "stale" THEN "stale" ELSE "renamed"]

\* Mutant: the cached size is one less than the object.
FreshHandleShort(p, n) == [po |-> p, data |-> files[p], size |-> n - 1,
                           dirty |-> FALSE, erred |-> FALSE, link |-> "linked"]

FreshHandle(p, n) == [po |-> p, data |-> files[p], size |-> n,
                      dirty |-> FALSE, erred |-> FALSE, link |-> "linked"]

-----------------------------------------------------------------------------
Init ==
  /\ files = AllAbsent
  /\ medium = "blank"
  /\ fs = "off"
  /\ ready = FALSE
  /\ booting = TRUE
  /\ handles = [h \in Handle |-> Closed]
  /\ pc = "hwinit"
  /\ call = NoCall
  /\ allowed = [p \in Path |-> {Absent}]
  /\ silent = [p \in Path |-> {}]

(***************************************************************************)
(* tee_lfs_init, and the remount or reformat that the erase entry points   *)
(* share with it.  Only tee_lfs_init sets g_ready_b_L; nothing clears it.  *)
(***************************************************************************)
Mounted ==
  /\ fs' = "mounted"
  /\ ready' = (ready \/ booting)
  /\ booting' = FALSE
  /\ pc' = "idle"

\* Out of luck: TEE_ERROR_GENERIC, and g_ready_b_L stays what it was.
NotMounted ==
  /\ fs' = "dead"
  /\ booting' = FALSE
  /\ pc' = "idle"
  /\ UNCHANGED ready

HwInit ==
  /\ pc = "hwinit"
  /\ \/ fs' = "dead" /\ pc' = "mount" /\ UNCHANGED booting
     \/ "io" \in Fault /\ pc' = "idle" /\ booting' = FALSE /\ UNCHANGED fs
  /\ UNCHANGED <<files, medium, ready, handles, call, allowed, silent>>

MountOK ==
  /\ pc = "mount"
  /\ medium = "valid"
  /\ Mounted
  /\ UNCHANGED <<files, medium, handles, call, allowed, silent>>

\* Whatever error lfs_mount gave, the answer is a format.
MountFails ==
  /\ pc = "mount"
  /\ medium # "valid" \/ "io" \in Fault
  /\ fs' = "dead"
  /\ pc' = "format"
  /\ UNCHANGED <<files, medium, ready, booting, handles, call, allowed, silent>>

\* lfs_format: its first program of the root pair makes the old tree
\* unreachable; until the superblock is committed nothing is mountable.
FormatBegin ==
  /\ pc = "format"
  /\ medium' = "corrupt"
  /\ files' = AllAbsent
  /\ silent' = [p \in Path |-> IF files[p] = Absent THEN silent[p]
                               ELSE silent[p] \cup {"format"}]
  /\ fs' = "dead"
  /\ pc' = "superblock"
  /\ UNCHANGED <<ready, booting, handles, call, allowed>>

FormatEnd ==
  /\ pc = "superblock"
  /\ medium' = "valid"
  /\ pc' = "remount"
  /\ UNCHANGED <<files, fs, ready, booting, handles, call, allowed, silent>>

\* Mutant: a failed format is tried again, from the mount.
FormatRetried ==
  /\ pc \in {"format", "superblock"}
  /\ "io" \in Fault
  /\ pc' = "mount"
  /\ UNCHANGED <<files, medium, fs, ready, booting, handles, call, allowed, silent>>

FormatFails ==
  /\ pc \in {"format", "superblock"}
  /\ "io" \in Fault
  /\ NotMounted
  /\ UNCHANGED <<files, medium, handles, call, allowed, silent>>

Remount ==
  /\ pc = "remount"
  /\ Mounted \/ ("io" \in Fault /\ NotMounted)
  /\ UNCHANGED <<files, medium, handles, call, allowed, silent>>

\* Power fails: everything in RAM is gone, the flash is as it was.
Crash ==
  /\ fs' = "off"
  /\ ready' = FALSE
  /\ booting' = TRUE
  /\ handles' = [h \in Handle |-> Closed]
  /\ pc' = "hwinit"
  /\ call' = NoCall
  /\ UNCHANGED <<files, medium, allowed, silent>>

-----------------------------------------------------------------------------
(***************************************************************************)
(* open, read, write, truncate, close.  The OP-TEE core (external) only    *)
(* calls the table while tee_lfs_is_ready(), and, as no trusted            *)
(* application of the repository passes a TEE_DATA_FLAG_SHARE_* flag, has  *)
(* at most one handle open on an object.                                   *)
(***************************************************************************)
Open(p, h) ==
  /\ Idle /\ ready
  /\ ~IsOpen(h) /\ ~OpenOn(p)
  /\ LfsUp /\ files[p] # Absent
  /\ handles' = [handles EXCEPT ![h] = FreshHandle(p, Len(files[p]))]
  /\ allowed' = [allowed EXCEPT ![p] = {files[p]}]
  /\ silent' = [silent EXCEPT ![p] = {}]
  /\ UNCHANGED <<files, medium, fs, ready, booting, pc, call>>

\* Mutant: no seek before the read.
ReadBytesNoSeek(h, pos, n) ==
  LET r == handles[h]
  IN  IF pos >= r.size THEN <<>>
      ELSE SubSeq(r.data, 1, Minimum(Len(r.data), Minimum(n, r.size - pos)))

\* tee_lfs_read_L: what a read of n bytes at pos returns.
ReadBytes(h, pos, n) ==
  LET r == handles[h]
  IN  IF pos >= r.size THEN <<>>
      ELSE SubSeq(r.data, pos + 1, Minimum(Len(r.data), pos + Minimum(n, r.size - pos)))

\* Mutant: no lfs_file_sync at all.
NeverSynced(h, r) ==
  /\ handles' = [handles EXCEPT ![h] = r]
  /\ UNCHANGED <<files, silent>>

\* lfs_file_sync of handle h in its new state r: committed, ...
Synced(h, r) ==
  /\ r.link = "linked" /\ ~r.erred /\ LfsUp
  /\ files' = [files EXCEPT ![r.po] = r.data]
  /\ handles' = [handles EXCEPT ![h] = [r EXCEPT !.dirty = FALSE]]
  /\ UNCHANGED silent

\* ... failed, ...
SyncFails(h, r) ==
  /\ r.link = "linked" /\ ~r.erred /\ WriteMayFail
  /\ handles' = [handles EXCEPT ![h] = [r EXCEPT !.erred = TRUE]]
  /\ silent' = [silent EXCEPT ![r.po] = @ \cup {"sync"}]
  /\ UNCHANGED files

\* ... or skipped, as the handle is in error or detached from its object.
SyncSkipped(h, r) ==
  /\ r.link = "renamed" \/ r.erred
  /\ handles' = [handles EXCEPT ![h] = r]
  /\ silent' = [silent EXCEPT ![r.po] = @ \cup
                  {IF r.link = "renamed" THEN "renamed" ELSE "sync"}]
  /\ UNCHANGED files

\* Neither caller looks at the result.
SyncIgnored(h, r) == Synced(h, r) \/ SyncFails(h, r) \/ SyncSkipped(h, r)

\* tee_lfs_write_L, TEE_SUCCESS
Write(h, pos, d) ==
  /\ Idle /\ Usable(h)
  /\ d # <<>> /\ pos + Len(d) <= MaxLen
  /\ LET r   == handles[h]
         new == WriteAt(r.data, pos, d)
     IN  /\ SyncIgnored(h, [r EXCEPT !.data = new, !.size = Len(new),
                                     !.dirty = TRUE, !.erred = FALSE])
         /\ allowed' = [allowed EXCEPT ![r.po] = Write1(@, pos, d)]
  /\ UNCHANGED <<medium, fs, ready, booting, pc, call>>

\* tee_lfs_write_L, lfs_file_write failed: TEE_ERROR_GENERIC
WriteFails(h, pos, d) ==
  /\ Idle /\ Usable(h)
  /\ d # <<>> /\ pos + Len(d) <= MaxLen
  /\ WriteMayFail
  /\ LET r == handles[h]
     IN  /\ \E data \in {r.data, WriteAt(r.data, pos, d)} :
              handles' = [handles EXCEPT ![h] =
                            [r EXCEPT !.data = data, !.dirty = TRUE, !.erred = TRUE]]
         /\ allowed' = [allowed EXCEPT ![r.po] = @ \cup Write1(@, pos, d)]
  /\ UNCHANGED <<files, medium, fs, ready, booting, pc, call, silent>>

\* Mutant: the cached size is not updated.
TruncateKeepsSize(h, n) ==
  /\ Idle /\ Usable(h)
  /\ n <= MaxLen
  /\ LET r == handles[h]
     IN  /\ SyncIgnored(h, [r EXCEPT !.data = Resize(r.data, n), !.dirty = TRUE,
                                     !.erred = r.erred /\ n <= Len(r.data)])
         /\ allowed' = [allowed EXCEPT ![r.po] = Resize1(@, n)]
  /\ UNCHANGED <<medium, fs, ready, booting, pc, call>>

\* tee_lfs_truncate_L, TEE_SUCCESS.  Growing writes zeros, and a write that
\* succeeds clears the handle's error; shrinking does not.
Truncate(h, n) ==
  /\ Idle /\ Usable(h)
  /\ n <= MaxLen
  /\ LET r == handles[h]
     IN  /\ SyncIgnored(h, [r EXCEPT !.data = Resize(r.data, n), !.size = n,
                                     !.dirty = TRUE,
                                     !.erred = r.erred /\ n <= Len(r.data)])
         /\ allowed' = [allowed EXCEPT ![r.po] = Resize1(@, n)]
  /\ UNCHANGED <<medium, fs, ready, booting, pc, call>>

\* tee_lfs_truncate_L, lfs_file_truncate failed while growing the file
TruncateFails(h, n) ==
  /\ Idle /\ Usable(h)
  /\ n <= MaxLen /\ n > Len(handles[h].data)
  /\ WriteMayFail
  /\ handles' = [handles EXCEPT ![h] = [@ EXCEPT !.dirty = TRUE, !.erred = TRUE]]
  /\ UNCHANGED <<files, medium, fs, ready, booting, pc, call, allowed, silent>>

\* tee_lfs_close_L: a close flushes a copy that is dirty and not in error.
Close(h) ==
  /\ Idle /\ IsOpen(h) /\ handles[h].link # "stale"
  /\ files' = IF LfsUp /\ handles[h].link = "linked"
                       /\ handles[h].dirty /\ ~handles[h].erred
              THEN [files EXCEPT ![handles[h].po] = handles[h].data] ELSE files
  /\ handles' = [handles EXCEPT ![h] = Closed]
  /\ UNCHANGED <<medium, fs, ready, booting, pc, call, allowed, silent>>

\* A read, write, truncate or close of a handle opened before the last mount
\* trips LFS_ASSERT, which lfs_w77q_cfg.h maps to assert(): the TEE stops until
\* the next boot.
UseStale(h) ==
  /\ Idle /\ IsOpen(h) /\ handles[h].link = "stale"
  /\ pc' = "panic"
  /\ UNCHANGED <<files, medium, fs, ready, booting, handles, call, allowed, silent>>

-----------------------------------------------------------------------------
(***************************************************************************)
(* create.  A call that ends in an error leaves "allowed" as wide as the   *)
(* running call made it: the caller cannot know how far it came.           *)
(***************************************************************************)
BeginCall(where, p, q, ow, pay, h) ==
  /\ pc' = where
  /\ call' = [p |-> p, q |-> q, ow |-> ow, pay |-> pay, h |-> h, lost |-> FALSE]

Return == pc' = "idle" /\ call' = NoCall

\* lfs_stat found the object: TEE_ERROR_ACCESS_CONFLICT.
Conflict(p, ow) == ~ow /\ LfsUp /\ files[p] # Absent

\* Mutant: the existence check is dropped.
NeverConflict(p, ow) == ~ow

\* lfs_stat said anything else, which create and rename take for "no object".
NoConflict(p, ow) == ~ow /\ (files[p] = Absent \/ ReadMayFail)

CreateRefused(p, ow, h) ==
  /\ Idle /\ ready
  /\ ~IsOpen(h) /\ ~OpenOn(p)
  /\ Conflict(p, ow)
  /\ UNCHANGED vars

Create(p, ow, pay, h) ==
  /\ Idle /\ ready
  /\ ~IsOpen(h) /\ ~OpenOn(p)
  /\ \/ ow /\ BeginCall("c_zeroize", p, p, ow, pay, h)
     \/ NoConflict(p, ow) /\ BeginCall("c_mkdir", p, p, ow, pay, h)
  /\ allowed' = [allowed EXCEPT ![p] = @ \cup {<<>>, Absent, pay}
                                          \cup (IF ow THEN Zeros1(@) ELSE {})]
  /\ UNCHANGED <<files, medium, fs, ready, booting, handles, silent>>

\* zeroize_file_L, whose result is ignored: the zeros are committed, or the
\* object is absent or empty, or something failed and it is as it was.
Zeroize(p) ==
  \/ /\ files[p] # Absent /\ LfsUp
     /\ files' = [files EXCEPT ![p] = Zeros(@)]
  \/ /\ files[p] \in {Absent, <<>>} \/ WriteMayFail
     /\ UNCHANGED files

CreateZeroize ==
  /\ pc = "c_zeroize"
  /\ Zeroize(call.p)
  /\ pc' = "c_mkdir"
  /\ UNCHANGED <<medium, fs, ready, booting, handles, call, allowed, silent>>

\* ensure_ta_dir_L and the allocation of the handle
CreateMkdir ==
  /\ pc = "c_mkdir"
  /\ \/ LfsUp /\ pc' = "c_creat" /\ UNCHANGED call
     \/ (WriteMayFail \/ "mem" \in Fault) /\ Return
  /\ UNCHANGED <<files, medium, fs, ready, booting, handles, allowed, silent>>

\* lfs_file_opencfg(WRONLY | CREAT | TRUNC)
CreateOpen ==
  /\ pc = "c_creat"
  /\ \/ /\ LfsUp
        /\ files' = [files EXCEPT ![call.p] = IF @ = Absent THEN <<>> ELSE @]
        /\ pc' = (IF call.pay = <<>> THEN "c_close" ELSE "c_fill")
        /\ UNCHANGED call
     \/ /\ WriteMayFail
        /\ Return
        /\ UNCHANGED files
  /\ UNCHANGED <<medium, fs, ready, booting, handles, allowed, silent>>

\* lfs_file_write of head | attr | data
CreateFill ==
  /\ pc = "c_fill"
  /\ \/ pc' = "c_close"
     \/ WriteMayFail /\ pc' = "c_undo"
  /\ UNCHANGED <<files, medium, fs, ready, booting, handles, call, allowed, silent>>

\* The write failed: the half-made object is removed (result ignored).
CreateUndo ==
  /\ pc = "c_undo"
  /\ \/ LfsUp /\ files' = [files EXCEPT ![call.p] = Absent]
     \/ WriteMayFail /\ UNCHANGED files
  /\ Return
  /\ UNCHANGED <<medium, fs, ready, booting, handles, allowed, silent>>

\* lfs_file_close commits the payload; its result is ignored.
CreateClose ==
  /\ pc = "c_close"
  /\ \/ /\ LfsUp
        /\ files' = [files EXCEPT ![call.p] = call.pay]
        /\ UNCHANGED call
     \/ /\ WriteMayFail
        /\ call' = [call EXCEPT !.lost = TRUE]
        /\ UNCHANGED files
  /\ pc' = "c_reopen"
  /\ UNCHANGED <<medium, fs, ready, booting, handles, allowed, silent>>

\* Reopened RDWR for the caller: TEE_SUCCESS, with the size that was asked for.
CreateReopen ==
  /\ pc = "c_reopen"
  /\ LfsUp /\ files[call.p] # Absent
  /\ handles' = [handles EXCEPT ![call.h] = FreshHandle(call.p, Len(call.pay))]
  /\ allowed' = [allowed EXCEPT ![call.p] = {call.pay}]
  /\ silent' = [silent EXCEPT ![call.p] = IF call.lost THEN {"sync"} ELSE {}]
  /\ Return
  /\ UNCHANGED <<files, medium, fs, ready, booting>>

CreateReopenFails ==
  /\ pc = "c_reopen"
  /\ ReadMayFail
  /\ Return
  /\ UNCHANGED <<files, medium, fs, ready, booting, handles, allowed, silent>>

-----------------------------------------------------------------------------
(***************************************************************************)
(* remove and rename: the core calls them for the object of an open        *)
(* handle, which it then closes (remove) or keeps using (rename).  Both    *)
(* work by path: a handle that LittleFS has forgotten does not stop them.  *)
(***************************************************************************)
Named(h) == IsOpen(h) /\ handles[h].link # "closing"

\* The core's close of a stale handle, which comes next, stops the TEE.
Remove(h) ==
  /\ Idle /\ Named(h)
  /\ LET p == handles[h].po
     IN  \/ /\ LfsUp /\ files[p] # Absent
            /\ files' = [files EXCEPT ![p] = Absent]
            /\ allowed' = [allowed EXCEPT ![p] = {Absent}]
            /\ silent' = [silent EXCEPT ![p] = {}]
         \/ /\ files[p] = Absent \/ WriteMayFail
            /\ UNCHANGED <<files, allowed, silent>>
  /\ handles' = [handles EXCEPT ![h] = [@ EXCEPT !.link = "closing"]]
  /\ pc' = (IF handles[h].link = "stale" THEN "panic" ELSE "idle")
  /\ UNCHANGED <<medium, fs, ready, booting, call>>

RenameRefused(h, q, ow) ==
  /\ Idle /\ Named(h)
  /\ q # handles[h].po /\ ~OpenOn(q)
  /\ Conflict(q, ow)
  /\ UNCHANGED vars

Rename(h, q, ow) ==
  /\ Idle /\ Named(h)
  /\ q # handles[h].po /\ ~OpenOn(q)
  /\ \/ /\ ow
        /\ BeginCall("r_zeroize", handles[h].po, q, ow, <<>>, h)
        /\ allowed' = [allowed EXCEPT ![q] = @ \cup {Absent} \cup Zeros1(@)]
     \/ /\ NoConflict(q, ow)
        /\ BeginCall("r_mkdir", handles[h].po, q, ow, <<>>, h)
        /\ UNCHANGED allowed
  /\ UNCHANGED <<files, medium, fs, ready, booting, handles, silent>>

\* Mutant: the old name is zeroized instead of the new one.
RenameZeroizesOld ==
  /\ pc = "r_zeroize"
  /\ Zeroize(call.p)
  /\ pc' = "r_remove"
  /\ UNCHANGED <<medium, fs, ready, booting, handles, call, allowed, silent>>

RenameZeroize ==
  /\ pc = "r_zeroize"
  /\ Zeroize(call.q)
  /\ pc' = "r_remove"
  /\ UNCHANGED <<medium, fs, ready, booting, handles, call, allowed, silent>>

\* lfs_remove of the target, result ignored
RenameRemove ==
  /\ pc = "r_remove"
  /\ \/ LfsUp /\ files' = [files EXCEPT ![call.q] = Absent]
     \/ WriteMayFail /\ UNCHANGED files
  /\ pc' = "r_mkdir"
  /\ UNCHANGED <<medium, fs, ready, booting, handles, call, allowed, silent>>

RenameMkdir ==
  /\ pc = "r_mkdir"
  /\ \/ LfsUp /\ pc' = "r_rename" /\ UNCHANGED call
     \/ WriteMayFail /\ Return
  /\ UNCHANGED <<files, medium, fs, ready, booting, handles, allowed, silent>>

\* lfs_rename replaces whatever is under the new name in one commit and
\* detaches the handle that is open on the old one.
RenameCommit ==
  /\ pc = "r_rename"
  /\ LET p == call.p
         q == call.q
     IN  \/ /\ LfsUp /\ files[p] # Absent
            /\ files' = [files EXCEPT ![q] = files[p], ![p] = Absent]
            /\ handles' = [handles EXCEPT ![call.h] = Detached(@, q)]
            /\ allowed' = [allowed EXCEPT ![q] = allowed[p], ![p] = {Absent}]
            /\ silent' = [silent EXCEPT ![q] = silent[p], ![p] = {}]
         \/ /\ files[p] = Absent \/ WriteMayFail
            /\ UNCHANGED <<files, handles, allowed, silent>>
  /\ Return
  /\ UNCHANGED <<medium, fs, ready, booting>>

-----------------------------------------------------------------------------
(***************************************************************************)
(* The dump PTA's erase entry points.  The PTA does not ask                *)
(* tee_lfs_is_ready() first.  Mounting or formatting forgets the open      *)
(* handles; they are marked at the erase, which holds the mutex until then.*)
(***************************************************************************)
\* tee_lfs_erase_sector: the sector held nothing, or objects, or the root.
EraseSector ==
  /\ Idle /\ fs # "off" /\ "sector" \in Maintenance
  /\ \/ \E gone \in SUBSET Path :
          /\ \/ UNCHANGED medium
             \/ gone = Path /\ medium' = "corrupt"
          /\ files' = [p \in Path |-> IF p \in gone THEN Absent ELSE files[p]]
          /\ allowed' = [p \in Path |-> IF p \in gone THEN {Absent} ELSE allowed[p]]
          /\ silent' = [p \in Path |-> IF p \in gone THEN {} ELSE silent[p]]
          /\ handles' = Stale(handles)
          /\ fs' = "unmounted"
          /\ pc' = "mount"
     \/ "io" \in Fault /\ UNCHANGED <<files, medium, fs, handles, pc, allowed, silent>>
  /\ UNCHANGED <<ready, booting, call>>

\* Mutant: the chip is erased and nothing is formatted or mounted afterwards.
EraseChipOnly ==
  /\ Idle /\ fs # "off" /\ "chip" \in Maintenance
  /\ medium' = "corrupt"
  /\ files' = AllAbsent
  /\ allowed' = [p \in Path |-> {Absent}]
  /\ silent' = [p \in Path |-> {}]
  /\ fs' = "unmounted"
  /\ UNCHANGED <<ready, booting, call, pc, handles>>

\* tee_lfs_erase_chip: unmounted, then erased sector by sector.
EraseChip ==
  /\ Idle /\ fs # "off" /\ "chip" \in Maintenance
  /\ \/ \* the first erase failed: nothing is gone
        /\ "io" \in Fault
        /\ fs' = (IF fs = "dead" THEN "dead" ELSE "unmounted")
        /\ UNCHANGED <<files, medium, handles, pc, allowed, silent>>
     \/ /\ medium' = "corrupt"
        /\ files' = AllAbsent
        /\ allowed' = [p \in Path |-> {Absent}]
        /\ silent' = [p \in Path |-> {}]
        /\ fs' = (IF fs = "dead" THEN "dead" ELSE "unmounted")
        /\ \/ pc' = "format" /\ handles' = Stale(handles)
           \/ "io" \in Fault /\ UNCHANGED <<pc, handles>>
  /\ UNCHANGED <<ready, booting, call>>

-----------------------------------------------------------------------------
Boot == HwInit \/ MountOK \/ MountFails \/ FormatBegin \/ FormatEnd \/ FormatFails \/ Remount

CreateStep == CreateZeroize \/ CreateMkdir \/ CreateOpen \/ CreateFill \/ CreateUndo
              \/ CreateClose \/ CreateReopen \/ CreateReopenFails

RenameStep == RenameZeroize \/ RenameRemove \/ RenameMkdir \/ RenameCommit

HandleCall(h) ==
  \/ \E p \in Path : Open(p, h)
  \/ \E pos \in 0..MaxLen, d \in Payload : Write(h, pos, d) \/ WriteFails(h, pos, d)
  \/ \E n \in 0..MaxLen : Truncate(h, n) \/ TruncateFails(h, n)
  \/ Close(h)
  \/ UseStale(h)
  \/ Remove(h)

NameCall(h, p) ==
  \/ \E ow \in BOOLEAN, pay \in Payload : Create(p, ow, pay, h)
  \/ \E ow \in BOOLEAN : CreateRefused(p, ow, h)
  \/ \E ow \in RenameOverwrite : Rename(h, p, ow) \/ RenameRefused(h, p, ow)

Next ==
  \/ Boot
  \/ CreateStep
  \/ RenameStep
  \/ EraseSector
  \/ EraseChip
  \/ Crash
  \/ \E h \in Handle : HandleCall(h) \/ (\E p \in Path : NameCall(h, p))

Spec == Init /\ [][Next]_vars

-----------------------------------------------------------------------------
(* Properties *)

\* Every variable has its type.
TypeOK ==
  /\ files \in [Path -> Content \cup {Absent}]
  /\ medium \in {"blank", "valid", "corrupt"}
  /\ fs \in {"off", "dead", "mounted", "unmounted"}
  /\ ready \in BOOLEAN
  /\ booting \in BOOLEAN
  /\ handles \in [Handle -> HandleRec \cup {Closed}]
  /\ pc \in PC
  /\ call \in CallRec \cup {NoCall}
  /\ allowed \in [Path -> SUBSET (Content \cup {Absent})]
  /\ silent \in [Path -> SUBSET Cause]

\* Whatever fails and wherever power is lost, an object holds what the return
\* codes of the calls on it allow: the value of the last successful call, or
\* after a call that failed or was cut off one of the values that call lists
\* (old, zeroed, empty, absent, new - never a mixture).  The only exceptions
\* are the three places where the code reports success, or destroys objects,
\* without a caller being told: an ignored sync or close, a write through a
\* renamed handle, and a format of a file system that could have been mounted.
Accounted == \A p \in Path : silent[p] = {} => files[p] \in allowed[p]

\* What makes Accounted inductive.
\* The RAM copy of a handle that can still flush is a value its object may hold.
CopyIsAllowed ==
  \A h \in Handle :
    IsOpen(h) /\ handles[h].link = "linked" /\ LfsUp /\ silent[handles[h].po] = {}
      => handles[h].data \in allowed[handles[h].po]

\* The core opens an object once.
OneHandlePerObject ==
  \A g, h \in Handle :
    IsOpen(g) /\ IsOpen(h) /\ handles[g].po = handles[h].po => g = h

\* While the file system is being mounted or formatted no handle can flush.
NoneLinkedWhileMounting ==
  pc \in BootPC =>
    \A h \in Handle : IsOpen(h) => handles[h].link = "stale"

Zeroable(p) == silent[p] = {} /\ files[p] # Absent => Zeros(files[p]) \in allowed[p]

\* A running create has told its caller to expect every state it can leave.
CreateCallInv ==
  pc \in CreatePC =>
    /\ call \in CallRec
    /\ ~OpenOn(call.p)
    /\ {<<>>, Absent, call.pay} \subseteq allowed[call.p]
    /\ pc = "c_zeroize" => call.ow /\ Zeroable(call.p)
    /\ pc = "c_reopen" /\ ~call.lost => files[call.p] = call.pay

RenameCallInv ==
  pc \in RenamePC =>
    /\ call \in CallRec
    /\ call.p # call.q
    /\ IsOpen(call.h) /\ handles[call.h].po = call.p
    /\ ~OpenOn(call.q)
    /\ pc \in {"r_zeroize", "r_remove"} => Absent \in allowed[call.q]
    /\ pc = "r_zeroize" => Zeroable(call.q)

IndInv ==
  /\ TypeOK
  /\ Accounted
  /\ CopyIsAllowed
  /\ OneHandlePerObject
  /\ NoneLinkedWhileMounting
  /\ CreateCallInv
  /\ RenameCallInv

\* What holds besides, when the flash never reports an error: outside the boot
\* path the file system is mounted, only a tree that cannot be mounted is about
\* to be formatted, and create's lfs_stat answer stays true.
MountInv ==
  /\ ready \/ booting
  /\ pc \notin BootPC => ready /\ fs = "mounted" /\ medium = "valid"
  /\ pc = "format" => medium # "valid"
  /\ pc = "remount" => medium = "valid"
  /\ pc \in {"c_mkdir", "c_creat"} /\ ~call.ow => files[call.p] = Absent

\* And when it never runs out of space either: nothing is lost silently but
\* what goes through a renamed handle.
LossInv ==
  /\ medium # "valid" => files = AllAbsent
  /\ \A p \in Path : silent[p] \subseteq {"renamed"}
  /\ \A h \in Handle : IsOpen(h) => ~handles[h].erred
  /\ pc \in CreatePC => ~call.lost

\* With a flash that does not fail, power loss at any point loses nothing that
\* was acknowledged, except what went through a handle after a rename.
AckedSurvivesPowerLoss ==
  \A p \in Path : "renamed" \notin silent[p] => files[p] \in allowed[p]

\* create without TEE_DATA_FLAG_OVERWRITE opens (with O_TRUNC) only a name
\* under which there is nothing.
CreateExclusive == pc = "c_creat" /\ ~call.ow => files[call.p] = Absent

\* The size a handle caches (and reports, and bounds reads with) is the length
\* of the object it reads, unless one of its flushes failed.
CachedSizeIsCurrent ==
  \A h \in Handle :
    IsOpen(h) /\ handles[h].link = "linked" /\ ~handles[h].erred
      /\ silent[handles[h].po] = {} /\ LfsUp
    => handles[h].size = Len(handles[h].data)

\* A read through a handle returns the bytes of a value its object may hold.
ReadsReturnTheObject ==
  \A h \in Handle :
    IsOpen(h) /\ handles[h].link = "linked" /\ ~handles[h].erred
      /\ silent[handles[h].po] = {} /\ LfsUp
    => \A pos \in 0..MaxLen, n \in 1..MaxLen :
         \E c \in allowed[handles[h].po] \ {Absent} :
            ReadBytes(h, pos, n) = SubSeq(c, pos + 1, Minimum(Len(c), pos + n))

\* "ready (LittleFS mounted)": between calls, a backend that says it is ready
\* has its file system mounted.
ReadyMeansMounted == Idle /\ ready => fs = "mounted"

\* "OP-TEE expects durability after each write": success means on flash.
SuccessIsDurable ==
  \A p \in Path : "sync" \in silent[p] => files[p] \in allowed[p]

\* Why the mutex is always released, if power stays on: each commit of a handler
\* brings it nearer to its return, whatever fails, and nobody else makes a step
\* meanwhile.
Rank ==
  [idle |-> 0, panic |-> 0,
   hwinit |-> 5, mount |-> 4, format |-> 3, superblock |-> 2, remount |-> 1,
   c_zeroize |-> 6, c_mkdir |-> 5, c_creat |-> 4, c_fill |-> 3, c_close |-> 2,
   c_undo |-> 1, c_reopen |-> 1,
   r_zeroize |-> 4, r_remove |-> 3, r_mkdir |-> 2, r_rename |-> 1]
HandlersAdvance ==
  [][pc \notin {"idle", "panic"} /\ ~Crash => Rank[pc'] < Rank[pc]]_vars
=============================================================================
