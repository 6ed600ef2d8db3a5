----------------------------- MODULE TeeLfsScrub -----------------------------
(***************************************************************************)
(* Blocks under the storage backend: what tee_lfs_remove_L does to the     *)
(* blocks that a removed object leaves behind, and what the flash port     *)
(* does to a block before LittleFS fills it (w77q_lfs_port.c).             *)
(*                                                                         *)
(* TeeLfsStorage has objects with values; here an object is the set of     *)
(* data blocks it owns (none when LittleFS keeps it inline), and a block   *)
(* is a row of program units, each erased, programmed with data, zeroed,   *)
(* or none of these.                                                       *)
(*                                                                         *)
(* LittleFS is external.  Its rules here: a new name is committed empty;   *)
(* an update writes fresh blocks in front of blocks that it keeps and      *)
(* becomes visible with one metadata commit, and then the blocks it        *)
(* replaced are free; a block is erased before it is filled, and read back *)
(* after it was programmed; any error of the port ends the operation; an   *)
(* open file whose last list of blocks was not committed, because the      *)
(* write or the commit failed or the name was renamed under the handle,    *)
(* keeps that whole list, fresh blocks and kept ones, until a later update *)
(* commits or the file is closed, and a removal does not change that;      *)
(* lfs_fs_traverse visits every block of the metadata, of the committed    *)
(* objects and of such lists, or stops at the first block it cannot read.  *)
(***************************************************************************)
EXTENDS Naturals

CONSTANTS
  Blocks,      \* W77Q_LFS_BLOCK_COUNT
  Units,       \* program units per block
  MaxFresh,    \* bound: data blocks written by one update
  File,        \* objects, whatever their names; one handle each, as in
               \* TeeLfsStorage
  Absent,      \* "no such object", "no such list"
  NoFile,      \* "no call is running"
  Fault        \* the failures that may happen: "walk" (lfs_fs_traverse stops
               \* at a block it cannot read), "io" (any other flash operation)

ASSUME BlocksAssumption == Blocks \in Nat \ {0}
ASSUME UnitsAssumption  == Units \in Nat \ {0}
ASSUME MaxFreshAssumption == MaxFresh \in Nat
ASSUME AbsentAssumption == \A S \in SUBSET (0 .. Blocks - 1) : Absent # S
ASSUME NoFileAssumption == NoFile \notin File

VARIABLES
  flash,     \* the content of every unit of every block
  owned,     \* the data blocks of each object, as last committed
  held,      \* the list an object's open handle has and the flash has not
  detached,  \* objects renamed under their open handle
  pc,        \* where the handler that holds g_lock_L is
  file,      \* the object it works on
  keep,      \* update: the blocks of the file that stay
  want,      \* update: how many blocks are still to be written
  fresh,     \* update: blocks written so far, the current one included
  blk, off,  \* the loops' block and unit
  before,    \* beforeBitmap_au8
  doomed,    \* blocks in beforeBitmap_au8 and not in afterBitmap_au8
  due,       \* history: blocks of the removed object that the first walk saw
             \* and no failed write was meant for
  lost       \* history: blocks in use that a second walk did not see

vars == <<flash, owned, held, detached, pc, file, keep, want, fresh, blk, off,
          before, doomed, due, lost>>
call == <<file, keep, want, fresh, blk, off, before, doomed, due>>

Block   == 0 .. Blocks - 1
Unit    == 0 .. Units - 1
Content == {"erased", "data", "zero", "junk"}
Root    == 0        \* the metadata pair, as one block

DataBlocks == UNION {owned[f] : f \in {g \in File : owned[g] # Absent}}
Live       == {Root} \cup DataBlocks
Held       == UNION {held[f] : f \in {g \in File : held[g] # Absent}}
Used       == Live \cup fresh \cup Held

\* A NOR program only clears bits.
Programmed(old) == IF old = "erased" THEN "data" ELSE "junk"
SetUnit(b, u, v) == flash' = [flash EXCEPT ![b] = [@ EXCEPT ![u] = v]]

Init ==
  /\ flash = [b \in Block |-> [u \in Unit |-> IF b = Root THEN "data" ELSE "erased"]]
  /\ owned = [f \in File |-> Absent]
  /\ held = [f \in File |-> Absent]
  /\ detached = {}
  /\ pc = "idle"
  /\ file = NoFile
  /\ keep = {} /\ want = 0 /\ fresh = {}
  /\ blk = 0 /\ off = 0
  /\ before = {} /\ doomed = {}
  /\ due = {}
  /\ lost = {}

\* The call is over; its local variables and the bitmaps, which every remove
\* clears first, are dead.
Return ==
  /\ pc' = "idle" /\ file' = NoFile
  /\ keep' = {} /\ want' = 0 /\ fresh' = {}
  /\ blk' = 0 /\ off' = 0
  /\ before' = {} /\ doomed' = {}
  /\ due' = {}

-----------------------------------------------------------------------------
\* The open handle is closed, and what it has not committed is gone: the close
\* does not try again after an error, and has no name to commit under after a
\* rename.  zeroize_file_L and create close a file that failed at once.
Close(f) ==
  /\ pc = "idle"
  /\ held[f] # Absent \/ f \in detached
  /\ held' = [held EXCEPT ![f] = Absent]
  /\ detached' = detached \ {f}
  /\ UNCHANGED <<flash, owned, pc, call, lost>>

\* lfs_rename: the object has a new name, and its handle none.
Rename(f) ==
  /\ pc = "idle"
  /\ owned[f] # Absent
  /\ detached' = detached \cup {f}
  /\ UNCHANGED <<flash, owned, held, pc, call, lost>>

\* lfs_file_opencfg with LFS_O_CREAT
Create(f) ==
  /\ pc = "idle"
  /\ owned[f] = Absent /\ held[f] = Absent /\ f \notin detached
  /\ owned' = [owned EXCEPT ![f] = {}]
  /\ UNCHANGED <<flash, held, detached, pc, call, lost>>

\* lfs_remove without the walks: create's answer to a failed write, and rename's
\* to an object under the new name.
Drop(f) ==
  /\ pc = "idle"
  /\ owned[f] # Absent /\ held[f] = Absent /\ f \notin detached
  /\ owned' = [owned EXCEPT ![f] = Absent]
  /\ UNCHANGED <<flash, held, detached, pc, call, lost>>

(***************************************************************************)
(* An update (the content of a create, write, truncate, zeroize_file_L): n *)
(* fresh blocks, each erased and programmed through the port, then one     *)
(* commit.                                                                 *)
(***************************************************************************)
Whole(b) == \A u \in Unit : flash[b][u] = "data"

\* The blocks a file can keep: those of its own list, or of the committed one
\* when it has no other.  A block that failed to program is written again.
Kept(f) ==
  IF held[f] = Absent THEN owned[f] ELSE {b \in held[f] : b \in owned[f] \/ Whole(b)}

UpdateBegin(f, k, n) ==
  /\ pc = "idle"
  /\ owned[f] # Absent
  /\ k \subseteq Kept(f)
  /\ pc' = (IF n = 0 THEN "commit" ELSE "alloc")
  /\ file' = f /\ keep' = k /\ want' = n
  /\ UNCHANGED <<flash, owned, held, detached, fresh, blk, off, before, doomed, due, lost>>

Alloc(b) ==
  /\ pc = "alloc"
  /\ b \notin Used
  /\ blk' = b /\ off' = 0
  /\ fresh' = fresh \cup {b}
  /\ want' = want - 1
  /\ lost' = lost \ {b}
  /\ pc' = "zeroize"
  /\ UNCHANGED <<flash, owned, held, detached, file, keep, before, doomed, due>>

\* The operation ends with an error.  The handle holds what it has linked to
\* its list, and what it held before, so that a walk still finds all of it.
UpdateFails(linked) ==
  /\ Return
  /\ IF linked = {} THEN UNCHANGED held
     ELSE held' = [held EXCEPT ![file] =
                     keep \cup linked \cup (IF held[file] = Absent THEN {} ELSE held[file])]
  /\ UNCHANGED <<owned, detached, lost>>

AllocFails ==
  /\ pc = "alloc"
  /\ Used = Block \/ "io" \in Fault
  /\ UpdateFails(fresh)
  /\ UNCHANGED flash

\* W77Q_LFS_PORT_Erase_L: the whole block is zeroed unit by unit, ...
ZeroizeUnit ==
  /\ pc = "zeroize"
  /\ SetUnit(blk, off, "zero")
  /\ IF off + 1 < Units THEN off' = off + 1 /\ UNCHANGED pc
                        ELSE off' = 0 /\ pc' = "erase"
  /\ UNCHANGED <<owned, held, detached, file, keep, want, fresh, blk, before, doomed, due, lost>>

\* ... then its sectors are erased.
EraseBlock ==
  /\ pc = "erase"
  /\ flash' = [flash EXCEPT ![blk] = [u \in Unit |-> "erased"]]
  /\ pc' = "prog"
  /\ UNCHANGED <<owned, held, detached, file, keep, want, fresh, blk, off, before, doomed, due, lost>>

\* W77Q_LFS_PORT_Prog_L, chunk by chunk
ProgUnit ==
  /\ pc = "prog"
  /\ SetUnit(blk, off, Programmed(flash[blk][off]))
  /\ IF off + 1 < Units THEN off' = off + 1 /\ UNCHANGED pc
                        ELSE off' = 0 /\ pc' = (IF want = 0 THEN "commit" ELSE "alloc")
  /\ UNCHANGED <<owned, held, detached, file, keep, want, fresh, blk, before, doomed, due, lost>>

\* A port call fails, the unit unchanged or spoilt: LFS_ERR_IO.  The block is in
\* the handle's list if its first program has succeeded.
PortFails ==
  /\ pc \in {"zeroize", "erase", "prog"}
  /\ "io" \in Fault
  /\ \/ UNCHANGED flash
     \/ SetUnit(blk, off, "junk")
  /\ \/ UpdateFails(fresh \ {blk})
     \/ pc = "prog" /\ UpdateFails(fresh)

\* lfs_file_sync, or lfs_file_close, commits the list ...
Commit ==
  /\ pc = "commit" /\ file \notin detached
  /\ owned' = [owned EXCEPT ![file] = keep \cup fresh]
  /\ held' = [held EXCEPT ![file] = Absent]
  /\ Return
  /\ UNCHANGED <<flash, detached, lost>>

\* ... or fails, or has no name to commit under: the list stays with the open
\* handle, which is dirty.  The caller of write is told TEE_SUCCESS either way.
CommitFails ==
  /\ pc = "commit"
  /\ file \in detached \/ "io" \in Fault
  /\ held' = [held EXCEPT ![file] = keep \cup fresh]
  /\ Return
  /\ UNCHANGED <<flash, owned, detached, lost>>

-----------------------------------------------------------------------------
(* tee_lfs_remove_L *)

\* lfs_fs_traverse into a cleared bitmap; nobody looks at its result.
Walk(bitmap) ==
  \/ bitmap = Used
  \/ "walk" \in Fault /\ bitmap \in SUBSET Used

RemoveBegin(f) ==
  /\ pc = "idle"
  /\ \E seen \in SUBSET Block :
       /\ Walk(seen)
       /\ before' = seen
  /\ pc' = "remove" /\ file' = f
  /\ UNCHANGED <<flash, owned, held, detached, keep, want, fresh, blk, off, doomed, due, lost>>

LfsRemove ==
  /\ pc = "remove"
  /\ owned[file] # Absent
  /\ due' = (owned[file] \cap before) \ Held
  /\ owned' = [owned EXCEPT ![file] = Absent]
  /\ pc' = "walk"
  /\ UNCHANGED <<flash, held, detached, file, keep, want, fresh, blk, off, before, doomed, lost>>

\* LFS_ERR_NOENT or an I/O error: returned to the caller.
LfsRemoveFails ==
  /\ pc = "remove"
  /\ owned[file] = Absent \/ "io" \in Fault
  /\ Return
  /\ UNCHANGED <<flash, owned, held, detached, lost>>

\* Mutant: every block that was in use.
WasUsed(was, still) == was

\* Mutant: the second walk looks at what is committed only.
NotLive(was, still) == was \ Live

\* wasUsed_b && !stillUsed_b
ToZero(was, still) == was \ still

SecondWalk ==
  /\ pc = "walk"
  /\ \E seen \in SUBSET Block :
       /\ Walk(seen)
       /\ doomed' = ToZero(before, seen)
       /\ lost' = lost \cup (doomed' \cap Used)
  /\ before' = {}
  /\ pc' = "scrub"
  /\ UNCHANGED <<flash, owned, held, detached, file, keep, want, fresh, blk, off, due>>

\* Mutant: one unit too many.
NextUnitLate ==
  IF off + 1 <= Units THEN off' = off + 1 /\ UNCHANGED blk
                      ELSE off' = 0 /\ blk' = blk + 1

NextUnit ==
  IF off + 1 < Units THEN off' = off + 1 /\ UNCHANGED blk
                     ELSE off' = 0 /\ blk' = blk + 1

\* Mutant: the last unit of a block is left out.
ScrubUnitShort ==
  /\ pc = "scrub" /\ blk \in doomed
  /\ \/ SetUnit(blk, off, "zero") /\ UNCHANGED due
     \/ /\ "io" \in Fault
        /\ \E v \in {flash[blk][off], "junk"} : SetUnit(blk, off, v)
        /\ due' = due \ {blk}
  /\ off' = 0 /\ blk' = blk + 1
  /\ UNCHANGED <<owned, held, detached, pc, file, keep, want, fresh, before, doomed, lost>>

\* One pass of the loop over blocks and units: W77Q_LFS_PORT_WriteRaw, result
\* ignored.
ScrubUnit ==
  /\ pc = "scrub" /\ blk \in doomed
  /\ \/ SetUnit(blk, off, "zero") /\ UNCHANGED due
     \/ /\ "io" \in Fault
        /\ \E v \in {flash[blk][off], "junk"} : SetUnit(blk, off, v)
        /\ due' = due \ {blk}
  /\ NextUnit
  /\ UNCHANGED <<owned, held, detached, pc, file, keep, want, fresh, before, doomed, lost>>

ScrubSkip ==
  /\ pc = "scrub" /\ blk \in Block \ doomed
  /\ blk' = blk + 1
  /\ UNCHANGED <<flash, owned, held, detached, pc, file, keep, want, fresh, off, before, doomed, due, lost>>

\* TEE_SUCCESS
RemoveReturn ==
  /\ pc = "scrub" /\ blk = Blocks
  /\ Return
  /\ UNCHANGED <<flash, owned, held, detached, lost>>

\* Power fails: the flash keeps what was programmed, and a unit that was being
\* programmed may hold neither the old nor the new content.
Crash ==
  /\ \/ UNCHANGED flash
     \/ pc \in {"zeroize", "erase", "prog"} /\ SetUnit(blk, off, "junk")
     \/ pc = "scrub" /\ blk \in doomed /\ SetUnit(blk, off, "junk")
  /\ Return
  /\ held' = [f \in File |-> Absent] /\ detached' = {}
  /\ UNCHANGED <<owned, lost>>

Handles == \E f \in File : Close(f) \/ Rename(f) \/ Create(f) \/ Drop(f)

Update ==
  \/ \E f \in File, k \in SUBSET Block, n \in 0..MaxFresh : UpdateBegin(f, k, n)
  \/ \E b \in Block : Alloc(b)
  \/ AllocFails \/ ZeroizeUnit \/ EraseBlock \/ ProgUnit \/ PortFails
  \/ Commit \/ CommitFails

Remove ==
  \/ \E f \in File : RemoveBegin(f)
  \/ LfsRemove \/ LfsRemoveFails \/ SecondWalk
  \/ ScrubUnit \/ ScrubSkip \/ RemoveReturn

Next == Handles \/ Update \/ Remove \/ Crash

Spec == Init /\ [][Next]_vars

-----------------------------------------------------------------------------
(* Properties *)

\* Every variable has its type; the loops stay within the flash.
TypeOK ==
  /\ flash \in [Block -> [Unit -> Content]]
  /\ owned \in [File -> {Absent} \cup SUBSET Block]
  /\ held \in [File -> {Absent} \cup SUBSET Block]
  /\ detached \in SUBSET File
  /\ pc \in {"idle", "alloc", "zeroize", "erase", "prog", "commit", "remove", "walk", "scrub"}
  /\ file \in File \cup {NoFile}
  /\ keep \in SUBSET Block
  /\ want \in Nat
  /\ fresh \in SUBSET Block
  /\ blk \in 0..Blocks
  /\ off \in Unit
  /\ before \in SUBSET Block
  /\ doomed \in SUBSET Block
  /\ due \in SUBSET Block
  /\ lost \in SUBSET Block

Scrubbed(b) == \A u \in Unit : flash[b][u] = "zero"

\* "This block was freed - zero its entire 4KB content": wherever power is
\* lost and whichever flash operation fails, neither the scrub nor the port's
\* erase touches a block of the metadata or of a stored object.
OnlyFreedZeroed == \A b \in Live : Whole(b)

\* What holds when walks fail too: only what a second one missed is damaged.
DamageIsUnseen == \A b \in Live \ lost : Whole(b)

\* What a handle has not committed lies on flash all the same, and the bytes
\* its caller was told are written are read from there: neither the port nor a
\* scrub, of the handle's own object or of another, touches a block of its list.
HeldUntouched == [][\A b \in Held : flash'[b] = flash[b]]_vars

\* "Objects large enough to own a CTZ data block are still scrubbed
\* immediately on delete": when remove succeeds, every block of the object is
\* zero from its first unit to its last, but for those the first walk did not
\* see, those a write failed on, and those that the object's own handle holds
\* in a list it has not committed: these the second walk finds in use.
RemovedIsScrubbed ==
  pc = "scrub" /\ blk = Blocks => \A b \in due : Scrubbed(b)

\* What makes them inductive.
UpdatePC == {"alloc", "zeroize", "erase", "prog", "commit"}
PortPC   == {"zeroize", "erase", "prog"}

\* No block belongs to two objects, by their committed lists or by those of
\* their handles.
Exclusive ==
  /\ \A f \in File : owned[f] # Absent => Root \notin owned[f]
  /\ \A f, g \in File : owned[f] # Absent /\ owned[g] # Absent /\ f # g
                         => owned[f] \cap owned[g] = {}
  /\ \A f \in File : held[f] # Absent => Root \notin held[f]
  /\ \A f, g \in File : held[f] # Absent /\ f # g =>
       /\ owned[g] # Absent => held[f] \cap owned[g] = {}
       /\ held[g] # Absent => held[f] \cap held[g] = {}
  /\ fresh \cap (Live \cup Held) = {}

\* The blocks of an update are whole but for the one the port is working on.
UpdateInv ==
  /\ pc \in UpdatePC =>
       /\ file \in File /\ owned[file] # Absent
       /\ keep \subseteq owned[file] \cup (IF held[file] = Absent THEN {} ELSE held[file])
       /\ \A b \in keep \ lost : Whole(b)
  /\ pc \notin UpdatePC => fresh = {}
  /\ pc = "alloc" => want > 0
  /\ pc \in PortPC => blk \in fresh
  /\ \A b \in fresh : Whole(b) \/ (pc \in PortPC /\ b = blk)
  /\ pc = "erase" => off = 0
  /\ pc = "prog" => \A u \in Unit : flash[blk][u] = IF u < off THEN "data" ELSE "erased"

\* What a remove still owes is free, and what it has passed is zero.
RemoveInv ==
  /\ pc \in {"remove", "walk", "scrub"} => file \in File
  /\ pc \in {"idle", "remove", "walk"} => blk = 0
  /\ pc \notin PortPC \cup {"scrub"} => off = 0
  /\ pc = "walk" => due \subseteq before \ Used
  /\ pc = "scrub" =>
       /\ due \subseteq doomed
       /\ doomed \cap Used \subseteq lost
       /\ blk \notin doomed => off = 0
       /\ \A b \in due, u \in Unit :
            b < blk \/ (b = blk /\ u < off) => flash[b][u] = "zero"

IndInv == TypeOK /\ Exclusive /\ UpdateInv /\ RemoveInv /\ DamageIsUnseen
=============================================================================
