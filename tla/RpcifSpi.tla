------------------------------- MODULE RpcifSpi -------------------------------
(***************************************************************************)
(* The SPI transport of QLIB over the RPC-IF controller (qlib_platform.c). *)
(* A transaction goes over the wire in one of two ways: byte by byte in    *)
(* manual mode (MD = 1), where each byte says whether the chip select is   *)
(* kept after it (SSLKP), or by reading the flash window in direct mode    *)
(* (MD = 0), where the controller sends command and address itself and may *)
(* serve bytes from its read cache.                                        *)
(*                                                                         *)
(* The driver is called by one thread at a time.  What runs beside it is   *)
(* the controller, which finishes a byte when it likes (HwShift): a        *)
(* bounded wait may give up just before.                                   *)
(*                                                                         *)
(* External, and modelled by the rules the code relies on: a byte written  *)
(* outside manual mode is not sent; DRCMR and DRENR only latch in direct   *)
(* mode (qlib_platform.c, 709); SSLN ends a burst read and RCF empties the *)
(* cache; whether SSLN also ends a frame that SSLKP keeps open, and        *)
(* whether leaving manual mode cuts off a byte under way, is open.  What   *)
(* rpcifClaim_L undoes is "XIP/Linux interference" (501): Interfere.       *)
(***************************************************************************)
EXTENDS Integers

CONSTANTS
  WordMod,    \* 2^32, the range of flashAddr_u32 + len_u32
  FlashSize,  \* RPCIF_FLASH_SIZE
  CmdSizes, AddrSizes, OutSizes, DummyCycles, InSizes,   \* what QLIB asks for
  Addresses   \* the flash addresses it reads

ASSUME SizesAssumption ==
  /\ WordMod \in Nat /\ FlashSize \in Nat /\ FlashSize < WordMod
  /\ CmdSizes \subseteq Nat /\ AddrSizes \subseteq Nat /\ OutSizes \subseteq Nat
  /\ DummyCycles \subseteq Nat
  /\ CmdSizes # {} /\ AddrSizes # {} /\ OutSizes # {}
  /\ DummyCycles # {} /\ InSizes # {} /\ Addresses # {}
  /\ InSizes \subseteq 0 .. WordMod - 1 /\ Addresses \subseteq 0 .. WordMod - 1

VARIABLES
  inited,    \* g_spiInited_b_L
  claimed,   \* g_busClaimed_b_L
  md,        \* CMNCR.MD: manual mode
  burst,     \* DRCR.RBE: direct reads go through the read cache
  cache,     \* whose bytes the read cache holds
  setup,     \* whose command DRCMR, DRENR and DRDMCR hold
  inflight,  \* whose byte the controller is sending (TEND = 0)
  keep,      \* SSLKP of that byte
  selected,  \* the chip select is asserted
  pc, op, starting, done, status,    \* the call; starting: MultiTransactionStart
  wire,      \* history: what the flash has got since it was selected
  last, closed,  \* history: the last frame that ended in this call, and how
                 \* many with bytes of this call have ended
  broken,    \* history: a wait gave up, and its frame is still open
  meddled,   \* history: Linux used the controller in a multi-transaction
  stale      \* history: a read returned bytes that were not its own

hw   == <<md, burst, cache, setup, inflight, keep, selected>>
call == <<op, starting, done>>
hist == <<wire, last, closed, broken, meddled, stale>>
vars == <<inited, claimed, hw, call, pc, status, hist>>

Owner  == {"none", "old", "mine"}
Call   == [cmd: CmdSizes, addr: AddrSizes, out: OutSizes, dummy: DummyCycles,
           in: InSizes, at: Addresses]
Frame  == [mine: Nat, other: BOOLEAN]
NoFrame == [mine |-> 0, other |-> FALSE]

-----------------------------------------------------------------------------
(* PLAT_SPI_WriteReadTransaction: how the bytes of a call are sent *)

TotalTx(c)    == c.cmd + c.addr + c.out
DummyBytes(c) == (c.dummy + 7) \div 8
ManualBytes(c) == TotalTx(c) + DummyBytes(c) + c.in

FlashRead(c)   == c.in > 0 /\ c.addr > 0 /\ c.dummy = 0
AddressRead(c) == c.in > 0 /\ c.addr > 0 /\ c.dummy > 0
CommandRead(c) == c.in > 0 /\ c.addr = 0 /\ c.cmd = 1 /\ c.out = 0
Direct(c)      == FlashRead(c) \/ AddressRead(c) \/ CommandRead(c)

\* Byte i is the last of an rpcifXfer_L with SPI_XFER_END.  On the transmit
\* path dummy bytes follow in chunks of 8 (dummyFf_au8), the last one with END.
Chunk == 8
EndsHeader(c, i) == i = TotalTx(c) /\ c.dummy = 0
EndsEveryChunk(c, j) == j % Chunk = 0 \/ j = DummyBytes(c)         \* a mutant
EndsDummy(c, j)  ==    \* j counts the dummy bytes
  LET remaining == DummyBytes(c) - ((j - 1) \div Chunk) * Chunk
  IN  (j % Chunk = 0 \/ j = DummyBytes(c)) /\ remaining <= Chunk
EndsHeaderOnly(c, i) == EndsHeader(c, i)      \* a mutant: END lost with dummies
EndsTransmit(c, i) ==
  IF i <= TotalTx(c) THEN EndsHeader(c, i) ELSE EndsDummy(c, i - TotalTx(c))
Ends(c, i) == IF c.in > 0 THEN i = ManualBytes(c) ELSE EndsTransmit(c, i)

\* The range check of rpcifFlashRead_L and rpcifCmdRead_L, in 32 bits.
WindowAddress(c) == IF c.addr > 0 THEN c.at ELSE 0
NoWrapCheck(a, n) == (a + n) % WordMod <= FlashSize             \* a mutant
InWindow(a, n) ==
  LET sum == (a + n) % WordMod IN ~(sum < a) /\ ~(sum > FlashSize)

-----------------------------------------------------------------------------
Init ==
  /\ inited = FALSE /\ claimed = FALSE
  /\ md \in BOOLEAN /\ burst \in BOOLEAN /\ cache \in {"none", "old"}
  /\ setup \in {"none", "old"}       \* whatever the boot loader has left
  /\ inflight = "none" /\ keep = FALSE /\ selected = FALSE
  /\ pc = "idle" /\ op = (CHOOSE c \in Call : TRUE) /\ starting = FALSE /\ done = 0
  /\ status = "none" /\ wire = NoFrame /\ last = NoFrame /\ closed = 0
  /\ broken = FALSE /\ meddled = FALSE /\ stale = FALSE

TypeOK ==
  /\ inited \in BOOLEAN /\ claimed \in BOOLEAN
  /\ md \in BOOLEAN /\ burst \in BOOLEAN
  /\ cache \in Owner /\ setup \in Owner /\ inflight \in Owner
  /\ keep \in BOOLEAN /\ selected \in BOOLEAN
  /\ pc \in {"idle", "ensure", "claim", "route", "start", "shift", "read", "panic"}
  /\ op \in Call /\ starting \in BOOLEAN /\ done \in 0 .. ManualBytes(op)
  /\ status \in {"none", "ok", "fail"}
  /\ wire \in Frame /\ last \in Frame /\ closed \in Nat
  /\ broken \in BOOLEAN /\ meddled \in BOOLEAN /\ stale \in BOOLEAN

-----------------------------------------------------------------------------
Older(owner) == IF owner = "none" THEN "none" ELSE "old"

\* A new call: what the controller still holds belongs to an older one.
NewCall ==
  /\ pc = "idle" /\ pc' = "ensure"
  /\ cache' = Older(cache) /\ setup' = Older(setup) /\ inflight' = Older(inflight)
  /\ wire' = [mine |-> 0, other |-> selected /\ (wire.other \/ wire.mine > 0)]
  /\ broken' = (broken /\ (selected \/ inflight # "none"))
  /\ last' = NoFrame /\ closed' = 0 /\ done' = 0 /\ status' = "none"
  /\ UNCHANGED <<inited, claimed, md, burst, keep, selected, meddled, stale>>

Transaction(c)        == NewCall /\ op' = c /\ starting' = FALSE
MultiTransactionStart == NewCall /\ starting' = TRUE /\ UNCHANGED op

MultiTransactionStop ==
  /\ pc = "idle" /\ claimed
  /\ claimed' = FALSE
  /\ UNCHANGED <<inited, hw, call, pc, status, hist>>

Return(res) == pc' = "idle" /\ status' = res

\* rpcifFlushCache_L: RCF empties the cache, RBE allows bursts again.  SSLN ends
\* the frame of a burst; a frame kept open by SSLKP it may end or not.
FlushCache == cache' = "none" /\ burst' = TRUE

EndFrame ==
  /\ selected' = FALSE /\ wire' = NoFrame
  /\ last' = wire /\ closed' = closed + (IF wire.mine > 0 THEN 1 ELSE 0)

NegateSelect ==
  \/ selected /\ inflight = "none" /\ EndFrame
  \/ UNCHANGED <<selected, wire, last, closed>>

\* ensureSpiReady_L, with rpcifInit_L on the first call.
EnsureReady ==
  /\ pc = "ensure" /\ inited
  /\ pc' = "claim"
  /\ UNCHANGED <<inited, claimed, hw, call, status, hist>>

InitSpi ==
  /\ pc = "ensure" /\ ~inited
  /\ inited' = TRUE /\ pc' = "claim" /\ md' = TRUE /\ FlushCache
  /\ UNCHANGED <<claimed, setup, inflight, keep, selected, call, status, hist>>

\* A mapping that fails, or a calibration that does not end in time.
InitPanics ==
  /\ pc = "ensure" /\ ~inited
  /\ pc' = "panic"
  /\ UNCHANGED <<inited, claimed, hw, call, status, hist>>

\* rpcifClaim_L, which succeeds even if the calibration times out.
Claim ==
  /\ pc = "claim" /\ (starting \/ ~claimed)
  /\ md' = TRUE /\ FlushCache /\ NegateSelect /\ meddled' = FALSE
  /\ IF starting THEN claimed' = TRUE /\ Return("ok")
                 ELSE pc' = "route" /\ UNCHANGED <<claimed, status>>
  /\ UNCHANGED <<inited, setup, inflight, keep, call, broken, stale>>

SkipClaim ==
  /\ pc = "claim" /\ ~starting /\ claimed
  /\ pc' = "route"
  /\ UNCHANGED <<inited, claimed, hw, call, status, hist>>

-----------------------------------------------------------------------------
(* Manual mode: rpcifXfer_L for header, dummy bytes and data *)

RouteEmpty ==
  /\ pc = "route" /\ ManualBytes(op) = 0
  /\ Return("ok")
  /\ UNCHANGED <<inited, claimed, hw, call, hist>>

RouteManual ==
  /\ pc = "route" /\ ~Direct(op) /\ ManualBytes(op) > 0
  /\ pc' = "start"
  /\ UNCHANGED <<inited, claimed, hw, call, status, hist>>

\* The wait before a byte ends, and SMWDR0, SMENR, SMCR are written.
StartByte ==
  /\ pc = "start" /\ inflight = "none"
  /\ pc' = "shift"
  /\ IF md THEN /\ inflight' = "mine" /\ selected' = TRUE
                /\ keep' = ~Ends(op, done + 1)
           ELSE UNCHANGED <<inflight, selected, keep>>
  /\ UNCHANGED <<inited, claimed, md, burst, cache, setup, call, status, hist>>

ByteDoneUnawaited ==     \* a mutant: returns while the byte is being sent
  /\ pc = "shift"
  /\ done' = done + 1
  /\ IF done + 1 = ManualBytes(op) THEN Return("ok")
                                   ELSE pc' = "start" /\ UNCHANGED status
  /\ UNCHANGED <<inited, claimed, hw, op, starting, hist>>

ByteDoneOneMore ==     \* a mutant: one byte too many
  /\ pc = "shift" /\ inflight = "none"
  /\ done' = done + 1
  /\ IF done = ManualBytes(op) THEN Return("ok")
                               ELSE pc' = "start" /\ UNCHANGED status
  /\ UNCHANGED <<inited, claimed, hw, op, starting, hist>>

\* The wait after it ends; a byte that was read is taken from SMRDR0.
ByteDone ==
  /\ pc = "shift" /\ inflight = "none"
  /\ done' = done + 1
  /\ IF done + 1 = ManualBytes(op) THEN Return("ok")
                                   ELSE pc' = "start" /\ UNCHANGED status
  /\ UNCHANGED <<inited, claimed, hw, op, starting, hist>>

WaitForever == FALSE     \* a mutant: the wait has no bound

WaitRetries ==     \* a mutant: the byte is sent again
  /\ pc = "shift" /\ inflight # "none"
  /\ pc' = "start" /\ broken' = TRUE
  /\ UNCHANGED <<inited, claimed, hw, call, status, wire, last, closed, meddled, stale>>

\* rpcifWaitTend_L gives up: the transaction returns -1 where it stands.
WaitTimesOut ==
  /\ pc \in {"start", "shift"} /\ inflight # "none"
  /\ Return("fail") /\ broken' = TRUE
  /\ UNCHANGED <<inited, claimed, hw, call, wire, last, closed, meddled, stale>>

\* The controller (external) finishes the byte, and keeps the flash selected
\* or not.
HwShift ==
  /\ inflight # "none" /\ inflight' = "none"
  /\ LET got == [mine |-> wire.mine + (IF inflight = "mine" THEN 1 ELSE 0),
                 other |-> wire.other \/ inflight = "old"]
     IN  IF keep
         THEN wire' = got /\ UNCHANGED <<selected, last, closed>>
         ELSE /\ selected' = FALSE /\ wire' = NoFrame /\ last' = got
              /\ closed' = closed + (IF got.mine > 0 THEN 1 ELSE 0)
  /\ UNCHANGED <<inited, claimed, md, burst, cache, setup, keep, call, pc, status,
                 broken, meddled, stale>>

-----------------------------------------------------------------------------
(* Direct mode: rpcifFlashRead_L and rpcifCmdRead_L *)

RouteOutside ==
  /\ pc = "route" /\ Direct(op) /\ ~InWindow(WindowAddress(op), op.in)
  /\ Return("fail")
  /\ UNCHANGED <<inited, claimed, hw, call, hist>>

RouteDirectUnflushed ==     \* a mutant: the cache keeps what it has
  /\ pc = "route" /\ Direct(op) /\ InWindow(WindowAddress(op), op.in)
  /\ pc' = "read" /\ md' = FALSE
  /\ burst' = ~AddressRead(op) /\ setup' = "mine"
  /\ inflight' \in {inflight, "none"}
  /\ NegateSelect
  /\ UNCHANGED <<inited, claimed, cache, keep, call, status, broken, meddled, stale>>

\* MD = 0, flush, then the command is set up; with an address and dummy cycles
\* bursts are off, so that every byte is a transaction of its own.
RouteDirect ==
  /\ pc = "route" /\ Direct(op) /\ InWindow(WindowAddress(op), op.in)
  /\ pc' = "read" /\ md' = FALSE
  /\ cache' = "none" /\ burst' = ~AddressRead(op) /\ setup' = "mine"
  /\ inflight' \in {inflight, "none"}
  /\ NegateSelect
  /\ UNCHANGED <<inited, claimed, keep, call, status, broken, meddled, stale>>

\* One byte of the window, from the cache or from the flash.
ReadByte ==
  /\ pc = "read" /\ done < op.in
  /\ done' = done + 1
  /\ stale' = (stale \/ md \/ setup # "mine" \/ (burst /\ cache = "old"))
  /\ IF burst
     THEN IF cache = "none"
          THEN /\ cache' = "mine" /\ selected' = TRUE
               /\ wire' = [wire EXCEPT !.mine = 1]
               /\ UNCHANGED <<last, closed>>
          ELSE UNCHANGED <<cache, selected, wire, last, closed>>
     ELSE /\ selected' = FALSE /\ wire' = NoFrame
          /\ last' = [wire EXCEPT !.mine = 1] /\ closed' = closed + 1
          /\ UNCHANGED cache
  /\ UNCHANGED <<inited, claimed, md, burst, setup, inflight, keep, op, starting,
                 pc, status, broken, meddled>>

LeaveDirectMode ==     \* a mutant: stays in direct mode
  /\ pc = "read" /\ done = op.in
  /\ FlushCache
  /\ IF selected THEN EndFrame ELSE UNCHANGED <<selected, wire, last, closed>>
  /\ Return("ok")
  /\ UNCHANGED <<inited, claimed, md, setup, inflight, keep, call, broken, meddled, stale>>

\* MD = 1 again, and a flush, whose SSLN ends the burst.
LeaveDirect ==
  /\ pc = "read" /\ done = op.in
  /\ md' = TRUE /\ FlushCache
  /\ IF selected THEN EndFrame ELSE UNCHANGED <<selected, wire, last, closed>>
  /\ Return("ok")
  /\ UNCHANGED <<inited, claimed, setup, inflight, keep, call, broken, meddled, stale>>

-----------------------------------------------------------------------------
(* The environment *)

\* Linux reads the flash through the window between two calls.
Interfere ==
  /\ pc = "idle" /\ inflight = "none"
  /\ md' = FALSE /\ burst' = TRUE /\ cache' = "old" /\ setup' = "old"
  /\ meddled' = (meddled \/ claimed)
  /\ UNCHANGED <<inited, claimed, inflight, keep, selected, call, pc, status, wire,
                 last, closed, broken, stale>>

PowerCycle ==
  /\ pc' = "idle" /\ inited' = FALSE /\ claimed' = FALSE
  /\ inflight' = "none" /\ keep' = FALSE /\ selected' = FALSE
  /\ cache' = "none" /\ setup' = "none" /\ md' \in BOOLEAN
  /\ status' = "none" /\ wire' = NoFrame /\ last' = NoFrame /\ closed' = 0
  /\ done' = 0 /\ broken' = FALSE /\ meddled' = FALSE
  /\ UNCHANGED <<burst, op, starting, stale>>

DriverStep ==
  \/ EnsureReady \/ InitSpi \/ InitPanics \/ Claim \/ SkipClaim
  \/ RouteEmpty \/ RouteManual \/ StartByte \/ ByteDone \/ WaitTimesOut
  \/ RouteOutside \/ RouteDirect \/ ReadByte \/ LeaveDirect

Next ==
  \/ \E c \in Call : Transaction(c)
  \/ MultiTransactionStart \/ MultiTransactionStop
  \/ DriverStep \/ HwShift \/ Interfere \/ PowerCycle

Spec == Init /\ [][Next]_vars

\* The driver's waits are bounded loops of a running kernel thread, so it
\* always takes its next step.  Nothing is assumed of the controller.
FairSpec == Spec /\ WF_vars(DriverStep)

-----------------------------------------------------------------------------
(* Properties *)

\* Bytes of two transactions meet in one frame only if the earlier one was cut
\* off by a timeout, which leaves the chip select asserted: never because a
\* transaction that came to its end forgot to release it.
FramesNotShared == wire.other \/ last.other => broken

\* A transaction in manual mode that reports success has sent all its bytes in
\* one frame that has ended, whatever became of the one before; unless Linux
\* changed the mode in the middle of a multi-transaction, where nobody claims.
SuccessIsOneFrame ==
  pc = "idle" /\ status = "ok" /\ ~starting /\ ~Direct(op) /\ ManualBytes(op) > 0
    => \/ meddled
       \/ closed = 1 /\ last.mine = ManualBytes(op) /\ ~selected

\* A byte is handed to the controller in manual mode: the direct reads before it
\* have restored the mode, or the claim did; with the same exception.
ManualMode == pc \in {"start", "shift"} => md \/ meddled

\* A direct read returns bytes fetched for it, in direct mode with its own
\* command, and never those an earlier transaction or Linux left in the cache: a
\* status register is read again and again at the same window address.
ReadsAreFresh == ~stale

\* The range check keeps direct reads inside the mapped window, also where
\* address plus length wraps around.
ReadsInsideWindow == pc = "read" => WindowAddress(op) + op.in <= FlashSize

\* The mode changes under a byte that is still being sent only after a timeout:
\* neither the claim nor a direct read waits for TEND.  (Power loss aside.)
ModeSwitchedIdle == 
  [][md' # md => inflight = "none" \/ broken \/ ~inited']_<<md, inflight, broken, inited>>

\* The driver's steps up to the return: two for each byte left, at most.
StepsLeft ==
  IF pc \in {"idle", "panic"} THEN 0
  ELSE 2 * (ManualBytes(op) - done)
       + CASE pc = "ensure" -> 4 [] pc = "claim" -> 3 [] pc = "route" -> 2
           [] pc \in {"start", "read"} -> 1 [] pc = "shift" -> 0

\* Why transactions return: each step of the driver leaves it fewer, whatever
\* the controller does between, so that no byte is sent or awaited twice.
TransactionAdvances ==
  [][pc \notin {"idle", "panic"} => StepsLeft' < StepsLeft \/ UNCHANGED <<pc, call>>]_vars

\* Every transaction returns (or panics): each wait is bounded and each byte
\* of header, dummy chunks and data is counted.
CallsReturn == (pc \notin {"idle", "panic"}) ~> (pc \in {"idle", "panic"})
=============================================================================
