---------------------------- MODULE RpcifSpiProofs ----------------------------
(* Proofs about RpcifSpi, for every controller, range and set of calls. *)
EXTENDS RpcifSpi, TLAPS

Requested == {"ensure", "claim", "route"}
Between   == {"idle", "panic"} \cup Requested

\* Outside a transfer the flash is deselected and the controller idle, or a
\* wait has given up.  Bytes of an older call come from such a wait.
SelectInv ==
  /\ pc \in Between => broken \/ (~selected /\ inflight = "none")
  /\ inflight = "old" => broken
  /\ wire.other \/ last.other => broken

\* A call that has not been routed has sent nothing yet.
RequestInv ==
  pc \in Requested =>
    /\ wire.mine = 0 /\ last.mine = 0 /\ done = 0 /\ closed = 0
    /\ inflight # "mine" /\ cache # "mine" /\ setup # "mine"

\* The mode is manual when a transfer begins, unless Linux meddled.
ModeInv ==
  /\ pc \in {"idle", "ensure", "claim"} /\ claimed => md \/ meddled
  /\ pc \in {"route", "start", "shift"} => md \/ meddled

\* In a manual transfer the open frame holds the bytes counted so far.
ManualInv ==
  /\ pc \in {"start", "shift"} =>
       /\ ~Direct(op) /\ done < ManualBytes(op)
       /\ ~md => inflight # "mine" /\ (broken \/ ~selected)
  /\ pc = "start" /\ md =>
       /\ wire.mine = done /\ closed = 0 /\ inflight # "mine"
       /\ done > 0 => inflight = "none"
  /\ pc = "start" => inflight # "mine"
  /\ pc = "shift" => inflight # "old"
  /\ pc = "shift" /\ inflight = "mine" =>
       wire.mine = done /\ closed = 0 /\ (keep <=> done + 1 # ManualBytes(op))
  /\ pc = "shift" /\ inflight = "none" /\ md =>
       IF done + 1 = ManualBytes(op)
       THEN closed = 1 /\ last.mine = ManualBytes(op) /\ ~selected
       ELSE closed = 0 /\ wire.mine = done + 1

\* A direct read runs in direct mode, with its own command, an empty cache or
\* its own bytes, and inside the window.
DirectInv ==
  /\ pc = "read" =>
       /\ Direct(op) /\ ~md /\ setup = "mine" /\ cache # "old"
       /\ done <= op.in /\ WindowAddress(op) + op.in <= FlashSize
       /\ inflight = "none" \/ (inflight = "old" /\ broken)
  /\ ~stale

\* A manual transaction that has succeeded.
SuccessInv ==
  pc = "idle" /\ status = "ok" /\ ~starting /\ ~Direct(op) /\ ManualBytes(op) > 0
    => \/ meddled
       \/ /\ closed = 1 /\ last.mine = ManualBytes(op) /\ ~selected
          /\ inflight = "none"

IndInv == /\ TypeOK /\ SelectInv /\ RequestInv /\ ModeInv /\ ManualInv
          /\ DirectInv /\ SuccessInv

-----------------------------------------------------------------------------
\* What a call asks for are numbers; so are the counts made from them.
LEMMA CallNumbers ==
  ASSUME NEW c \in Call
  PROVE  /\ c.cmd \in Nat /\ c.addr \in Nat /\ c.out \in Nat /\ c.dummy \in Nat
         /\ c.in \in Nat /\ c.in < WordMod /\ c.at \in Nat /\ c.at < WordMod
         /\ TotalTx(c) \in Nat /\ DummyBytes(c) \in Nat /\ ManualBytes(c) \in Nat
         /\ c.in <= ManualBytes(c)
<1>1. /\ c.cmd \in CmdSizes /\ c.addr \in AddrSizes /\ c.out \in OutSizes
      /\ c.dummy \in DummyCycles /\ c.in \in InSizes /\ c.at \in Addresses
  BY DEF Call
<1>2. /\ c.cmd \in Nat /\ c.addr \in Nat /\ c.out \in Nat /\ c.dummy \in Nat
      /\ c.in \in 0 .. WordMod - 1 /\ c.at \in 0 .. WordMod - 1
  BY <1>1, SizesAssumption
<1>3. TotalTx(c) \in Nat /\ DummyBytes(c) \in Nat
  BY <1>2 DEF TotalTx, DummyBytes
<1> QED BY <1>2, <1>3, SizesAssumption DEF ManualBytes

\* The chip select is released after the last byte of a transaction and no
\* earlier: header, chunks of dummy bytes and data add up.
THEOREM EndsWithLastByte ==
  ASSUME NEW c \in Call, NEW i \in 1 .. ManualBytes(c)
  PROVE  Ends(c, i) <=> i = ManualBytes(c)
<1>1. CASE c.in > 0
  BY <1>1 DEF Ends
<1>2. CASE ~(c.in > 0)
  <2>1. c.in = 0 /\ ManualBytes(c) = TotalTx(c) + DummyBytes(c)
    BY <1>2, CallNumbers DEF ManualBytes
  <2>2. CASE i <= TotalTx(c)
    BY <1>2, <2>1, <2>2, CallNumbers DEF Ends, EndsTransmit, EndsHeader, DummyBytes
  <2>3. CASE ~(i <= TotalTx(c))
    <3> DEFINE j == i - TotalTx(c)
               q == (j - 1) \div 8
    <3>1. j \in 1 .. DummyBytes(c) /\ q \in Nat
      BY <2>1, <2>3, CallNumbers
    <3>2. q * 8 <= j - 1 /\ j - 1 < q * 8 + 8
      BY <3>1
    <3>3. j % 8 = 0 => j = q * 8 + 8
      BY <3>1, <3>2
    <3>4. EndsDummy(c, j) <=> j = DummyBytes(c)
      <4> HIDE DEF j, q
      <4>1. EndsDummy(c, j) <=> (j % 8 = 0 \/ j = DummyBytes(c))
                                   /\ DummyBytes(c) - ((j - 1) \div 8) * 8 <= 8
        BY DEF EndsDummy, Chunk
      <4>2. (j - 1) \div 8 = q
        BY DEF q
      <4>3. EndsDummy(c, j) <=> (j % 8 = 0 \/ j = DummyBytes(c))
                                   /\ DummyBytes(c) - q * 8 <= 8
        BY <4>1, <4>2
      <4> QED BY <3>1, <3>2, <3>3, <4>3, CallNumbers
    <3> QED
      BY <1>2, <2>1, <2>3, <3>4, CallNumbers DEF Ends, EndsTransmit
  <2> QED BY <2>2, <2>3
<1> QED BY <1>1, <1>2

\* The 32-bit check refuses whatever reaches beyond the window.
THEOREM WindowCheck ==
  ASSUME NEW a \in 0 .. WordMod - 1, NEW n \in 0 .. WordMod - 1, InWindow(a, n)
  PROVE  a + n <= FlashSize
<1>1. CASE a + n < WordMod
  <2>1. (a + n) % WordMod = a + n
    BY <1>1, SizesAssumption
  <2> QED BY <2>1, SizesAssumption DEF InWindow
<1>2. CASE ~(a + n < WordMod)
  <2>1. (a + n) % WordMod = a + n - WordMod
    BY <1>2, SizesAssumption
  <2> QED BY <1>2, <2>1, SizesAssumption DEF InWindow
<1> QED BY <1>1, <1>2

-----------------------------------------------------------------------------
\* Initially nothing is selected, claimed or under way.
LEMMA Initially == Init => IndInv
<1> SUFFICES ASSUME Init PROVE IndInv
  OBVIOUS
<1>1. (CHOOSE c \in Call : TRUE) \in Call
  <2>1. PICK a \in CmdSizes, b \in AddrSizes, c \in OutSizes,
             d \in DummyCycles, e \in InSizes, f \in Addresses : TRUE
    BY SizesAssumption
  <2>2. [cmd |-> a, addr |-> b, out |-> c, dummy |-> d, in |-> e, at |-> f] \in Call
    BY DEF Call
  <2> QED BY <2>2
<1>2. op \in Call /\ ManualBytes(op) \in Nat
  BY <1>1, CallNumbers DEF Init
<1>3. TypeOK
  <2>1. /\ inited \in BOOLEAN /\ claimed \in BOOLEAN /\ md \in BOOLEAN /\ burst \in BOOLEAN
        /\ keep \in BOOLEAN /\ selected \in BOOLEAN /\ starting \in BOOLEAN
        /\ broken \in BOOLEAN /\ meddled \in BOOLEAN /\ stale \in BOOLEAN
    BY DEF Init
  <2>2. wire \in Frame /\ last \in Frame
    BY DEF Init, Frame, NoFrame
  <2> QED
    BY <1>2, <2>1, <2>2 DEF Init, TypeOK, Owner
<1> QED
  BY <1>2, <1>3 DEF Init, IndInv, SelectInv, RequestInv, ModeInv, ManualInv,
              DirectInv, SuccessInv, NoFrame, Between, Requested

\* A new call finds the flash deselected, or a timeout behind it.
LEMMA NewCallKeeps ==
  ASSUME IndInv, NewCall, op' \in Call, starting' \in BOOLEAN
  PROVE  IndInv'
<1>1. op \in Call /\ ManualBytes(op) \in Nat /\ op.in \in Nat /\ op.in <= ManualBytes(op)
  BY CallNumbers DEF IndInv, TypeOK
<1>2. ManualBytes(op') \in Nat
  BY CallNumbers
<1>3. TypeOK'
  BY <1>1, <1>2 DEF IndInv, NewCall, Older, TypeOK, Owner, Frame, NoFrame
<1>4. SelectInv'
  BY <1>1, <1>2 DEF IndInv, NewCall, Older, SelectInv, NoFrame, Between
<1>5. RequestInv'
  BY <1>1, <1>2 DEF NewCall, Older, RequestInv, NoFrame
<1>6. ModeInv'
  BY <1>1, <1>2 DEF IndInv, NewCall, ModeInv
<1>7. ManualInv'
  BY <1>1, <1>2 DEF NewCall, Older, ManualInv
<1>8. DirectInv'
  BY <1>1, <1>2 DEF IndInv, NewCall, DirectInv
<1>9. SuccessInv'
  BY <1>1, <1>2 DEF NewCall, Older, SuccessInv
<1> QED BY <1>3, <1>4, <1>5, <1>6, <1>7, <1>8, <1>9 DEF IndInv

\* Giving up the claim changes no mode.
LEMMA MultiTransactionStopKeeps ==
  ASSUME IndInv, MultiTransactionStop
  PROVE  IndInv'
<1>1. op \in Call /\ ManualBytes(op) \in Nat /\ op.in \in Nat /\ op.in <= ManualBytes(op)
  BY CallNumbers DEF IndInv, TypeOK
<1>2. TypeOK'
  <2>1. claimed' \in BOOLEAN
    BY DEF MultiTransactionStop
  <2> QED
    BY <1>1, <2>1 DEF IndInv, MultiTransactionStop, hw, call, hist, TypeOK
<1>3. SelectInv'
  BY <1>1 DEF IndInv, MultiTransactionStop, hw, hist, SelectInv
<1>4. RequestInv'
  BY <1>1 DEF MultiTransactionStop, RequestInv, Requested
<1>5. ModeInv'
  BY <1>1 DEF MultiTransactionStop, hw, ModeInv
<1>6. ManualInv'
  BY <1>1 DEF MultiTransactionStop, hw, ManualInv
<1>7. DirectInv'
  BY <1>1 DEF IndInv, MultiTransactionStop, hist, DirectInv
<1>8. SuccessInv'
  BY <1>1 DEF IndInv, MultiTransactionStop, hw, call, hist, SuccessInv
<1> QED BY <1>2, <1>3, <1>4, <1>5, <1>6, <1>7, <1>8 DEF IndInv

\* The controller is ready.
LEMMA EnsureReadyKeeps ==
  ASSUME IndInv, EnsureReady
  PROVE  IndInv'
<1>1. op \in Call /\ ManualBytes(op) \in Nat /\ op.in \in Nat /\ op.in <= ManualBytes(op)
  BY CallNumbers DEF IndInv, TypeOK
<1>2. TypeOK'
  BY <1>1 DEF IndInv, EnsureReady, hw, call, hist, TypeOK
<1>3. SelectInv'
  BY <1>1 DEF IndInv, EnsureReady, hw, hist, SelectInv, Between, Requested
<1>4. RequestInv'
  BY <1>1 DEF IndInv, EnsureReady, hw, call, hist, RequestInv, Requested
<1>5. ModeInv'
  BY <1>1 DEF IndInv, EnsureReady, hw, hist, ModeInv
<1>6. ManualInv'
  BY <1>1 DEF EnsureReady, hw, ManualInv
<1>7. DirectInv'
  BY <1>1 DEF IndInv, EnsureReady, hist, DirectInv
<1>8. SuccessInv'
  BY <1>1 DEF EnsureReady, hw, SuccessInv
<1> QED BY <1>2, <1>3, <1>4, <1>5, <1>6, <1>7, <1>8 DEF IndInv

\* The first call sets manual mode.
LEMMA InitSpiKeeps ==
  ASSUME IndInv, InitSpi
  PROVE  IndInv'
<1>1. op \in Call /\ ManualBytes(op) \in Nat /\ op.in \in Nat /\ op.in <= ManualBytes(op)
  BY CallNumbers DEF IndInv, TypeOK
<1>2. TypeOK'
  BY <1>1 DEF IndInv, InitSpi, FlushCache, call, hist, TypeOK, Owner
<1>3. SelectInv'
  BY <1>1 DEF IndInv, InitSpi, hist, SelectInv, Between, Requested
<1>4. RequestInv'
  BY <1>1 DEF IndInv, InitSpi, FlushCache, call, hist, RequestInv, Requested
<1>5. ModeInv'
  BY <1>1 DEF InitSpi, FlushCache, ModeInv
<1>6. ManualInv'
  BY <1>1 DEF InitSpi, FlushCache, ManualInv
<1>7. DirectInv'
  BY <1>1 DEF IndInv, InitSpi, hist, DirectInv
<1>8. SuccessInv'
  BY <1>1 DEF InitSpi, FlushCache, SuccessInv
<1> QED BY <1>2, <1>3, <1>4, <1>5, <1>6, <1>7, <1>8 DEF IndInv

\* A panic ends the call.
LEMMA InitPanicsKeeps ==
  ASSUME IndInv, InitPanics
  PROVE  IndInv'
<1>1. op \in Call /\ ManualBytes(op) \in Nat /\ op.in \in Nat /\ op.in <= ManualBytes(op)
  BY CallNumbers DEF IndInv, TypeOK
<1>2. TypeOK'
  BY <1>1 DEF IndInv, InitPanics, hw, call, hist, TypeOK
<1>3. SelectInv'
  BY <1>1 DEF IndInv, InitPanics, hw, hist, SelectInv, Between, Requested
<1>4. RequestInv'
  BY <1>1 DEF InitPanics, RequestInv, Requested
<1>5. ModeInv'
  BY <1>1 DEF InitPanics, hw, ModeInv
<1>6. ManualInv'
  BY <1>1 DEF InitPanics, hw, ManualInv
<1>7. DirectInv'
  BY <1>1 DEF IndInv, InitPanics, hist, DirectInv
<1>8. SuccessInv'
  BY <1>1 DEF InitPanics, hw, SuccessInv
<1> QED BY <1>2, <1>3, <1>4, <1>5, <1>6, <1>7, <1>8 DEF IndInv

\* The claim restores manual mode and sends nothing.
LEMMA ClaimKeeps ==
  ASSUME IndInv, Claim
  PROVE  IndInv'
<1>1. op \in Call /\ ManualBytes(op) \in Nat /\ op.in \in Nat /\ op.in <= ManualBytes(op)
  BY CallNumbers DEF IndInv, TypeOK
<1>2. TypeOK'
  <2>1. /\ claimed' \in BOOLEAN /\ md' \in BOOLEAN /\ burst' \in BOOLEAN
       /\ meddled' \in BOOLEAN
    BY DEF IndInv, Claim, FlushCache, TypeOK
  <2>2. selected' \in BOOLEAN
    BY DEF IndInv, Claim, NegateSelect, EndFrame, TypeOK
  <2>3. wire' \in Frame /\ last' \in Frame /\ closed' \in Nat
    <3>1. wire \in Frame /\ last \in Frame /\ closed \in Nat /\ wire.mine \in Nat
          /\ wire.other \in BOOLEAN /\ NoFrame \in Frame
      BY DEF IndInv, TypeOK, Frame, NoFrame
    <3>2. wire' \in Frame
      BY <3>1 DEF Claim, NegateSelect, EndFrame
    <3>3. last' \in Frame
      BY <3>1 DEF Claim, NegateSelect, EndFrame
    <3>4. closed' \in Nat
      BY <3>1 DEF Claim, NegateSelect, EndFrame
    <3> QED BY <3>2, <3>3, <3>4
  <2> QED
    BY <1>1, <2>1, <2>2, <2>3 DEF IndInv, Claim, FlushCache, Return, call, TypeOK, Owner
<1>3. SelectInv'
  BY <1>1 DEF IndInv, Claim, NegateSelect, SelectInv, Between, Requested
<1>4. RequestInv'
  BY <1>1 DEF IndInv, Claim, FlushCache, NegateSelect, EndFrame, call, RequestInv, NoFrame, Requested
<1>5. ModeInv'
  BY <1>1 DEF Claim, NegateSelect, ModeInv
<1>6. ManualInv'
  BY <1>1 DEF Claim, Return, ManualInv
<1>7. DirectInv'
  BY <1>1 DEF IndInv, Claim, Return, DirectInv
<1>8. SuccessInv'
  BY <1>1 DEF Claim, call, SuccessInv
<1> QED BY <1>2, <1>3, <1>4, <1>5, <1>6, <1>7, <1>8 DEF IndInv

\* In a multi-transaction the mode is still manual.
LEMMA SkipClaimKeeps ==
  ASSUME IndInv, SkipClaim
  PROVE  IndInv'
<1>1. op \in Call /\ ManualBytes(op) \in Nat /\ op.in \in Nat /\ op.in <= ManualBytes(op)
  BY CallNumbers DEF IndInv, TypeOK
<1>2. TypeOK'
  BY <1>1 DEF IndInv, SkipClaim, hw, call, hist, TypeOK
<1>3. SelectInv'
  BY <1>1 DEF IndInv, SkipClaim, hw, hist, SelectInv, Between, Requested
<1>4. RequestInv'
  BY <1>1 DEF IndInv, SkipClaim, hw, call, hist, RequestInv, Requested
<1>5. ModeInv'
  BY <1>1 DEF IndInv, SkipClaim, hw, hist, ModeInv
<1>6. ManualInv'
  BY <1>1 DEF SkipClaim, hw, ManualInv
<1>7. DirectInv'
  BY <1>1 DEF IndInv, SkipClaim, hist, DirectInv
<1>8. SuccessInv'
  BY <1>1 DEF SkipClaim, hw, SuccessInv
<1> QED BY <1>2, <1>3, <1>4, <1>5, <1>6, <1>7, <1>8 DEF IndInv

\* A call without bytes sends nothing.
LEMMA RouteEmptyKeeps ==
  ASSUME IndInv, RouteEmpty
  PROVE  IndInv'
<1>1. op \in Call /\ ManualBytes(op) \in Nat /\ op.in \in Nat /\ op.in <= ManualBytes(op)
  BY CallNumbers DEF IndInv, TypeOK
<1>2. TypeOK'
  BY <1>1 DEF IndInv, RouteEmpty, Return, hw, call, hist, TypeOK
<1>3. SelectInv'
  BY <1>1 DEF IndInv, RouteEmpty, hw, hist, SelectInv, Between, Requested
<1>4. RequestInv'
  BY <1>1 DEF RouteEmpty, Return, RequestInv, Requested
<1>5. ModeInv'
  BY <1>1 DEF IndInv, RouteEmpty, hw, hist, ModeInv
<1>6. ManualInv'
  BY <1>1 DEF RouteEmpty, Return, ManualInv
<1>7. DirectInv'
  BY <1>1 DEF IndInv, RouteEmpty, Return, hist, DirectInv
<1>8. SuccessInv'
  BY <1>1 DEF RouteEmpty, call, SuccessInv
<1> QED BY <1>2, <1>3, <1>4, <1>5, <1>6, <1>7, <1>8 DEF IndInv

\* A manual transfer begins with no byte counted.
LEMMA RouteManualKeeps ==
  ASSUME IndInv, RouteManual
  PROVE  IndInv'
<1>1. op \in Call /\ ManualBytes(op) \in Nat /\ op.in \in Nat /\ op.in <= ManualBytes(op)
  BY CallNumbers DEF IndInv, TypeOK
<1>2. TypeOK'
  BY <1>1 DEF IndInv, RouteManual, hw, call, hist, TypeOK
<1>3. SelectInv'
  BY <1>1 DEF IndInv, RouteManual, hw, hist, SelectInv, Between, Requested
<1>4. RequestInv'
  BY <1>1 DEF RouteManual, RequestInv, Requested
<1>5. ModeInv'
  BY <1>1 DEF IndInv, RouteManual, hw, hist, ModeInv
<1>6. ManualInv'
  BY <1>1 DEF IndInv, RouteManual, hw, call, hist, SelectInv, RequestInv, ManualInv, Between, Requested
<1>7. DirectInv'
  BY <1>1 DEF IndInv, RouteManual, hist, DirectInv
<1>8. SuccessInv'
  BY <1>1 DEF RouteManual, hw, SuccessInv
<1> QED BY <1>2, <1>3, <1>4, <1>5, <1>6, <1>7, <1>8 DEF IndInv

\* The chip select of a byte is kept unless it is the last one.
LEMMA StartByteKeeps ==
  ASSUME IndInv, StartByte
  PROVE  IndInv'
<1>1. op \in Call /\ ManualBytes(op) \in Nat /\ op.in \in Nat /\ op.in <= ManualBytes(op)
  BY CallNumbers DEF IndInv, TypeOK
<1>2. TypeOK'
  <2>1. keep' \in BOOLEAN
    BY DEF IndInv, StartByte, TypeOK
  <2>2. selected' \in BOOLEAN
    BY DEF IndInv, StartByte, TypeOK
  <2> QED
    BY <1>1, <2>1, <2>2 DEF IndInv, StartByte, call, hist, TypeOK, Owner
<1>3. SelectInv'
  BY <1>1 DEF IndInv, StartByte, hist, SelectInv, Between, Requested
<1>4. RequestInv'
  BY <1>1 DEF StartByte, RequestInv, Requested
<1>5. ModeInv'
  BY <1>1 DEF IndInv, StartByte, hist, ModeInv
<1>6. ManualInv'
  <2>1. pc = "start" => done + 1 \in 1 .. ManualBytes(op)
    BY <1>1 DEF IndInv, TypeOK, ManualInv
  <2>2. pc = "start" => (Ends(op, done + 1) <=> done + 1 = ManualBytes(op))
    BY <1>1, <2>1, EndsWithLastByte
  <2> QED
    BY <1>1, <2>2 DEF IndInv, StartByte, call, hist, ManualInv
<1>7. DirectInv'
  BY <1>1 DEF IndInv, StartByte, hist, DirectInv
<1>8. SuccessInv'
  BY <1>1 DEF StartByte, hist, SuccessInv
<1> QED BY <1>2, <1>3, <1>4, <1>5, <1>6, <1>7, <1>8 DEF IndInv

\* A byte is counted once it is sent.
LEMMA ByteDoneKeeps ==
  ASSUME IndInv, ByteDone
  PROVE  IndInv'
<1>1. op \in Call /\ ManualBytes(op) \in Nat /\ op.in \in Nat /\ op.in <= ManualBytes(op)
  BY CallNumbers DEF IndInv, TypeOK
<1>2. TypeOK'
  BY <1>1 DEF IndInv, ByteDone, Return, hw, hist, TypeOK, ManualInv
<1>3. SelectInv'
  BY <1>1 DEF IndInv, ByteDone, hw, hist, SelectInv, ManualInv, Between, Requested
<1>4. RequestInv'
  BY <1>1 DEF ByteDone, Return, RequestInv, Requested
<1>5. ModeInv'
  BY <1>1 DEF IndInv, ByteDone, hw, hist, ModeInv
<1>6. ManualInv'
  BY <1>1 DEF IndInv, ByteDone, Return, hw, hist, TypeOK, ManualInv
<1>7. DirectInv'
  BY <1>1 DEF IndInv, ByteDone, Return, hist, DirectInv
<1>8. SuccessInv'
  BY <1>1 DEF IndInv, ByteDone, hw, hist, ModeInv, ManualInv, SuccessInv
<1> QED BY <1>2, <1>3, <1>4, <1>5, <1>6, <1>7, <1>8 DEF IndInv

\* A timeout marks the frame broken.
LEMMA WaitTimesOutKeeps ==
  ASSUME IndInv, WaitTimesOut
  PROVE  IndInv'
<1>1. op \in Call /\ ManualBytes(op) \in Nat /\ op.in \in Nat /\ op.in <= ManualBytes(op)
  BY CallNumbers DEF IndInv, TypeOK
<1>2. TypeOK'
  BY <1>1 DEF IndInv, WaitTimesOut, Return, hw, call, TypeOK
<1>3. SelectInv'
  BY <1>1 DEF WaitTimesOut, Return, SelectInv
<1>4. RequestInv'
  BY <1>1 DEF WaitTimesOut, Return, RequestInv, Requested
<1>5. ModeInv'
  BY <1>1 DEF IndInv, WaitTimesOut, hw, ModeInv
<1>6. ManualInv'
  BY <1>1 DEF WaitTimesOut, Return, ManualInv
<1>7. DirectInv'
  BY <1>1 DEF IndInv, WaitTimesOut, Return, DirectInv
<1>8. SuccessInv'
  BY <1>1 DEF WaitTimesOut, Return, SuccessInv
<1> QED BY <1>2, <1>3, <1>4, <1>5, <1>6, <1>7, <1>8 DEF IndInv

\* A byte sent joins the frame, and ends it if it is the last.
LEMMA HwShiftKeeps ==
  ASSUME IndInv, HwShift
  PROVE  IndInv'
<1>1. op \in Call /\ ManualBytes(op) \in Nat /\ op.in \in Nat /\ op.in <= ManualBytes(op)
  BY CallNumbers DEF IndInv, TypeOK
<1>2. TypeOK'
  <2>1. selected' \in BOOLEAN
    BY DEF IndInv, HwShift, TypeOK
  <2>2. wire' \in Frame /\ last' \in Frame /\ closed' \in Nat
    <3>1. wire \in Frame /\ last \in Frame /\ closed \in Nat /\ wire.mine \in Nat
          /\ wire.other \in BOOLEAN /\ NoFrame \in Frame
      BY DEF IndInv, TypeOK, Frame, NoFrame
    <3> DEFINE m == wire.mine + (IF inflight = "mine" THEN 1 ELSE 0)
               o == wire.other \/ inflight = "old"
               got == [mine |-> m, other |-> o]
    <3>a. m \in Nat
      BY <3>1
    <3>b. o \in BOOLEAN
      OBVIOUS
    <3>c. got \in Frame
      <4> HIDE DEF m, o
      <4> QED BY <3>a, <3>b DEF Frame
    <3>d. /\ wire' = got \/ wire' = NoFrame
          /\ last' = got \/ last' = last
      BY DEF HwShift
    <3>2. wire' \in Frame
      <4> HIDE DEF got
      <4> QED BY <3>1, <3>c, <3>d
    <3>3. last' \in Frame
      <4> HIDE DEF got
      <4> QED BY <3>1, <3>c, <3>d
    <3>4. closed' \in Nat
      BY <3>1 DEF HwShift, Frame
    <3> QED BY <3>2, <3>3, <3>4
  <2> QED
    BY <1>1, <2>1, <2>2 DEF IndInv, HwShift, call, TypeOK, Owner
<1>3. SelectInv'
  BY <1>1 DEF IndInv, HwShift, TypeOK, SelectInv, NoFrame
<1>4. RequestInv'
  BY <1>1 DEF IndInv, HwShift, call, RequestInv, NoFrame
<1>5. ModeInv'
  BY <1>1 DEF IndInv, HwShift, ModeInv
<1>6. ManualInv'
  BY <1>1 DEF IndInv, HwShift, call, TypeOK, ManualInv, Owner, NoFrame
<1>7. DirectInv'
  BY <1>1 DEF IndInv, HwShift, call, DirectInv
<1>8. SuccessInv'
  BY <1>1 DEF IndInv, HwShift, call, SuccessInv
<1> QED BY <1>2, <1>3, <1>4, <1>5, <1>6, <1>7, <1>8 DEF IndInv

\* A refused read has touched nothing.
LEMMA RouteOutsideKeeps ==
  ASSUME IndInv, RouteOutside
  PROVE  IndInv'
<1>1. op \in Call /\ ManualBytes(op) \in Nat /\ op.in \in Nat /\ op.in <= ManualBytes(op)
  BY CallNumbers DEF IndInv, TypeOK
<1>2. TypeOK'
  BY <1>1 DEF IndInv, RouteOutside, Return, hw, call, hist, TypeOK
<1>3. SelectInv'
  BY <1>1 DEF IndInv, RouteOutside, hw, hist, SelectInv, Between, Requested
<1>4. RequestInv'
  BY <1>1 DEF RouteOutside, Return, RequestInv, Requested
<1>5. ModeInv'
  BY <1>1 DEF IndInv, RouteOutside, hw, hist, ModeInv
<1>6. ManualInv'
  BY <1>1 DEF RouteOutside, Return, ManualInv
<1>7. DirectInv'
  BY <1>1 DEF IndInv, RouteOutside, Return, hist, DirectInv
<1>8. SuccessInv'
  BY <1>1 DEF RouteOutside, Return, SuccessInv
<1> QED BY <1>2, <1>3, <1>4, <1>5, <1>6, <1>7, <1>8 DEF IndInv

\* A direct read empties the cache and sets up its command.
LEMMA RouteDirectKeeps ==
  ASSUME IndInv, RouteDirect
  PROVE  IndInv'
<1>1. /\ op \in Call /\ ManualBytes(op) \in Nat /\ op.in <= ManualBytes(op)
      /\ op.in \in 0 .. WordMod - 1 /\ WindowAddress(op) \in 0 .. WordMod - 1
  BY CallNumbers, SizesAssumption DEF IndInv, TypeOK, WindowAddress
<1>2. TypeOK'
  <2>1. md' \in BOOLEAN /\ burst' \in BOOLEAN
    BY DEF IndInv, RouteDirect
  <2>2. selected' \in BOOLEAN
    BY DEF IndInv, RouteDirect, NegateSelect, EndFrame, TypeOK
  <2>3. wire' \in Frame /\ last' \in Frame /\ closed' \in Nat
    <3>1. wire \in Frame /\ last \in Frame /\ closed \in Nat /\ wire.mine \in Nat
          /\ wire.other \in BOOLEAN /\ NoFrame \in Frame
      BY DEF IndInv, TypeOK, Frame, NoFrame
    <3>2. wire' \in Frame
      BY <3>1 DEF RouteDirect, NegateSelect, EndFrame
    <3>3. last' \in Frame
      BY <3>1 DEF RouteDirect, NegateSelect, EndFrame
    <3>4. closed' \in Nat
      BY <3>1 DEF RouteDirect, NegateSelect, EndFrame
    <3> QED BY <3>2, <3>3, <3>4
  <2> QED
    BY <1>1, <2>1, <2>2, <2>3 DEF IndInv, RouteDirect, call, TypeOK, Owner
<1>3. SelectInv'
  BY <1>1 DEF IndInv, RouteDirect, NegateSelect, SelectInv, Between, Requested
<1>4. RequestInv'
  BY <1>1 DEF RouteDirect, RequestInv, Requested
<1>5. ModeInv'
  BY <1>1 DEF RouteDirect, NegateSelect, ModeInv
<1>6. ManualInv'
  BY <1>1 DEF RouteDirect, NegateSelect, ManualInv
<1>7. DirectInv'
  <2>1. WindowAddress(op) + op.in <= FlashSize
    BY <1>1, WindowCheck DEF RouteDirect
  <2>2. inflight' = "none" \/ (inflight' = "old" /\ broken')
    BY DEF IndInv, RouteDirect, SelectInv, RequestInv, Requested, Between, TypeOK, Owner
  <2>3. ~stale'
    BY DEF IndInv, RouteDirect, DirectInv
  <2> QED
    BY <1>1, <2>1, <2>2, <2>3 DEF IndInv, RouteDirect, call, RequestInv, Requested, DirectInv
<1>8. SuccessInv'
  BY <1>1 DEF RouteDirect, NegateSelect, SuccessInv
<1> QED BY <1>2, <1>3, <1>4, <1>5, <1>6, <1>7, <1>8 DEF IndInv

\* Bytes of a direct read are its own.
LEMMA ReadByteKeeps ==
  ASSUME IndInv, ReadByte
  PROVE  IndInv'
<1>1. op \in Call /\ ManualBytes(op) \in Nat /\ op.in \in Nat /\ op.in <= ManualBytes(op)
  BY CallNumbers DEF IndInv, TypeOK
<1>2. TypeOK'
  <2>1. stale' \in BOOLEAN
    BY DEF IndInv, ReadByte
  <2>2. selected' \in BOOLEAN
    BY DEF IndInv, ReadByte, TypeOK
  <2>3. wire' \in Frame /\ last' \in Frame /\ closed' \in Nat
    <3>1. wire \in Frame /\ last \in Frame /\ closed \in Nat /\ wire.mine \in Nat
          /\ wire.other \in BOOLEAN /\ NoFrame \in Frame
      BY DEF IndInv, TypeOK, Frame, NoFrame
    <3>2. wire' \in Frame
      BY <3>1 DEF ReadByte, Frame
    <3>3. last' \in Frame
      BY <3>1 DEF ReadByte, Frame
    <3>4. closed' \in Nat
      BY <3>1 DEF ReadByte, Frame
    <3> QED BY <3>2, <3>3, <3>4
  <2> QED
    BY <1>1, <2>1, <2>2, <2>3 DEF IndInv, ReadByte, TypeOK, Owner
<1>3. SelectInv'
  BY <1>1 DEF IndInv, ReadByte, TypeOK, SelectInv, Frame, NoFrame, Between, Requested
<1>4. RequestInv'
  BY <1>1 DEF ReadByte, RequestInv, Requested
<1>5. ModeInv'
  BY <1>1 DEF ReadByte, ModeInv, NoFrame
<1>6. ManualInv'
  BY <1>1 DEF ReadByte, ManualInv, NoFrame
<1>7. DirectInv'
  BY <1>1 DEF IndInv, ReadByte, TypeOK, DirectInv
<1>8. SuccessInv'
  BY <1>1 DEF ReadByte, SuccessInv, NoFrame
<1> QED BY <1>2, <1>3, <1>4, <1>5, <1>6, <1>7, <1>8 DEF IndInv

\* A direct read ends its frame and restores the mode.
LEMMA LeaveDirectKeeps ==
  ASSUME IndInv, LeaveDirect
  PROVE  IndInv'
<1>1. op \in Call /\ ManualBytes(op) \in Nat /\ op.in \in Nat /\ op.in <= ManualBytes(op)
  BY CallNumbers DEF IndInv, TypeOK
<1>2. TypeOK'
  <2>1. md' \in BOOLEAN /\ burst' \in BOOLEAN
    BY DEF LeaveDirect, FlushCache
  <2>2. selected' \in BOOLEAN
    BY DEF IndInv, LeaveDirect, EndFrame, TypeOK
  <2>3. wire' \in Frame /\ last' \in Frame /\ closed' \in Nat
    <3>1. wire \in Frame /\ last \in Frame /\ closed \in Nat /\ wire.mine \in Nat
          /\ wire.other \in BOOLEAN /\ NoFrame \in Frame
      BY DEF IndInv, TypeOK, Frame, NoFrame
    <3>2. wire' \in Frame
      BY <3>1 DEF LeaveDirect, EndFrame
    <3>3. last' \in Frame
      BY <3>1 DEF LeaveDirect, EndFrame
    <3>4. closed' \in Nat
      BY <3>1 DEF LeaveDirect, EndFrame
    <3> QED BY <3>2, <3>3, <3>4
  <2> QED
    BY <1>1, <2>1, <2>2, <2>3 DEF IndInv, LeaveDirect, FlushCache, Return, call, TypeOK, Owner
<1>3. SelectInv'
  BY <1>1 DEF IndInv, LeaveDirect, EndFrame, SelectInv, DirectInv, NoFrame
<1>4. RequestInv'
  BY <1>1 DEF LeaveDirect, Return, RequestInv, Requested
<1>5. ModeInv'
  BY <1>1 DEF LeaveDirect, EndFrame, ModeInv
<1>6. ManualInv'
  BY <1>1 DEF LeaveDirect, Return, ManualInv
<1>7. DirectInv'
  BY <1>1 DEF IndInv, LeaveDirect, Return, DirectInv
<1>8. SuccessInv'
  BY <1>1 DEF IndInv, LeaveDirect, call, DirectInv, SuccessInv
<1> QED BY <1>2, <1>3, <1>4, <1>5, <1>6, <1>7, <1>8 DEF IndInv

\* Linux meddles with no frame.
LEMMA InterfereKeeps ==
  ASSUME IndInv, Interfere
  PROVE  IndInv'
<1>1. op \in Call /\ ManualBytes(op) \in Nat /\ op.in \in Nat /\ op.in <= ManualBytes(op)
  BY CallNumbers DEF IndInv, TypeOK
<1>2. TypeOK'
  BY <1>1 DEF IndInv, Interfere, call, TypeOK, Owner
<1>3. SelectInv'
  BY <1>1 DEF IndInv, Interfere, SelectInv
<1>4. RequestInv'
  BY <1>1 DEF Interfere, RequestInv, Requested
<1>5. ModeInv'
  BY <1>1 DEF Interfere, call, ModeInv
<1>6. ManualInv'
  BY <1>1 DEF Interfere, call, ManualInv
<1>7. DirectInv'
  BY <1>1 DEF IndInv, Interfere, DirectInv
<1>8. SuccessInv'
  BY <1>1 DEF IndInv, Interfere, call, SuccessInv
<1> QED BY <1>2, <1>3, <1>4, <1>5, <1>6, <1>7, <1>8 DEF IndInv

\* Power loss deselects the flash.
LEMMA PowerCycleKeeps ==
  ASSUME IndInv, PowerCycle
  PROVE  IndInv'
<1>1. op \in Call /\ ManualBytes(op) \in Nat /\ op.in \in Nat /\ op.in <= ManualBytes(op)
  BY CallNumbers DEF IndInv, TypeOK
<1>2. TypeOK'
  <2>1. /\ inited' \in BOOLEAN /\ claimed' \in BOOLEAN /\ md' \in BOOLEAN
       /\ keep' \in BOOLEAN /\ selected' \in BOOLEAN /\ broken' \in BOOLEAN
       /\ meddled' \in BOOLEAN /\ burst' \in BOOLEAN
    BY DEF IndInv, PowerCycle, TypeOK
  <2>2. wire' \in Frame /\ last' \in Frame /\ closed' \in Nat
    BY DEF PowerCycle, Frame, NoFrame
  <2> QED
    BY <1>1, <2>1, <2>2 DEF IndInv, PowerCycle, TypeOK, Owner
<1>3. SelectInv'
  BY <1>1 DEF PowerCycle, SelectInv, NoFrame
<1>4. RequestInv'
  BY <1>1 DEF PowerCycle, RequestInv, NoFrame
<1>5. ModeInv'
  BY <1>1 DEF PowerCycle, ModeInv, NoFrame
<1>6. ManualInv'
  BY <1>1 DEF PowerCycle, ManualInv, NoFrame
<1>7. DirectInv'
  BY <1>1 DEF IndInv, PowerCycle, DirectInv
<1>8. SuccessInv'
  BY <1>1 DEF PowerCycle, SuccessInv, NoFrame
<1> QED BY <1>2, <1>3, <1>4, <1>5, <1>6, <1>7, <1>8 DEF IndInv

-----------------------------------------------------------------------------
\* Every step keeps the invariant.
LEMMA Inductive == IndInv /\ [Next]_vars => IndInv'
<1> SUFFICES ASSUME IndInv, [Next]_vars PROVE IndInv'
  OBVIOUS
<1>1. ASSUME NEW c \in Call, Transaction(c) PROVE IndInv'
  <2>1. NewCall /\ op' \in Call /\ starting' \in BOOLEAN
    BY <1>1 DEF Transaction
  <2> QED BY <2>1, NewCallKeeps
<1>2. CASE MultiTransactionStart
  <2>1. NewCall /\ op' \in Call /\ starting' \in BOOLEAN
    BY <1>2 DEF MultiTransactionStart, IndInv, TypeOK
  <2> QED BY <2>1, NewCallKeeps
<1>3. CASE DriverStep
  BY <1>3, EnsureReadyKeeps, InitSpiKeeps, InitPanicsKeeps, ClaimKeeps, SkipClaimKeeps,
     RouteEmptyKeeps, RouteManualKeeps, StartByteKeeps, ByteDoneKeeps,
     WaitTimesOutKeeps, RouteOutsideKeeps, RouteDirectKeeps, ReadByteKeeps,
     LeaveDirectKeeps DEF DriverStep
<1>4. CASE UNCHANGED vars
  BY <1>4 DEF IndInv, TypeOK, SelectInv, RequestInv, ModeInv, ManualInv, DirectInv,
              SuccessInv, vars, hw, call, hist
<1> QED
  BY <1>1, <1>2, <1>3, <1>4, MultiTransactionStopKeeps, HwShiftKeeps, InterfereKeeps,
     PowerCycleKeeps DEF Next

\* The invariant holds throughout.
THEOREM Invariance == Spec => []IndInv
  BY Initially, Inductive, PTL DEF Spec

\* The variables keep their types; in particular no more bytes are counted than a
\* call has.
THEOREM TypeCorrect == Spec => []TypeOK
<1>1. IndInv => TypeOK
  BY DEF IndInv
<1> QED BY <1>1, Invariance, PTL

\* Only a timeout lets the bytes of two transactions meet in one frame.
THEOREM FramesSeparate == Spec => []FramesNotShared
<1>1. IndInv => FramesNotShared
  BY DEF IndInv, SelectInv, FramesNotShared
<1> QED BY <1>1, Invariance, PTL

\* A manual transaction that reports success was one whole frame.
THEOREM SuccessesAreFrames == Spec => []SuccessIsOneFrame
<1>1. IndInv => SuccessIsOneFrame
  BY DEF IndInv, SuccessInv, SuccessIsOneFrame
<1> QED BY <1>1, Invariance, PTL

\* Bytes are handed over in manual mode.
THEOREM TransfersAreManual == Spec => []ManualMode
<1>1. IndInv => ManualMode
  BY DEF IndInv, ModeInv, ManualMode
<1> QED BY <1>1, Invariance, PTL

\* Direct reads never return what the cache had from before.
THEOREM ReadsFresh == Spec => []ReadsAreFresh
<1>1. IndInv => ReadsAreFresh
  BY DEF IndInv, DirectInv, ReadsAreFresh
<1> QED BY <1>1, Invariance, PTL

\* Direct reads stay inside the window.
THEOREM ReadsInside == Spec => []ReadsInsideWindow
<1>1. IndInv => ReadsInsideWindow
  BY DEF IndInv, DirectInv, ReadsInsideWindow
<1> QED BY <1>1, Invariance, PTL

\* The mode never changes under a byte, but after a timeout.
THEOREM SwitchedIdle == Spec => ModeSwitchedIdle
<1>1. IndInv /\ [Next]_vars
        => [md' # md => inflight = "none" \/ broken \/ ~inited']_<<md, inflight, broken, inited>>
  <2> SUFFICES ASSUME IndInv, Next, md' # md, inflight # "none", ~broken
               PROVE  ~inited'
    BY DEF vars, hw, hist
  <2>1. pc \notin Between /\ pc # "read"
    BY DEF IndInv, SelectInv, DirectInv
  <2>2. pc # "idle" /\ pc # "ensure" /\ pc # "claim" /\ pc # "route" /\ pc # "read"
    BY <2>1 DEF Between, Requested
  <2>3. PowerCycle
    BY <2>2 DEF Next, DriverStep, Transaction, NewCall, MultiTransactionStart,
       MultiTransactionStop, EnsureReady, InitSpi, InitPanics, Claim, SkipClaim,
       RouteEmpty, RouteManual, StartByte, ByteDone, WaitTimesOut, HwShift,
       RouteOutside, RouteDirect, ReadByte, LeaveDirect, Interfere, hw
  <2> QED BY <2>3 DEF PowerCycle
<1> QED BY <1>1, Invariance, PTL DEF Spec, ModeSwitchedIdle

-----------------------------------------------------------------------------
\* Steps and bytes are numbers, and a transfer has a byte left.
LEMMA StepsCount ==
  ASSUME IndInv
  PROVE  /\ op \in Call /\ done \in Nat /\ ManualBytes(op) \in Nat /\ done <= ManualBytes(op)
         /\ pc \notin {"idle", "panic"} => StepsLeft > 0
         /\ pc \in {"start", "shift"} => done < ManualBytes(op)
         /\ pc = "read" => done <= op.in /\ op.in <= ManualBytes(op) /\ op.in \in Nat
<1>1. op \in Call /\ done \in 0 .. ManualBytes(op)
  BY DEF IndInv, TypeOK
<1>2. ManualBytes(op) \in Nat /\ op.in <= ManualBytes(op) /\ op.in \in Nat
  BY <1>1, CallNumbers
<1>3. pc \in {"start", "shift"} => done < ManualBytes(op)
  BY DEF IndInv, ManualInv
<1>4. pc = "read" => done <= op.in
  BY DEF IndInv, DirectInv
<1>5. pc \notin {"idle", "panic"} => StepsLeft > 0
  BY <1>1, <1>2, <1>3 DEF StepsLeft, IndInv, TypeOK
<1> QED BY <1>1, <1>2, <1>3, <1>4, <1>5

\* A return or a panic has no steps left.
LEMMA ReturnsAreLast ==
  ASSUME IndInv, pc \notin {"idle", "panic"}, pc' \in {"idle", "panic"}
  PROVE  StepsLeft' < StepsLeft
<1>1. StepsLeft' = 0
  BY DEF StepsLeft
<1> QED BY <1>1, StepsCount

\* Each step of the driver counts.
LEMMA DriverAdvances ==
  ASSUME IndInv, DriverStep
  PROVE  StepsLeft' < StepsLeft
<1>1. pc \notin {"idle", "panic"}
  BY DEF DriverStep, EnsureReady, InitSpi, InitPanics, Claim, SkipClaim, RouteEmpty, RouteManual,
     StartByte, ByteDone, WaitTimesOut, RouteOutside, RouteDirect, ReadByte, LeaveDirect
<1>2. CASE pc' \in {"idle", "panic"}
  BY <1>1, <1>2, ReturnsAreLast
<1>3. CASE pc' \notin {"idle", "panic"}
  <2>1. CASE EnsureReady \/ InitSpi \/ InitPanics \/ Claim \/ SkipClaim
             \/ RouteEmpty \/ RouteManual \/ StartByte \/ RouteOutside \/ RouteDirect
    <3>1. done' = done /\ op' = op
      BY <2>1 DEF EnsureReady, InitSpi, InitPanics, Claim, SkipClaim, RouteEmpty, RouteManual,
         StartByte, RouteOutside, RouteDirect, call
    <3>2. \/ pc = "ensure" /\ pc' = "claim"
          \/ pc = "claim" /\ pc' = "route"
          \/ pc = "route" /\ pc' \in {"start", "read"}
          \/ pc = "start" /\ pc' = "shift"
      BY <1>3, <2>1 DEF EnsureReady, InitSpi, InitPanics, Claim, SkipClaim, RouteEmpty,
         RouteManual, StartByte, RouteOutside, RouteDirect, Return
    <3> QED BY <3>1, <3>2, StepsCount DEF StepsLeft
  <2>2. CASE ByteDone \/ WaitTimesOut
    <3>1. pc = "shift" /\ pc' = "start" /\ done' = done + 1 /\ op' = op
      BY <1>3, <2>2 DEF ByteDone, WaitTimesOut, Return
    <3> QED BY <3>1, StepsCount DEF StepsLeft
  <2>3. CASE ReadByte \/ LeaveDirect
    <3>1. pc = "read" /\ pc' = "read" /\ done' = done + 1 /\ op' = op
      BY <1>3, <2>3 DEF ReadByte, LeaveDirect, Return
    <3> QED BY <3>1, StepsCount DEF StepsLeft
  <2> QED BY <2>1, <2>2, <2>3 DEF DriverStep
<1> QED BY <1>2, <1>3

\* Every transaction comes to its return in a bounded number of the driver's own
\* steps, for every number of header, dummy and data bytes and whatever the
\* controller does (rpcifWaitTend_L is bounded, every loop counts its bytes).
THEOREM TransactionsEnd == Spec => TransactionAdvances
<1>1. IndInv /\ [Next]_vars =>
        [pc \notin {"idle", "panic"} => StepsLeft' < StepsLeft \/ UNCHANGED <<pc, call>>]_vars
  <2> SUFFICES ASSUME IndInv, Next, pc \notin {"idle", "panic"}, ~UNCHANGED <<pc, call>>
               PROVE  StepsLeft' < StepsLeft
    OBVIOUS
  <2>1. CASE DriverStep
    BY <2>1, DriverAdvances
  <2>2. CASE HwShift
    BY <2>2 DEF HwShift
  <2>3. CASE PowerCycle
    BY <2>3, ReturnsAreLast DEF PowerCycle
  <2> QED
    BY <2>1, <2>2, <2>3 DEF Next, Transaction, NewCall, MultiTransactionStart,
       MultiTransactionStop, Interfere
<1> QED BY <1>1, Invariance, PTL DEF Spec, TransactionAdvances
=============================================================================
