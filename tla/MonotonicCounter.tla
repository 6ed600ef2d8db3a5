--------------------------- MODULE MonotonicCounter ---------------------------
(***************************************************************************)
(* What the demo TA promises of COUNTER_READ and COUNTER_INC: successive   *)
(* increments report ever larger values, and a read reports at least the   *)
(* value reported last ("TEE-only 64-bit monotonic counter").  The promise *)
(* holds while the flash is intact.                                        *)
(***************************************************************************)
EXTENDS Naturals

VARIABLES
  seen,     \* the value reported last
  odd,      \* parity of the number of increments reported
  intact    \* no flash failure has broken the promise yet

state == <<seen, odd, intact>>

Init == seen = 0 /\ odd = FALSE /\ intact = TRUE

Increment == intact' /\ seen' > seen /\ odd' = ~odd
Read      == intact' /\ seen' >= seen /\ UNCHANGED odd
Break     == ~intact'

Next ==
  \/ intact /\ (Increment \/ Read \/ Break)
  \/ ~intact /\ ~intact'

Spec == Init /\ [][Next]_state
=============================================================================
