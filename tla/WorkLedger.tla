----------------------------- MODULE WorkLedger -----------------------------
(***************************************************************************)
(* Run-wide accounting of work units and bytes: `WorkLedger` of            *)
(* crates/reprise-core/src/device_sync/ledger.rs.                          *)
(*                                                                         *)
(* The code saturates at u32::MAX and u64::MAX and then caps at the        *)
(* planned total; the totals are themselves u32 and u64 values, so capping *)
(* a sum of natural numbers gives the same result and no width is needed.  *)
(***************************************************************************)
EXTENDS Naturals

Ledger == [done : Nat, total : Nat,
           bytes : Nat, bytesTotal : Nat,
           unit : Nat, unitTotal : Nat]

AtMost(a, b) == IF a <= b THEN a ELSE b
AtLeast(a, b) == IF a >= b THEN a ELSE b

NewLedger(units, bytes) ==
  [done |-> 0, total |-> units,
   bytes |-> 0, bytesTotal |-> bytes,
   unit |-> 0, unitTotal |-> 0]

BeginUnit(ledger, bytes) == [ledger EXCEPT !.unit = 0, !.unitTotal = bytes]

ObserveUnitBytes(ledger, bytes) ==
  [ledger EXCEPT !.unit = AtLeast(@, AtMost(bytes, ledger.unitTotal))]

\* Mutant: bytes already shown for the unit are forgotten when it fails.
CompleteUnitWrittenOnly(ledger, written) ==
  [ledger EXCEPT
     !.bytes = AtMost(@ + written, ledger.bytesTotal),
     !.done = AtMost(@ + 1, ledger.total),
     !.unit = 0,
     !.unitTotal = 0]

CompleteUnit(ledger, written) ==
  [ledger EXCEPT
     !.bytes = AtMost(@ + AtLeast(written, ledger.unit), ledger.bytesTotal),
     !.done = AtMost(@ + 1, ledger.total),
     !.unit = 0,
     !.unitTotal = 0]

\* The byte count shown to the user: finished units and the one in flight.
BytesDone(ledger) == AtMost(ledger.bytes + ledger.unit, ledger.bytesTotal)
=============================================================================
