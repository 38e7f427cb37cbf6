------------------------------ MODULE Schedule ------------------------------
(***************************************************************************)
(* The arithmetic of internal/run/schedule.go and the lease arithmetic of  *)
(* internal/run/run.go.  One unit of time is one second; every instant is  *)
(* a count of units from the Unix epoch.                                   *)
(***************************************************************************)
EXTENDS Integers

\* The zero time.Time, which is no instant of any series.
NoInstant == -1

Later(a, b) == IF a > b THEN a ELSE b

Earlier(a, b) == IF a < b THEN a ELSE b

\* Go's integer division truncates towards zero; the divisor is positive.
Truncated(a, b) == IF a >= 0 THEN a \div b ELSE -((-a) \div b)

\* floorDiv corrects the truncated quotient when a remainder crossed zero.
FloorDiv(a, b) ==
    LET quotient == Truncated(a, b)
    IN  IF quotient * b # a /\ a < 0 THEN quotient - 1 ELSE quotient

\* The instant of the series offset + k * interval that is current at now.
SlotFor(offset, interval, now) ==
    FloorDiv(now - offset, interval) * interval + offset

\* MissedSlots' loop condition: another candidate fits under the limit and is
\* strictly after the instant the caller remembers (no memory: no bound).
WalkContinues(candidate, after, left) ==
    left > 0 /\ (after = NoInstant \/ candidate > after)

\* The lease on a claim: the execution ceiling plus a margin, capped.
\* (LeaseIsMargin forgets the ceiling.)
LeaseIsMargin(ceiling, margin, maxLease) == Earlier(margin, maxLease)
LeaseDuration(ceiling, margin, maxLease) ==
    Earlier(Later(ceiling, 0) + margin, maxLease)
=============================================================================
