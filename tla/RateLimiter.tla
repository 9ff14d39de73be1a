----------------------------- MODULE RateLimiter -----------------------------
(***************************************************************************)
(* The token bucket of core/field/ratelimit.ts, as written there           *)
(* (Consume), and as one number, its credit, which is what the passing of  *)
(* time and the transfers need to know of it (Spend).  One unit of data is *)
(* what the cap lets through in one unit of time.                          *)
(***************************************************************************)
EXTENDS Integers

CONSTANT Burst  \* what one second lets through

ASSUME BurstAssumption == Burst \in Nat

Capped(x) == IF x > Burst THEN Burst ELSE x

\* consume(n): the bucket afterwards and how long the caller must sleep.  A debt
\* is paid by setting `last` to the end of that sleep.
Consume(bucket, n, now) ==
    LET allowance == Capped(bucket.allowance + (now - bucket.last)) - n
    IN  IF allowance < 0
        THEN [bucket |-> [allowance |-> 0, last |-> now - allowance],
              sleep  |-> -allowance]
        ELSE [bucket |-> [allowance |-> allowance, last |-> now],
              sleep  |-> 0]

\* What the bucket holds at `now`; a debt still to be slept off is negative.
Credit(bucket, now) == Capped(bucket.allowance + (now - bucket.last))

Spend(credit, n) == credit - n

\* Mutant: the sleep lasts until the bucket is full again.
DebtToFull(credit) == IF credit < 0 THEN Burst - credit ELSE 0

Debt(credit) == IF credit < 0 THEN -credit ELSE 0
=============================================================================
