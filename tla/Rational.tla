------------------------------ MODULE Rational ------------------------------
(* The exact arithmetic of decimal.Decimal that the HRS core relies on: a   *)
(* number is <<n, d>> with d > 0, and n / d is its value.                   *)
EXTENDS Integers

Q(n, d)  == <<n, d>>
Zero     == Q(0, 1)
p ++ q   == Q(p[1] * q[2] + q[1] * p[2], p[2] * q[2])
p -- q   == Q(p[1] * q[2] - q[1] * p[2], p[2] * q[2])
p ** q   == Q(p[1] * q[1], p[2] * q[2])
p \prec q   == p[1] * q[2] < q[1] * p[2]
p \preceq q == ~(q \prec p)
p \approx q == p[1] * q[2] = q[1] * p[2]

\* p divided by a positive q.
Over(p, q) == Q(p[1] * q[2], p[2] * q[1])
=============================================================================
