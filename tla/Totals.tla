------------------------------- MODULE Totals -------------------------------
(* What std::accumulate and loops like it add up.                          *)
EXTENDS Naturals, Sequences

Sum(numbers) ==
  LET sum[n \in 0 .. Len(numbers)] == IF n = 0 THEN 0 ELSE sum[n - 1] + numbers[n]
  IN  sum[Len(numbers)]
=============================================================================
