------------------------------ MODULE MCPtpTime -----------------------------
(* Time scaled to 4 subns per ns, 1 ns per us and 3 us per s: 12 subns per *)
(* second, so that correction takes every residual 0..3 and field_nsec    *)
(* every value 0..2.                                                       *)
EXTENDS PtpTimeOps

\* Five seconds either side of zero: negative Times keep subns >= 0.
MCSecs == -5 .. 5
=============================================================================
