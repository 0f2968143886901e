----------------------------- MODULE MCSimClock -----------------------------
(* SimClock with 2 subns per ns, 2 ns per us and 3 us per s (12 subns per  *)
(* second), 4 NCO ticks per subns, a nominal 8 Hz and actual 9 Hz clock:   *)
(* the NCO increment is 6 ticks, trimmed to 4, 6 or 8 by clock_rate.       *)
EXTENDS SimClock

\* run(dt) by 1 subns (under one cycle), 5 subns and one whole second.
MCDts == {Time(1), Time(5), Time(12)}

\* A step back across a second boundary, and the smallest step forward.
MCAmounts == {Time(-3), Time(1)}

\* Set just before a second boundary, and to a negative time.
MCSetTimes == {Time(11), Time(-1)}

\* clock_rate trims of one unit down, none and one unit up.
MCOffsets == {-1, 0, 1}
=============================================================================
