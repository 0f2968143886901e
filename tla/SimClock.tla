------------------------------ MODULE SimClock ------------------------------
(***************************************************************************)
(* satcat5::ptp::SimulatedClock and SimulatedTimer (hal_test/             *)
(* ptp_simclock.cc): the simulated oscillator used by the PTP tests.  The  *)
(* clock is a numerically controlled oscillator: run(dt) counts the cycles *)
(* of the actual oscillator in dt, adds cycles * (nominal increment + rate *)
(* trim) to a high-resolution accumulator, and moves the whole sub-ns part *)
(* of it into the real-time clock m_rtc, keeping the remainder.  The timer *)
(* is the poll timekeeper's microsecond counter, advanced by run(dt).      *)
(*                                                                         *)
(* Each action is one method call; the test driving the clock may call     *)
(* them in any order, with inputs from the small sets below.               *)
(***************************************************************************)
EXTENDS PtpTime

CONSTANTS
  TICKS_PER_SUBNS,  \* NCO resolution (ptp_simclock.h)
  NominalHz,        \* constructor argument nominal_hz
  ActualHz,         \* constructor argument actual_hz
  RATE_ONE,         \* clock_rate units per unit of fractional frequency
  RATE_BITS,        \* width of the u64 the NCO increment is cast to
  Dts,              \* arguments of run(dt), as Times
  Amounts,          \* arguments of clock_adjust
  SetTimes,         \* arguments of clock_set
  Offsets,          \* arguments of clock_rate
  MaxSteps          \* method calls per behaviour (bounds the model)

TICKS_PER_SEC == TICKS_PER_SUBNS * SUBNS_PER_SEC

\* m_nco_rate = round_s64(TICKS_PER_SEC / nominal_hz): ticks per cycle.
NcoRate == DivRound(TICKS_PER_SEC, NominalHz)

ASSUME /\ \A o \in Offsets : NcoRate + (o * NcoRate) \div RATE_ONE \in 0 .. 2^RATE_BITS - 1
       /\ \A dt \in Dts : delta_subns(dt) >= 0

VARIABLES
  rtc,          \* m_rtc
  accum,        \* m_nco_accum (uint128_t)
  offset,       \* m_offset, the last clock_rate argument
  countCoarse,  \* m_count_coarse
  countFine,    \* m_count_fine
  treg,         \* SimulatedTimer::m_treg, in microseconds
  tkRequest,    \* timekeeper.request_poll() raised and not yet serviced
  ticks,        \* history: NCO ticks the clock has been given in all
  elapsed,      \* history: sum of the dt given to SimulatedTimer::run
  steps         \* method calls so far

vars == <<rtc, accum, offset, countCoarse, countFine, treg, tkRequest,
          ticks, elapsed, steps>>

\* m_scale_nominal.convert(offset): a rate trim in NCO ticks per cycle.
ScaleConvert(o) == (o * NcoRate) \div RATE_ONE

\* u64(...): the increment is cast to 64 bits before the multiply.
U64(x) == x % 2^RATE_BITS

\* round_u64(dt_secs * m_rate_actual): cycles of the actual oscillator in dt.
NumClocks(dt) == DivRound(delta_subns(dt) * ActualHz, SUBNS_PER_SEC)

Call == steps < MaxSteps /\ steps' = steps + 1

(***************************************************************************)
(* The constructors.  The initialiser list of SimulatedClock does not set  *)
(* m_offset; until the first clock_rate it holds any value, here any of    *)
(* the inputs (0 among them, if ptp_simclock.h initialises it).            *)
(***************************************************************************)
Init ==
  /\ rtc = TIME_ZERO /\ accum = 0
  /\ offset \in Offsets
  /\ countCoarse = 0 /\ countFine = 0
  /\ treg = 0 /\ tkRequest = FALSE
  /\ ticks = 0 /\ elapsed = 0 /\ steps = 0

\* clock_adjust(amount): ++m_count_coarse; m_rtc += amount.
ClockAdjust(amount) ==
  /\ Call
  /\ countCoarse' = countCoarse + 1
  /\ rtc' = Plus(rtc, amount)
  /\ ticks' = ticks + delta_subns(amount) * TICKS_PER_SUBNS
  /\ UNCHANGED <<accum, offset, countFine, treg, tkRequest, elapsed>>

\* clock_set(t): ++m_count_coarse; m_rtc = t.  The accumulator keeps its
\* leftover ticks.
ClockSet(t) ==
  /\ Call
  /\ countCoarse' = countCoarse + 1
  /\ rtc' = t
  /\ ticks' = delta_subns(t) * TICKS_PER_SUBNS + accum
  /\ UNCHANGED <<accum, offset, countFine, treg, tkRequest, elapsed>>

\* clock_rate(offset): ++m_count_fine; m_offset = offset (m_stats is a
\* statistics accumulator that nothing here reads).
ClockRate(o) ==
  /\ Call
  /\ countFine' = countFine + 1
  /\ offset' = o
  /\ UNCHANGED <<rtc, accum, countCoarse, treg, tkRequest, ticks, elapsed>>

\* Mutant: run(dt) moves the whole sub-ns part to m_rtc and drops the
\* leftover ticks instead of retaining them.
ClockRunDropLeftover(dt) ==
  LET incr == NumClocks(dt) * U64(NcoRate + ScaleConvert(offset))
      acc  == accum + incr
  IN  /\ Call
      /\ rtc' = Plus(rtc, Time(acc \div TICKS_PER_SUBNS))
      /\ accum' = 0
      /\ ticks' = ticks + incr
      /\ UNCHANGED <<offset, countCoarse, countFine, treg, tkRequest, elapsed>>

\* run(dt): m_nco_accum += incr * rate; m_rtc += Time(m_nco_accum / scale);
\* m_nco_accum = m_nco_accum % scale.
ClockRun(dt) ==
  LET incr == NumClocks(dt) * U64(NcoRate + ScaleConvert(offset))
      acc  == accum + incr
  IN  /\ Call
      /\ rtc' = Plus(rtc, Time(acc \div TICKS_PER_SUBNS))
      /\ accum' = acc % TICKS_PER_SUBNS
      /\ ticks' = ticks + incr
      /\ UNCHANGED <<offset, countCoarse, countFine, treg, tkRequest, elapsed>>

\* SimulatedTimer::run(dt): m_treg += dt.delta_usec();
\* timekeeper.request_poll().
TimerRun(dt) ==
  /\ Call
  /\ treg' = treg + delta_usec(dt)
  /\ tkRequest' = TRUE
  /\ elapsed' = elapsed + delta_subns(dt)
  /\ UNCHANGED <<rtc, accum, offset, countCoarse, countFine, ticks>>

\* The poll loop services the timekeeper's request (polling.cc).
TimekeeperPoll ==
  /\ tkRequest
  /\ tkRequest' = FALSE
  /\ UNCHANGED <<rtc, accum, offset, countCoarse, countFine, treg, ticks,
                 elapsed, steps>>

Next ==
  \/ \E a \in Amounts : ClockAdjust(a)
  \/ \E t \in SetTimes : ClockSet(t)
  \/ \E o \in Offsets : ClockRate(o)
  \/ \E dt \in Dts : ClockRun(dt) \/ TimerRun(dt)
  \/ TimekeeperPoll

Spec == Init /\ [][Next]_vars

-----------------------------------------------------------------------------
TypeOK ==
  /\ rtc.subns \in 0 .. SUBNS_PER_SEC - 1 /\ accum \in Nat
  /\ offset \in Offsets /\ countCoarse \in Nat /\ countFine \in Nat
  /\ treg \in Int /\ tkRequest \in BOOLEAN /\ steps \in 0 .. MaxSteps

(***************************************************************************)
(* The NCO loses and invents no tick: at every point the clock reading, in *)
(* NCO ticks, plus the accumulator's leftover, is exactly what the clock   *)
(* was given (cycles times increment over every run, plus every step and   *)
(* set), and the leftover is below one sub-ns.  A run that drops or        *)
(* double-counts its remainder makes the simulated clock drift, which      *)
(* would show up as a servo error in the PTP tests.                        *)
(***************************************************************************)
NcoConservesTicks ==
  /\ delta_subns(rtc) * TICKS_PER_SUBNS + accum = ticks
  /\ accum \in 0 .. TICKS_PER_SUBNS - 1

(* Every reading of the clock rounds correctly to the nanosecond (see      *)
(* PtpTime!RoundsToNearest), including readings a step or set put within   *)
(* half a nanosecond of a second boundary.                                 *)
RtcRoundsToNearest == RoundsToNearest(rtc)

(***************************************************************************)
(* The timekeeper's microsecond counter stays within half a microsecond of *)
(* the time the test has advanced it by: spec 4.D says drift between the   *)
(* wall clock and the poll tick is not accumulated.                        *)
(***************************************************************************)
TimerTracksElapsed ==
  LET err == treg * SUBNS_PER_USEC - elapsed
  IN  2 * err <= SUBNS_PER_USEC /\ -SUBNS_PER_USEC <= 2 * err

=============================================================================
