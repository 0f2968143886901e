------------------------------ MODULE PtpTime ------------------------------
(***************************************************************************)
(* satcat5::ptp::Time (satcat5/ptp_time.h): a signed count of seconds and  *)
(* a count of sub-nanoseconds in [0, SUBNS_PER_SEC).  The scaling factors  *)
(* are CONSTANTS so that TLC can cover whole seconds: the code has 65536   *)
(* subns per ns, 1000 ns per us and 10^6 us per s; a model uses a few of   *)
(* each.  A Time is the record [secs, subns] the class holds.              *)
(*                                                                         *)
(* The arithmetic operators and delta_*() are defined in ptp_time.cc,      *)
(* which this repository does not hold; they are written from spec 4.A     *)
(* (carry between the fields, then re-canonicalise).                       *)
(***************************************************************************)
EXTENDS Integers

CONSTANTS
  SUBNS_PER_NSEC,   \* 65536 in the code
  NSEC_PER_USEC,    \* 1000 in the code
  USEC_PER_SEC      \* 1000000 in the code

ASSUME /\ SUBNS_PER_NSEC \in Nat \ {0, 1} /\ SUBNS_PER_NSEC % 2 = 0
       /\ NSEC_PER_USEC \in Nat \ {0} /\ USEC_PER_SEC \in Nat \ {0}

NSEC_PER_SEC  == NSEC_PER_USEC * USEC_PER_SEC
SUBNS_PER_USEC == SUBNS_PER_NSEC * NSEC_PER_USEC
SUBNS_PER_SEC == SUBNS_PER_NSEC * NSEC_PER_SEC

\* The representation of class Time (m_secs, m_subns).
TimeRep(secsRange) == [secs : secsRange, subns : 0 .. SUBNS_PER_SEC - 1]

\* Time(s64 subnanoseconds): util::divide and util::modulo round towards
\* minus infinity, so m_subns stays in [0, SUBNS_PER_SEC) for negative
\* arguments too (TLA+ \div and % do the same for a positive divisor).
Time(subns) == [secs |-> subns \div SUBNS_PER_SEC, subns |-> subns % SUBNS_PER_SEC]

TIME_ZERO == Time(0)

\* delta_subns(): the whole value in subns (inside its safe range, which
\* is all a model reaches).
delta_subns(t) == t.secs * SUBNS_PER_SEC + t.subns

\* normalize(): carry whole seconds of subns into secs, so that subns ends
\* in [0, SUBNS_PER_SEC) whatever the sign and size of the raw pair.
normalize(secs, subns) ==
  [secs |-> secs + subns \div SUBNS_PER_SEC, subns |-> subns % SUBNS_PER_SEC]

\* operator+ : field by field, then normalize.
Plus(a, b) == normalize(a.secs + b.secs, a.subns + b.subns)

\* Time(u64 seconds, u32 nanoseconds, u16 subnanoseconds).
TimeFields(secs, nsec, subns) == normalize(secs, nsec * SUBNS_PER_NSEC + subns)

\* util::div_round for a positive divisor: nearest, halves rounded up.
DivRound(a, b) == (2 * a + b) \div (2 * b)

\* delta_usec(): the difference rounded to whole microseconds.
delta_usec(t) == DivRound(delta_subns(t), SUBNS_PER_USEC)

field_secs(t)  == t.secs

\* Mutant: field_nsec rounds to the nearest nanosecond instead of down.
FieldNsecRounded(t) == (t.subns + SUBNS_PER_NSEC \div 2) \div SUBNS_PER_NSEC

field_nsec(t)  == t.subns \div SUBNS_PER_NSEC
field_subns(t) == t.subns
correction(t)  == t.subns % SUBNS_PER_NSEC

\* Mutant: round_nsec rounds the subns field alone, without the carry.
RoundNsecNoCarry(t) == (t.subns + SUBNS_PER_NSEC \div 2) \div SUBNS_PER_NSEC

\* round_secs / round_nsec: add half a nanosecond, then read the fields.
round_secs(t) == field_secs(Plus(t, Time(SUBNS_PER_NSEC \div 2)))
round_nsec(t) == field_nsec(Plus(t, Time(SUBNS_PER_NSEC \div 2)))

(***************************************************************************)
(* The pair (round_secs, round_nsec), used together as ptp_time.h line 74  *)
(* asks, is a valid PTP timestamp (nanoseconds below one second) and names *)
(* the nanosecond nearest to t: at most half a nanosecond away, halves     *)
(* rounded up.  This is what needs the carry into the seconds field when t *)
(* is within half a nanosecond of the next second.                         *)
(***************************************************************************)
RoundsToNearest(t) ==
  LET err == delta_subns(t)
             - (round_secs(t) * SUBNS_PER_SEC + round_nsec(t) * SUBNS_PER_NSEC)
  IN  /\ round_nsec(t) \in 0 .. NSEC_PER_SEC - 1
      /\ -(SUBNS_PER_NSEC \div 2) <= err /\ err < SUBNS_PER_NSEC \div 2

=============================================================================
