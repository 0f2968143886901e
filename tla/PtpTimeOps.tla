----------------------------- MODULE PtpTimeOps -----------------------------
(***************************************************************************)
(* The PTP timestamp fields of ptp::Time, checked on every Time whose      *)
(* seconds lie in Secs.  A state is one Time a; the property takes it      *)
(* apart with the inline accessors of ptp_time.h (field_secs, field_nsec,  *)
(* correction) and rebuilds it with the Time(seconds, ns, subns)           *)
(* constructor.                                                            *)
(***************************************************************************)
EXTENDS PtpTime

CONSTANT Secs   \* the m_secs values tried, negative ones included

ASSUME Secs \subseteq Int /\ 0 \in Secs

VARIABLE a

Times == TimeRep(Secs)

\* Start from TIME_ZERO; any Time may follow, as the accessors keep no state.
Init == a = TIME_ZERO

Operand == \E x \in Times : a' = x

Next == Operand

Spec == Init /\ [][Next]_a

TypeOK == a \in Times

(***************************************************************************)
(* The PTP fields round-trip (spec section 8, scenario 1, without the wire *)
(* bytes): field_secs, field_nsec and correction are a valid timestamp and *)
(* the Time(seconds, nanoseconds, subnanoseconds) constructor rebuilds the *)
(* value from them, as the comment of ptp_time.h line 69 states.           *)
(* field_nsec must round down for the correction to be the non-negative    *)
(* residual.                                                               *)
(***************************************************************************)
FieldsRoundTrip ==
  /\ field_nsec(a) \in 0 .. NSEC_PER_SEC - 1
  /\ correction(a) \in 0 .. SUBNS_PER_NSEC - 1
  /\ TimeFields(field_secs(a), field_nsec(a), correction(a)) = a

=============================================================================
