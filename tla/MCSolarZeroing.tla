--------------------------- MODULE MCSolarZeroing ---------------------------
(***************************************************************************)
(* Small instances of SolarZeroing.                                        *)
(***************************************************************************)
EXTENDS SolarZeroing

AnyTime == 0 .. (Day - 1)

\* A start so late in the UTC day that the two enable events are answered on
\* the next one makes the task miss a transit: SolarMidnight shows it, and the
\* other properties are asked of starts before that.
DailyStarts == 0 .. (Day - 1 - 2 * MaxPost)

=============================================================================
