------------------------------- MODULE LocalTime -------------------------------
(***************************************************************************)
(* Wall-clock times of a calendar (src/calendar/local_time.go): the        *)
(* instant a local date and time stands for, or nothing when daylight      *)
(* saving skips it or has it twice.  A zone maps every instant, in         *)
(* seconds, to the period it lies in: the offset from UTC and the bounds   *)
(* of the period, where it has any.                                        *)
(***************************************************************************)
EXTENDS Integers

Period == [offset : Int, begin : SUBSET Int, end : SUBSET Int]
Zone   == [Int -> Period]

TwoDays == 48 * 3600

\* time.Date: the offset in force at the wall-clock value read as UTC, then
\* the one in force at the instant that gives.
Date(zone, wall) == wall - zone[wall - zone[wall].offset].offset

\* The offsets tried: in force there, two days around, in the neighbour periods.
Offsets(zone, wall) ==
  LET approx == Date(zone, wall) IN
  {zone[t].offset : t \in {approx, approx - TwoDays, approx + TwoDays}
                            \cup {b - 1 : b \in zone[approx].begin}
                            \cup zone[approx].end}

\* The candidates that show the wall-clock value in the zone.
Matches(zone, wall) ==
  {u \in {wall - o : o \in Offsets(zone, wall)} : u + zone[u].offset = wall}

\* The instant, as a set: empty when the call is refused.
LocalDateTime(zone, wall) ==
  IF \E u \in Matches(zone, wall) : Matches(zone, wall) = {u}
    THEN Matches(zone, wall) ELSE {}

-----------------------------------------------------------------------------
\* Periods follow each other, offsets differ by at most spread, and no period
\* that begins and ends is shorter than that.
ZoneValid(zone, spread) ==
  /\ zone \in Zone
  /\ \A u \in Int :
       /\ \A b \in zone[u].begin : b <= u /\ zone[b - 1].end = {b}
       /\ \A e \in zone[u].end : u < e /\ zone[e].begin = {e}
       /\ \A b \in zone[u].begin, e \in zone[u].end : spread <= e - b
  /\ \A u, v \in Int :
       /\ zone[u].offset - zone[v].offset <= spread
       /\ (\A b \in zone[u].begin : b <= v) /\ (\A e \in zone[u].end : v < e) =>
            zone[v] = zone[u]

\* Every instant that shows the wall-clock value in the zone.
Instants(zone, wall) == {u \in Int : u + zone[u].offset = wall}
===============================================================================
