---------------------------- MODULE MCAvailability ----------------------------
(* A request of four units for two calendars; three units of busy time on   *)
(* either side of it.  One calendar is busy twice at most, the other once.  *)
EXTENDS Availability, LocalTime

W(a, b) == [start |-> a, end |-> b]
R(id, windows, complete, failed) ==
  [id |-> id, busy |-> windows, complete |-> complete, failed |-> failed]

MCTime == 0 .. 6
Ordered == {w \in Window : w.start < w.end}

MCRequests ==
  {[ids |-> s, window |-> W(1, 5)] : s \in {<<"a", "b">>, <<"a">>, <<"a", "a">>, <<>>}}
    \cup {[ids |-> <<"a">>, window |-> w] : w \in {W(3, 3), W(0, 6)}}

Twice == {{v, w} : v, w \in Ordered} \cup {{}}
Once  == {{w} : w \in Ordered} \cup {{}}

\* Complete answers of both calendars, and the answers that fall short:
\* partial, failed, malformed, missing, repeated or not asked for.
MCAnswers ==
  {<<R("a", s, TRUE, FALSE), R("b", t, TRUE, FALSE)>> : s \in Twice, t \in Once}
    \cup {<<R("a", s, c, e)>> : s \in Once, c, e \in BOOLEAN}
    \cup {<<R("b", s, c, e), R("a", s, TRUE, FALSE)>> : s \in Once, c, e \in BOOLEAN}
    \cup {<<R("a", {W(2, 2)}, TRUE, FALSE), R("b", {}, TRUE, FALSE)>>,
          <<R("a", {}, TRUE, FALSE), R("a", {}, TRUE, FALSE)>>,
          <<R("a", {}, TRUE, FALSE), R("c", {W(2, 3)}, TRUE, FALSE)>>, <<>>}

\* A zone that changes its offset at 10 and at 14.
MCZone(o) ==
  [t \in Int |->
     IF t < 10 THEN [offset |-> o[1], begin |-> {}, end |-> {10}]
     ELSE IF t < 14 THEN [offset |-> o[2], begin |-> {10}, end |-> {14}]
     ELSE [offset |-> o[3], begin |-> {14}, end |-> {}]]

(* Offsets up to four apart, each wall-clock value around the two changes:  *)
(* the instant is found when there is exactly one.                          *)
ASSUME LocalTimes ==
  \A o \in [1 .. 3 -> -2 .. 2], wall \in 0 .. 24 :
    LET exact == {u \in -10 .. 40 : u + MCZone(o)[u].offset = wall} IN
    LocalDateTime(MCZone(o), wall) =
      IF \E u \in exact : exact = {u} THEN exact ELSE {}
===============================================================================
