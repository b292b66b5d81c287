--------------------------- MODULE MCCalendarWrite ---------------------------
(* Two requests and two workers on two events, which their owner may turn    *)
(* into series, cancel, leave without a tag, or show incompletely.         *)
EXTENDS CalendarWrite, TLC

Is(kind, linked, live, tagged) ==
  [kind |-> kind, linked |-> linked, live |-> live, tagged |-> tagged]

\* The exception comes without its series, one series is cancelled.
MCShapes ==
  {Is("single", FALSE, TRUE, TRUE), Is("series", FALSE, TRUE, TRUE),
   Is("occurrence", TRUE, TRUE, TRUE), Is("exception", FALSE, TRUE, TRUE),
   Is("series", FALSE, FALSE, TRUE), Is("single", FALSE, TRUE, FALSE)}
MCPatches == {{}, {"start"}, {"start", "end"}}
MCSymmetry == Permutations(Worker) \cup Permutations(Ref) \cup Permutations(Event)
===============================================================================
