----------------------------- MODULE Availability -----------------------------
(***************************************************************************)
(* ResolveAvailability (src/calendar/availability.go): the free time that  *)
(* several calendars have in common, from what each answered about its own *)
(* busy time.  The function checks the request and the answers, clips the  *)
(* busy windows to the requested one, then sweeps them by their start with *)
(* a cursor at the end of the busy time seen so far.  sort.Slice is not    *)
(* stable: windows that start together are swept in either order.          *)
(*                                                                         *)
(* Instants are integers: parsing and formatting RFC 3339 text is left     *)
(* out, and so are the calendars the result repeats from the answers.      *)
(***************************************************************************)
EXTENDS Integers, Sequences

CONSTANTS
  Calendar,          \* calendar identifiers
  Time,              \* instants
  Requests,          \* the requests made: [ids, window]
  Answers,           \* the calendars' answers: sequences of Reply
  MaximumCalendars,  \* calendars of a request
  MaximumWindow      \* length of a requested window

Window  == [start : Time, end : Time]
Request == [ids : Seq(Calendar), window : Window]

\* What one calendar answered; failed: it has error codes.
Reply == [id : Calendar, busy : SUBSET Window, complete : BOOLEAN, failed : BOOLEAN]

ASSUME Shape ==
  /\ Time \subseteq Int
  /\ Requests \subseteq Request
  /\ Answers \subseteq Seq(Reply)
  /\ MaximumCalendars \in Nat
  /\ MaximumWindow \in Nat

VARIABLES
  request, \* the AvailabilityRequest
  given,   \* the calendars it is answered with
  phase,   \* collect, sweep, done or failed
  busy,    \* the clipped busy windows
  pending, \* those the sweep has not reached
  cursor,  \* the end of the busy time swept
  free     \* the free windows found

vars == <<request, given, phase, busy, pending, cursor, free>>

Init ==
  /\ request \in Requests
  /\ given \in Answers
  /\ phase = "collect"
  /\ busy = {}
  /\ pending = {}
  /\ cursor = request.window.start
  /\ free = <<>>

-----------------------------------------------------------------------------
Distinct(s) == \A i, j \in DOMAIN s : s[i] = s[j] => i = j

RequestValid ==
  /\ Len(request.ids) \in 1 .. MaximumCalendars
  /\ Distinct(request.ids)
  /\ request.window.start < request.window.end
  /\ request.window.end - request.window.start <= MaximumWindow

Asked(id) == \E i \in DOMAIN request.ids : request.ids[i] = id

\* The answers that are looked at: one per calendar, and of asked ones.
Heard == {given[i] : i \in {j \in DOMAIN given : Asked(given[j].id)}}

AnswersValid ==
  /\ \A i, j \in DOMAIN given : given[i].id = given[j].id => i = j
  /\ \A i \in DOMAIN given : Asked(given[i].id)
  /\ \A r \in Heard : \A w \in r.busy : w.start < w.end

\* Mutant: a calendar that did not answer is left out.
CompleteHeard == \A r \in Heard : r.complete /\ ~r.failed

\* Every calendar asked answered in full and without an error.
Complete ==
  \A i \in DOMAIN request.ids :
    \E r \in Heard : r.id = request.ids[i] /\ r.complete /\ ~r.failed

Later(a, b)   == IF a < b THEN b ELSE a
Earlier(a, b) == IF b < a THEN b ELSE a

\* Mutant: a busy window that runs past the request is not cut.
ClipStart(w) ==
  [start |-> Later(w.start, request.window.start), end |-> w.end]

Clip(w) ==
  [start |-> Later(w.start, request.window.start),
   end   |-> Earlier(w.end, request.window.end)]

Clipped == UNION {{Clip(w) : w \in r.busy} : r \in Heard}

Reject ==
  /\ phase = "collect"
  /\ ~RequestValid \/ ~AnswersValid
  /\ phase' = "failed"
  /\ UNCHANGED <<request, given, busy, pending, cursor, free>>

Collect ==
  /\ phase = "collect"
  /\ RequestValid
  /\ AnswersValid
  /\ busy' = {w \in Clipped : w.start < w.end}
  /\ pending' = busy'
  /\ phase' = IF Complete THEN "sweep" ELSE "done"
  /\ UNCHANGED <<request, given, cursor, free>>

NextBusy(b) ==
  /\ b \in pending
  /\ \A other \in pending : b.start <= other.start

\* Mutant: a window of no length before a busy one that starts at the cursor.
AddEmpty(a, b) ==
  IF a <= b THEN Append(free, [start |-> a, end |-> b]) ELSE free

Add(a, b) == IF a < b THEN Append(free, [start |-> a, end |-> b]) ELSE free

Sweep ==
  /\ phase = "sweep"
  /\ \E b \in pending :
       /\ NextBusy(b)
       /\ free' = Add(cursor, b.start)
       /\ cursor' = Later(cursor, b.end)
       /\ pending' = pending \ {b}
  /\ UNCHANGED <<request, given, phase, busy>>

\* Mutant: what is free after the last busy window is left out.
FinishEarly ==
  /\ phase = "sweep"
  /\ pending = {}
  /\ phase' = "done"
  /\ UNCHANGED <<request, given, busy, pending, cursor, free>>

Finish ==
  /\ phase = "sweep"
  /\ pending = {}
  /\ free' = Add(cursor, request.window.end)
  /\ phase' = "done"
  /\ UNCHANGED <<request, given, busy, pending, cursor>>

Next == Reject \/ Collect \/ Sweep \/ Finish

Spec == Init /\ [][Next]_vars

-----------------------------------------------------------------------------
TypeOK ==
  /\ request \in Request
  /\ given \in Seq(Reply)
  /\ phase \in {"collect", "sweep", "done", "failed"}
  /\ busy \subseteq Window
  /\ \A b \in busy : /\ request.window.start <= b.start
                     /\ b.end <= request.window.end
  /\ pending \subseteq busy
  /\ cursor \in Time
  /\ free \in Seq(Window)

Apart(v, w) == v.end <= w.start \/ w.end <= v.start

(* No invented free time: a free window lies in the requested one, and      *)
(* every calendar asked answered, in full and without an error, and is not  *)
(* busy in any of it.                                                       *)
FreeIsFree ==
  \A f \in {free[i] : i \in DOMAIN free} :
    /\ request.window.start <= f.start
    /\ f.end <= request.window.end
    /\ \A k \in DOMAIN request.ids :
         \E i \in DOMAIN given :
           /\ given[i].id = request.ids[k]
           /\ given[i].complete /\ ~given[i].failed
           /\ \A w \in given[i].busy : Apart(f, w)

\* t is the start of a stretch of time in window w.
In(t, w) == w.start <= t /\ t < w.end

(* Nothing is missed: where the answers are complete, every instant of the  *)
(* request in no calendar's busy time is in a free window of the result.    *)
AllFreeFound ==
  (phase = "done" /\ Complete) =>
    \A t \in Time :
      (/\ In(t, request.window)
       /\ \A r \in Heard : \A w \in r.busy : ~In(t, w)) =>
        \E i \in DOMAIN free : In(t, free[i])

(* Overlaps are merged: free windows are not empty, come in order and have  *)
(* busy time between them.                                                  *)
FreeInOrder ==
  \A i \in DOMAIN free :
    /\ free[i].start < free[i].end
    /\ i + 1 \in DOMAIN free => free[i].end < free[i + 1].start
===============================================================================
