-------------------------- MODULE AvailabilityProofs --------------------------
(***************************************************************************)
(* ResolveAvailability invents no free time and misses none, whatever the  *)
(* calendars, their windows and the order of windows that start together.  *)
(* The loop invariant says what the cursor separates: behind it, free and  *)
(* busy windows that cover the request; ahead, the windows still pending.  *)
(***************************************************************************)
EXTENDS Availability, LocalTime, FiniteSetTheorems, WellFoundedInduction, TLAPS

\* The answers are complete and the sweep has begun.
Resolving == phase = "sweep" \/ (phase = "done" /\ Complete)

Sourced ==
  IF Resolving
    THEN /\ RequestValid
         /\ AnswersValid
         /\ Complete
         /\ busy = {w \in Clipped : w.start < w.end}
    ELSE free = <<>>

\* How far the request is resolved.
Limit == IF phase = "done" THEN request.window.end ELSE cursor

Behind ==
  /\ request.window.start <= cursor
  /\ phase = "sweep" => cursor <= request.window.end
  /\ \A b \in busy \ pending : b.end <= cursor

Placed ==
  \A i \in 1 .. Len(free) :
    /\ request.window.start <= free[i].start
    /\ free[i].start < free[i].end
    /\ free[i].end <= request.window.end
    /\ phase = "sweep" => free[i].end < cursor
    /\ \A b \in busy : Apart(free[i], b)
    /\ \A j \in 1 .. Len(free) : i < j => free[i].end < free[j].start

Covered ==
  Resolving =>
    \A t \in Time :
      (/\ request.window.start <= t /\ t < Limit
       /\ \A b \in busy : ~In(t, b)) =>
        \E i \in 1 .. Len(free) : In(t, free[i])

Started == phase = "collect" => busy = {} /\ cursor = request.window.start
Swept   == phase = "done" /\ Complete => pending = {}

Inv == TypeOK /\ Started /\ Swept /\ Sourced /\ Behind /\ Placed /\ Covered

-----------------------------------------------------------------------------
\* What a step leaves alone, and what it computes from that.
LEMMA Kept ==
  ASSUME [Next]_vars
  PROVE  /\ request' = request /\ given' = given
         /\ RequestValid' = RequestValid /\ AnswersValid' = AnswersValid
         /\ Complete' = Complete /\ Clipped' = Clipped
<1>1. request' = request /\ given' = given
  BY DEF Next, vars, Reject, Collect, Sweep, Finish
<1> QED
  BY <1>1 DEF RequestValid, AnswersValid, Complete, Clipped, Clip, Heard, Asked

\* The requested window and the windows of an answer are windows.
LEMMA Windows ==
  ASSUME TypeOK
  PROVE  /\ request.window \in Window
         /\ request.window.start \in Int /\ request.window.end \in Int
         /\ \A r \in Heard : r.busy \subseteq Window
         /\ \A w \in Window : w.start \in Time /\ w.end \in Time
         /\ \A w \in Window : w.start \in Int /\ w.end \in Int
<1>1. request.window \in Window
  BY DEF TypeOK, Request
<1>2. \A i \in DOMAIN given : given[i] \in Reply
  BY DEF TypeOK
<1>3. \A w \in Window : w.start \in Time /\ w.end \in Time
  BY DEF Window
<1> QED BY <1>1, <1>2, <1>3, Shape DEF Heard, Reply

\* Clipping keeps a window's instants in the request, and those only.
LEMMA ClipShape ==
  ASSUME TypeOK, NEW w \in Window
  PROVE  /\ Clip(w) \in Window
         /\ request.window.start <= Clip(w).start
         /\ Clip(w).end <= request.window.end
         /\ w.start <= Clip(w).start /\ Clip(w).end <= w.end
         /\ Clip(w).start \in {w.start, request.window.start}
         /\ Clip(w).end \in {w.end, request.window.end}
BY Windows DEF Clip, Later, Earlier, Window

\* What Add appends, if anything.
LEMMA AddShape ==
  ASSUME TypeOK, NEW a \in Time, NEW b \in Time
  PROVE  /\ Add(a, b) \in Seq(Window)
         /\ a < b => /\ Len(Add(a, b)) = Len(free) + 1
                     /\ Add(a, b)[Len(free) + 1] = [start |-> a, end |-> b]
         /\ ~(a < b) => Add(a, b) = free
         /\ \A i \in 1 .. Len(free) : Add(a, b)[i] = free[i]
         /\ Len(free) \in Nat
<1>1. free \in Seq(Window) /\ [start |-> a, end |-> b] \in Window
  BY DEF TypeOK, Window
<1> QED BY <1>1 DEF Add

-----------------------------------------------------------------------------
\* A rejected request keeps the empty result it starts with.
LEMMA RejectStep ==
  ASSUME Inv, Reject
  PROVE  Inv'
<1>1. phase = "collect" /\ phase' = "failed" /\ free = <<>>
  BY DEF Reject, Inv, Sourced, Resolving
<1>2. UNCHANGED <<request, given, busy, pending, cursor, free>>
  BY DEF Reject
<1>3. TypeOK'
  BY <1>1, <1>2 DEF Inv, TypeOK
<1>4. Started' /\ Swept' /\ Sourced' /\ Covered'
  BY <1>1, <1>2 DEF Started, Swept, Sourced, Covered, Resolving
<1>5. Behind' /\ Placed'
  BY <1>1, <1>2 DEF Inv, Behind, Placed
<1> QED BY <1>3, <1>4, <1>5 DEF Inv

\* Collecting the answers puts all busy windows ahead of the cursor.
LEMMA CollectStep ==
  ASSUME Inv, Collect
  PROVE  Inv'
<1>1. /\ phase = "collect" /\ free = <<>> /\ cursor = request.window.start
      /\ UNCHANGED <<request, given, cursor, free>>
      /\ busy' = {w \in Clipped : w.start < w.end} /\ pending' = busy'
      /\ RequestValid /\ AnswersValid
      /\ phase' = IF Complete THEN "sweep" ELSE "done"
  BY DEF Collect, Inv, Sourced, Started, Resolving
<1>2. /\ RequestValid' = RequestValid /\ AnswersValid' = AnswersValid
      /\ Complete' = Complete /\ Clipped' = Clipped
  BY Kept DEF Next
<1>3. \A b \in busy' : /\ b \in Window
                       /\ request.window.start <= b.start
                       /\ b.end <= request.window.end
  <2>1. \A r \in Heard : \A w \in r.busy : w \in Window
    BY Windows DEF Inv
  <2> QED BY <1>1, <2>1, ClipShape DEF Clipped, Inv
<1>4. TypeOK'
  <2>1. busy' \subseteq Window
    BY <1>3
  <2> QED BY <1>1, <1>3, <2>1 DEF Inv, TypeOK
<1>5. Started' /\ Swept'
  BY <1>1, <1>2 DEF Started, Swept
<1>6. Sourced'
  BY <1>1, <1>2 DEF Sourced, Resolving
<1>7. Behind'
  <2>1. request.window.start \in Int /\ request.window.end \in Int
    BY Windows DEF Inv
  <2>2. request.window.start < request.window.end
    BY <1>1 DEF RequestValid
  <2> QED BY <1>1, <2>1, <2>2 DEF Behind
<1>8. Placed'
  BY <1>1 DEF Placed
<1>9. Covered'
  <2>1. Limit' = request.window.start \/ ~Resolving'
    BY <1>1, <1>2 DEF Limit, Resolving
  <2>2. \A t \in Time : ~(request.window.start <= t /\ t < request.window.start)
    BY Windows, Shape DEF Inv
  <2> QED BY <1>1, <2>1, <2>2 DEF Covered
<1> QED BY <1>4, <1>5, <1>6, <1>7, <1>8, <1>9 DEF Inv

\* Sweeping the first pending window moves the cursor past it.
LEMMA SweepStep ==
  ASSUME Inv, Sweep
  PROVE  Inv'
<1>1. PICK b \in pending :
        /\ NextBusy(b)
        /\ free' = Add(cursor, b.start)
        /\ cursor' = Later(cursor, b.end)
        /\ pending' = pending \ {b}
  BY DEF Sweep
<1>2. /\ phase = "sweep" /\ phase' = "sweep"
      /\ UNCHANGED <<request, given, busy>>
  BY DEF Sweep
<1>3. /\ RequestValid' = RequestValid /\ AnswersValid' = AnswersValid
      /\ Complete' = Complete /\ Clipped' = Clipped
  BY Kept DEF Next
<1>4. /\ TypeOK
      /\ request.window.start \in Int /\ request.window.end \in Int
      /\ \A w \in Window : w.start \in Int /\ w.end \in Int
      /\ cursor \in Int /\ Time \subseteq Int
  BY Windows, Shape DEF Inv, TypeOK
<1>5. /\ Resolving /\ Complete
      /\ busy = {w \in Clipped : w.start < w.end}
      /\ RequestValid /\ AnswersValid
  BY <1>2 DEF Inv, Sourced, Resolving
<1>6. /\ b \in busy /\ b \in Window /\ b.start < b.end
      /\ b.start \in Time /\ b.end \in Time
      /\ request.window.start <= b.start /\ b.end <= request.window.end
  BY <1>4, <1>5, Windows DEF TypeOK
<1>7. /\ cursor' \in Time /\ cursor' \in Int /\ cursor <= cursor' /\ b.end <= cursor'
      /\ cursor' \in {cursor, b.end}
  BY <1>1, <1>4, <1>6 DEF Later, TypeOK
<1>8. TypeOK'
  <2>1. free' \in Seq(Window)
    BY <1>1, <1>4, <1>6, AddShape DEF TypeOK
  <2> QED BY <1>1, <1>2, <1>4, <1>7, <2>1 DEF TypeOK
<1>9. Started' /\ Swept' /\ Sourced'
  BY <1>2, <1>3, <1>5 DEF Started, Swept, Sourced, Resolving
<1>10. Behind'
  <2>1. \A v \in busy \ pending' : v.end <= cursor'
    BY <1>1, <1>4, <1>7 DEF Inv, Behind, TypeOK
  <2> QED BY <1>2, <1>4, <1>6, <1>7, <2>1 DEF Inv, Behind
<1>11. free' # free =>
         /\ cursor < b.start
         /\ Len(free') = Len(free) + 1
         /\ free'[Len(free) + 1] = [start |-> cursor, end |-> b.start]
         /\ \A i \in 1 .. Len(free) : free'[i] = free[i]
         /\ Len(free) \in Nat
  BY <1>1, <1>4, <1>6, AddShape DEF TypeOK
<1>12. \A v \in busy : v.start \in Int /\ v.end \in Int
  BY <1>4 DEF TypeOK
<1>13. \A i \in 1 .. Len(free) :
         /\ free[i] \in Window
         /\ free[i].start \in Int /\ free[i].end \in Int
         /\ request.window.start <= free[i].start
         /\ free[i].start < free[i].end
         /\ free[i].end <= request.window.end
         /\ free[i].end < cursor
         /\ \A v \in busy : Apart(free[i], v)
  <2>1. \A i \in 1 .. Len(free) : free[i] \in Window
    BY <1>4 DEF TypeOK
  <2> QED BY <1>2, <1>4, <2>1 DEF Inv, Placed
<1>14. Placed'
  <2>1. CASE free' = free
    <3>1. \A i \in 1 .. Len(free) : free[i].end < cursor'
      BY <1>4, <1>7, <1>13
    <3> QED BY <1>2, <2>1, <3>1 DEF Inv, Placed, Apart
  <2>2. CASE free' # free
    <3> DEFINE n == Len(free)
               f == [start |-> cursor, end |-> b.start]
    <3>1. /\ cursor < b.start /\ n \in Nat /\ Len(free') = n + 1
          /\ free'[n + 1] = f
          /\ \A i \in 1 .. n : free'[i] = free[i]
      BY <1>11, <2>2
    <3>2. \A i \in 1 .. n + 1 : i \in 1 .. n \/ i = n + 1
      BY <3>1
    <3>3. /\ request.window.start <= f.start /\ f.start < f.end
          /\ f.end <= request.window.end /\ f.end < cursor'
      BY <1>4, <1>6, <1>7, <3>1 DEF Inv, Behind
    <3>4. \A v \in busy : Apart(f, v)
      <4>1. \A v \in pending : b.start <= v.start
        BY <1>1 DEF NextBusy
      <4>2. \A v \in busy \ pending : v.end <= cursor
        BY DEF Inv, Behind
      <4> QED BY <4>1, <4>2 DEF Apart
    <3>5. \A i \in 1 .. n : free[i].end < f.start /\ free[i].end < cursor'
      BY <1>4, <1>7, <1>13
    <3> HIDE DEF f
    <3>6. ASSUME NEW i \in 1 .. n + 1
          PROVE  /\ request.window.start <= free'[i].start
                 /\ free'[i].start < free'[i].end
                 /\ free'[i].end <= request.window.end
                 /\ free'[i].end < cursor'
                 /\ \A v \in busy : Apart(free'[i], v)
      BY <1>13, <3>1, <3>2, <3>3, <3>4, <3>5
    <3>7. ASSUME NEW i \in 1 .. n + 1, NEW j \in 1 .. n + 1, i < j
          PROVE  free'[i].end < free'[j].start
      <4>1. i \in 1 .. n
        BY <3>1, <3>7
      <4>2. CASE j = n + 1
        BY <3>1, <3>5, <4>1, <4>2
      <4>3. CASE j \in 1 .. n
        BY <3>1, <3>7, <4>1, <4>3 DEF Inv, Placed
      <4> QED BY <3>2, <4>2, <4>3
    <3> QED BY <1>2, <3>1, <3>6, <3>7 DEF Placed, Apart
  <2> QED BY <2>1, <2>2
<1>15. Covered'
  <2> SUFFICES ASSUME NEW t \in Time, request.window.start <= t, t < cursor',
                      \A v \in busy : ~In(t, v)
               PROVE  \E i \in 1 .. Len(free') : In(t, free'[i])
    BY <1>2 DEF Covered, Limit, In
  <2>1. t \in Int
    BY <1>4
  <2>2. CASE t < cursor
    <3>1. PICK i \in 1 .. Len(free) : In(t, free[i])
      BY <1>2, <1>5, <2>2 DEF Inv, Covered, Limit
    <3> QED BY <1>11, <3>1
  <2>3. CASE ~(t < cursor)
    <3>1. t < b.end
      BY <1>4, <1>7, <2>1, <2>3
    <3>2. cursor <= t /\ t < b.start
      BY <1>4, <1>6, <2>1, <2>3, <3>1 DEF In
    <3>3. free' = Add(cursor, b.start) /\ cursor < b.start
      BY <1>1, <1>4, <1>6, <2>1, <3>2
    <3>4. /\ Len(free') = Len(free) + 1 /\ Len(free) \in Nat
          /\ free'[Len(free) + 1] = [start |-> cursor, end |-> b.start]
      BY <1>4, <1>6, <3>3, AddShape DEF TypeOK
    <3>5. In(t, free'[Len(free) + 1])
      BY <3>2, <3>4 DEF In
    <3> QED BY <3>4, <3>5
  <2> QED BY <2>2, <2>3
<1> QED BY <1>8, <1>9, <1>10, <1>14, <1>15 DEF Inv

\* What is left of the request behind the last busy window is free.
LEMMA FinishStep ==
  ASSUME Inv, Finish
  PROVE  Inv'
<1> DEFINE n == Len(free)
           f == [start |-> cursor, end |-> request.window.end]
<1>1. /\ phase = "sweep" /\ phase' = "done" /\ pending = {}
      /\ UNCHANGED <<request, given, busy, pending, cursor>>
      /\ free' = Add(cursor, request.window.end)
  BY DEF Finish
<1>2. /\ RequestValid' = RequestValid /\ AnswersValid' = AnswersValid
      /\ Complete' = Complete /\ Clipped' = Clipped
  BY Kept DEF Next
<1>3. /\ TypeOK
      /\ request.window.start \in Int /\ request.window.end \in Int
      /\ request.window.end \in Time
      /\ \A w \in Window : w.start \in Int /\ w.end \in Int
      /\ cursor \in Time /\ cursor \in Int /\ Time \subseteq Int
  BY Windows, Shape DEF Inv, TypeOK
<1>4. /\ Resolving /\ Complete
      /\ busy = {w \in Clipped : w.start < w.end}
      /\ RequestValid /\ AnswersValid
  BY <1>1 DEF Inv, Sourced, Resolving
<1>5. /\ free' \in Seq(Window)
      /\ cursor < request.window.end =>
           Len(free') = n + 1 /\ free'[n + 1] = f
      /\ ~(cursor < request.window.end) => free' = free
      /\ \A i \in 1 .. n : free'[i] = free[i]
      /\ n \in Nat
  BY <1>1, <1>3, AddShape
<1>6. TypeOK'
  BY <1>1, <1>3, <1>5 DEF TypeOK
<1>7. Started' /\ Swept' /\ Sourced'
  BY <1>1, <1>2, <1>4 DEF Started, Swept, Sourced, Resolving
<1>8. Behind'
  BY <1>1 DEF Inv, Behind
<1>9. \A v \in busy : /\ v.start \in Int /\ v.end \in Int
                      /\ v.end <= cursor
  BY <1>1, <1>3 DEF Inv, Behind, TypeOK
<1>10. \A i \in 1 .. n : free[i].end < cursor
  BY <1>1 DEF Inv, Placed
<1>11. Placed'
  <2>1. CASE ~(cursor < request.window.end)
    BY <1>1, <1>5, <2>1 DEF Inv, Placed, Apart
  <2>2. CASE cursor < request.window.end
    <3>1. \A i \in 1 .. n + 1 : i \in 1 .. n \/ i = n + 1
      BY <1>5
    <3>2. /\ request.window.start <= f.start /\ f.start < f.end
          /\ f.end <= request.window.end
          /\ \A v \in busy : Apart(f, v)
          /\ \A i \in 1 .. n : free[i].end < f.start
      BY <1>3, <1>9, <1>10, <2>2 DEF Inv, Behind, Apart
    <3> HIDE DEF f
    <3>3. ASSUME NEW i \in 1 .. n + 1
          PROVE  /\ request.window.start <= free'[i].start
                 /\ free'[i].start < free'[i].end
                 /\ free'[i].end <= request.window.end
                 /\ \A v \in busy : Apart(free'[i], v)
      BY <1>5, <2>2, <3>1, <3>2 DEF Inv, Placed
    <3>4. ASSUME NEW i \in 1 .. n + 1, NEW j \in 1 .. n + 1, i < j
          PROVE  free'[i].end < free'[j].start
      <4>1. i \in 1 .. n
        BY <1>5, <3>4
      <4>2. CASE j = n + 1
        BY <1>5, <2>2, <3>2, <4>1, <4>2
      <4>3. CASE j \in 1 .. n
        BY <1>5, <3>4, <4>1, <4>3 DEF Inv, Placed
      <4> QED BY <3>1, <4>2, <4>3
    <3> QED BY <1>1, <1>5, <2>2, <3>3, <3>4 DEF Placed, Apart
  <2> QED BY <2>1, <2>2
<1>12. Covered'
  <2> SUFFICES ASSUME NEW t \in Time, request.window.start <= t,
                      t < request.window.end,
                      \A v \in busy : ~In(t, v)
               PROVE  \E i \in 1 .. Len(free') : In(t, free'[i])
    BY <1>1 DEF Covered, Limit, In
  <2>1. t \in Int
    BY <1>3
  <2>2. CASE t < cursor
    <3>1. PICK i \in 1 .. Len(free) : In(t, free[i])
      BY <1>1, <1>4, <2>2 DEF Inv, Covered, Limit
    <3> QED BY <1>5, <3>1
  <2>3. CASE ~(t < cursor)
    <3>1. cursor < request.window.end
      BY <1>3, <2>1, <2>3
    <3>2. In(t, f)
      BY <1>3, <2>1, <2>3 DEF In
    <3> QED BY <1>5, <3>1, <3>2
  <2> QED BY <2>2, <2>3
<1> QED BY <1>6, <1>7, <1>8, <1>11, <1>12 DEF Inv

-----------------------------------------------------------------------------
\* The loop invariant holds from the first answer to the result.
LEMMA Invariant == Spec => []Inv
<1>1. Init => Inv
  <2> SUFFICES ASSUME Init PROVE Inv
    OBVIOUS
  <2>1. request \in Request /\ given \in Seq(Reply)
    BY Shape DEF Init
  <2>2. cursor \in Time /\ cursor \in Int
    BY <2>1, Shape DEF Init, Request, Window
  <2>3. TypeOK
    BY <2>1, <2>2 DEF Init, TypeOK
  <2>4. Started /\ Swept /\ Sourced /\ Covered
    BY DEF Init, Started, Swept, Sourced, Covered, Resolving
  <2>5. Behind /\ Placed
    BY <2>2 DEF Init, Behind, Placed
  <2> QED BY <2>3, <2>4, <2>5 DEF Inv
<1>2. Inv /\ [Next]_vars => Inv'
  <2> SUFFICES ASSUME Inv, [Next]_vars PROVE Inv'
    OBVIOUS
  <2>1. CASE UNCHANGED vars
    <3>1. UNCHANGED <<request, given, phase, busy, pending, cursor, free>>
      BY <2>1 DEF vars
    <3>2. /\ RequestValid' = RequestValid /\ AnswersValid' = AnswersValid
          /\ Complete' = Complete /\ Clipped' = Clipped
      BY Kept
    <3> QED BY <3>1, <3>2 DEF Inv, TypeOK, Started, Swept, Sourced, Behind,
               Placed, Covered, Resolving, Limit, In, Apart
  <2> QED BY <2>1, RejectStep, CollectStep, SweepStep, FinishStep DEF Next
<1> QED BY <1>1, <1>2, PTL DEF Spec

\* Every value ResolveAvailability computes has its type, and busy windows
\* lie in the requested one.
THEOREM TypeCorrect == Spec => []TypeOK
<1>1. Inv => TypeOK
  BY DEF Inv
<1> QED BY <1>1, Invariant, PTL

\* A window in the result is inside the request and free in every calendar
\* asked for, each of which answered in full.
THEOREM NoInventedTime == Spec => []FreeIsFree
<1>1. ASSUME Inv
      PROVE  FreeIsFree
  <2> SUFFICES ASSUME NEW i \in DOMAIN free
               PROVE  /\ request.window.start <= free[i].start
                      /\ free[i].end <= request.window.end
                      /\ \A k \in DOMAIN request.ids :
                           \E j \in DOMAIN given :
                             /\ given[j].id = request.ids[k]
                             /\ given[j].complete /\ ~given[j].failed
                             /\ \A w \in given[j].busy : Apart(free[i], w)
    BY DEF FreeIsFree
  <2> DEFINE f == free[i]
  <2>1. i \in 1 .. Len(free) /\ f \in Window
    BY <1>1 DEF Inv, TypeOK
  <2>2. /\ request.window.start <= f.start /\ f.start < f.end
        /\ f.end <= request.window.end
        /\ \A b \in busy : Apart(f, b)
    BY <1>1, <2>1 DEF Inv, Placed
  <2>3. Complete /\ AnswersValid /\ busy = {w \in Clipped : w.start < w.end}
    BY <1>1, <2>1 DEF Inv, Sourced, TypeOK
  <2> HIDE DEF f
  <2>4. ASSUME NEW r \in Heard, NEW w \in r.busy
        PROVE  Apart(f, w)
    <3>1. w \in Window /\ w.start < w.end
      BY <1>1, <2>3, Windows DEF Inv, AnswersValid
    <3>2. /\ w.start \in Int /\ w.end \in Int /\ f.start \in Int /\ f.end \in Int
          /\ request.window.start \in Int /\ request.window.end \in Int
      BY <1>1, <2>1, <3>1, Windows DEF Inv
    <3>3. Clip(w) \in Clipped
      BY DEF Clipped
    <3>4. Clip(w).start < Clip(w).end => Apart(f, Clip(w))
      BY <2>2, <2>3, <3>3
    <3> QED BY <2>2, <3>1, <3>2, <3>4 DEF Apart, Clip, Later, Earlier
  <2>5. ASSUME NEW k \in DOMAIN request.ids
        PROVE  \E j \in DOMAIN given :
                 /\ given[j].id = request.ids[k]
                 /\ given[j].complete /\ ~given[j].failed
                 /\ \A w \in given[j].busy : Apart(f, w)
    <3>1. PICK r \in Heard : r.id = request.ids[k] /\ r.complete /\ ~r.failed
      BY <2>3 DEF Complete
    <3>2. PICK j \in DOMAIN given : r = given[j]
      BY DEF Heard
    <3> QED BY <2>4, <3>1, <3>2
  <2> QED BY <2>2, <2>5 DEF f
<1> QED BY <1>1, Invariant, PTL

\* Whatever time no calendar is busy is in the result.
THEOREM NoTimeMissed == Spec => []AllFreeFound
<1>1. ASSUME Inv
      PROVE  AllFreeFound
  <2> SUFFICES ASSUME phase = "done", Complete, NEW t \in Time,
                      In(t, request.window),
                      \A r \in Heard : \A w \in r.busy : ~In(t, w)
               PROVE  \E i \in DOMAIN free : In(t, free[i])
    BY DEF AllFreeFound
  <2>1. Resolving /\ busy = {w \in Clipped : w.start < w.end}
    BY <1>1 DEF Inv, Sourced, Resolving
  <2>2. ASSUME NEW b \in busy
        PROVE  ~In(t, b)
    <3>1. PICK r \in Heard : \E w \in r.busy : b = Clip(w)
      BY <2>1 DEF Clipped
    <3>2. PICK w \in r.busy : b = Clip(w)
      BY <3>1
    <3>3. w \in Window /\ w.start \in Int /\ w.end \in Int /\ t \in Int
      BY <1>1, Windows, Shape DEF Inv
    <3>4. /\ request.window.start \in Int /\ request.window.end \in Int
      BY <1>1, Windows DEF Inv
    <3> QED BY <3>2, <3>3, <3>4 DEF In, Clip, Later, Earlier
  <2>3. DOMAIN free = 1 .. Len(free)
    BY <1>1 DEF Inv, TypeOK
  <2> QED BY <1>1, <2>1, <2>2, <2>3 DEF Inv, Covered, Limit, In
<1> QED BY <1>1, Invariant, PTL

\* Free windows are not empty and never touch.
THEOREM FreeMerged == Spec => []FreeInOrder
<1>1. ASSUME Inv
      PROVE  FreeInOrder
  <2>1. DOMAIN free = 1 .. Len(free) /\ Len(free) \in Nat
    BY <1>1 DEF Inv, TypeOK
  <2> QED BY <1>1, <2>1 DEF Inv, Placed, FreeInOrder
<1> QED BY <1>1, Invariant, PTL

-----------------------------------------------------------------------------
(* One result.  sort.Slice may sweep windows that start together in either  *)
(* order; the answer does not show it, nor anything else of how it is found. *)

\* A set of numbers that is not empty has a least one.
LEMMA LeastNumber ==
  ASSUME NEW S \in SUBSET Nat, S # {}
  PROVE  \E n \in S : \A m \in S : n <= m
<1> DEFINE Down(n) == 0 .. n
           Downs   == {Down(n) : n \in S}
<1>1. IsWellFoundedOn(StrictSubsetOrdering(Nat), FiniteSubsetsOf(Nat))
  BY FS_StrictSubsetOrderingWellFounded
<1>2. Downs \subseteq FiniteSubsetsOf(Nat) /\ Downs # {}
  <2>1. \A n \in S : Down(n) \subseteq Nat /\ IsFiniteSet(Down(n))
    BY FS_Interval
  <2> QED BY <2>1 DEF FiniteSubsetsOf
<1>3. PICK d \in Downs : \A e \in Downs : ~(<<e, d>> \in StrictSubsetOrdering(Nat))
  BY <1>1, <1>2, WFMin
<1>4. PICK n \in S : d = Down(n)
  OBVIOUS
<1>5. ASSUME NEW m \in S, m < n PROVE FALSE
  <2>1. Down(m) \in Downs /\ Down(m) \subseteq Down(n) /\ Down(m) # Down(n)
    BY <1>5
  <2>2. <<Down(m), Down(n)>> \in StrictSubsetOrdering(Nat)
    BY <2>1 DEF StrictSubsetOrdering
  <2> QED BY <1>3, <1>4, <2>1, <2>2
<1> QED BY <1>5

\* Windows that are not empty, in order, with time between them.
Spaced(s) ==
  \A i \in DOMAIN s :
    /\ s[i].start < s[i].end
    /\ \A j \in DOMAIN s : i < j => s[i].end < s[j].start

Covers(s, t) == \E i \in DOMAIN s : In(t, s[i])

\* No calendar of the request is busy at t.
FreeAt(t) ==
  /\ In(t, request.window)
  /\ \A r \in Heard : \A w \in r.busy : ~In(t, w)

OnlyResult ==
  (phase = "done" /\ Complete) =>
    \A s \in Seq(Window) :
      s = free <=> Spaced(s) /\ \A t \in Time : Covers(s, t) <=> FreeAt(t)

LEMMA WindowsOf ==
  ASSUME NEW s \in Seq(Window)
  PROVE  /\ DOMAIN s = 1 .. Len(s) /\ Len(s) \in Nat
         /\ \A i \in DOMAIN s : /\ s[i] \in Window
                                /\ s[i].start \in Time /\ s[i].end \in Time
                                /\ s[i].start \in Int /\ s[i].end \in Int
<1>1. \A i \in DOMAIN s : s[i] \in Window
  OBVIOUS
<1>2. \A w \in Window : w.start \in Time /\ w.end \in Time
  BY DEF Window
<1>3. \A t \in Time : t \in Int
  BY Shape
<1>4. DOMAIN s = 1 .. Len(s) /\ Len(s) \in Nat
  OBVIOUS
<1> QED BY <1>1, <1>2, <1>3, <1>4

\* Of two such sequences that agree before n, where one has a window the other
\* has one that starts no later.
LEMMA StartsNoLater ==
  ASSUME NEW f \in Seq(Window), NEW g \in Seq(Window), Spaced(f), Spaced(g),
         \A t \in Time : Covers(f, t) => Covers(g, t),
         NEW n \in DOMAIN f, \A i \in 1 .. n - 1 : i \in DOMAIN g /\ g[i] = f[i]
  PROVE  n \in DOMAIN g /\ g[n].start <= f[n].start
<1>1. /\ DOMAIN f = 1 .. Len(f) /\ Len(f) \in Nat /\ DOMAIN g = 1 .. Len(g) /\ Len(g) \in Nat
      /\ \A i \in DOMAIN f : f[i].start \in Time /\ f[i].start \in Int /\ f[i].end \in Int
      /\ \A i \in DOMAIN g : g[i].start \in Int /\ g[i].end \in Int
  BY WindowsOf
<1>2. In(f[n].start, f[n])
  BY <1>1 DEF In, Spaced
<1>3. PICK j \in DOMAIN g : In(f[n].start, g[j])
  BY <1>1, <1>2 DEF Covers
<1>4. n <= j
  <2> SUFFICES ASSUME j < n PROVE FALSE
    BY <1>1
  <2>1. j \in DOMAIN f /\ g[j] = f[j]
    BY <1>1
  <2>2. f[j].end < f[n].start
    BY <2>1 DEF Spaced
  <2> QED BY <1>1, <1>3, <2>1, <2>2 DEF In
<1>5. n \in DOMAIN g
  BY <1>1, <1>4
<1>6. n < j => g[n].end < g[j].start /\ g[n].start < g[n].end
  BY <1>5 DEF Spaced
<1> QED BY <1>1, <1>3, <1>4, <1>5, <1>6 DEF In

\* If both have one that starts at the same time, it ends at the same time.
LEMMA EndsNoEarlier ==
  ASSUME NEW f \in Seq(Window), NEW g \in Seq(Window), Spaced(f), Spaced(g),
         \A t \in Time : Covers(g, t) => Covers(f, t),
         NEW n \in DOMAIN f, n \in DOMAIN g, g[n].start = f[n].start
  PROVE  g[n].end <= f[n].end
<1>1. /\ DOMAIN f = 1 .. Len(f) /\ Len(f) \in Nat
      /\ \A i \in DOMAIN f : f[i].end \in Time /\ f[i].start \in Int /\ f[i].end \in Int
      /\ g[n].start \in Int /\ g[n].end \in Int
  BY WindowsOf
<1> SUFFICES ASSUME f[n].end < g[n].end PROVE FALSE
  BY <1>1
<1>2. f[n].start < f[n].end
  BY DEF Spaced
<1>3. In(f[n].end, g[n])
  BY <1>1, <1>2 DEF In
<1>4. PICK k \in DOMAIN f : In(f[n].end, f[k])
  BY <1>1, <1>3 DEF Covers
<1>5. CASE k < n
  <2>1. f[k].end < f[n].start
    BY <1>5 DEF Spaced
  <2> QED BY <1>1, <1>2, <1>4, <2>1 DEF In
<1>6. CASE k = n
  BY <1>1, <1>4, <1>6 DEF In
<1>7. CASE n < k
  <2>1. f[n].end < f[k].start
    BY <1>7 DEF Spaced
  <2> QED BY <1>1, <1>4, <2>1 DEF In
<1> QED BY <1>1, <1>5, <1>6, <1>7

\* Spaced windows are told by the time they cover.
LEMMA SpacedUnique ==
  ASSUME NEW f \in Seq(Window), NEW g \in Seq(Window), Spaced(f), Spaced(g),
         \A t \in Time : Covers(f, t) <=> Covers(g, t)
  PROVE  f = g
<1> DEFINE Wrong == {i \in DOMAIN f \cup DOMAIN g :
                       ~(i \in DOMAIN f /\ i \in DOMAIN g /\ f[i] = g[i])}
<1>1. DOMAIN f = 1 .. Len(f) /\ Len(f) \in Nat /\ DOMAIN g = 1 .. Len(g) /\ Len(g) \in Nat
  OBVIOUS
<1>2. Wrong = {}
  <2> SUFFICES ASSUME Wrong # {} PROVE FALSE
    OBVIOUS
  <2>1. Wrong \in SUBSET Nat
    BY <1>1
  <2>2. PICK n \in Wrong : \A m \in Wrong : n <= m
    <3> HIDE DEF Wrong
    <3> QED BY <2>1, LeastNumber
  <2>3. n \in Nat \ {0} /\ n \in DOMAIN f \cup DOMAIN g
    BY <1>1
  <2>4. \A i \in 1 .. n - 1 : i \in DOMAIN f /\ i \in DOMAIN g /\ f[i] = g[i]
    <3> SUFFICES ASSUME NEW i \in 1 .. n - 1
                 PROVE  i \in DOMAIN f /\ i \in DOMAIN g /\ f[i] = g[i]
      OBVIOUS
    <3>1. i \in DOMAIN f \cup DOMAIN g /\ i < n
      BY <1>1, <2>3
    <3>2. i \notin Wrong
      BY <2>2, <2>3, <3>1
    <3> QED BY <3>1, <3>2
  <2>5. n \in DOMAIN f /\ n \in DOMAIN g
    BY <2>3, <2>4, StartsNoLater
  <2>6. f[n] \in Window /\ g[n] \in Window
    BY <2>5
  <2>7. /\ f[n].start \in Int /\ f[n].end \in Int /\ g[n].start \in Int /\ g[n].end \in Int
    BY <2>6, Shape DEF Window
  <2>8. f[n].start = g[n].start
    <3>1. g[n].start <= f[n].start
      BY <2>4, <2>5, StartsNoLater
    <3>2. f[n].start <= g[n].start
      BY <2>4, <2>5, StartsNoLater
    <3> QED BY <2>7, <3>1, <3>2
  <2>9. f[n].end = g[n].end
    <3>1. g[n].end <= f[n].end
      BY <2>5, <2>8, EndsNoEarlier
    <3>2. f[n].end <= g[n].end
      BY <2>5, <2>8, EndsNoEarlier
    <3> QED BY <2>7, <3>1, <3>2
  <2> QED BY <2>5, <2>6, <2>8, <2>9 DEF Window
<1>3. \A i \in DOMAIN f \cup DOMAIN g : i \in DOMAIN f /\ i \in DOMAIN g /\ f[i] = g[i]
  BY <1>2
<1>4. Len(f) = Len(g)
  <2>1. DOMAIN f = DOMAIN g
    BY <1>3
  <2>2. \A m \in Nat, n \in Nat : 1 .. m = 1 .. n => m = n
    <3> SUFFICES ASSUME NEW m \in Nat, NEW n \in Nat, 1 .. m = 1 .. n PROVE m = n
      OBVIOUS
    <3>1. (m > 0 => m \in 1 .. n) /\ (n > 0 => n \in 1 .. m)
      OBVIOUS
    <3> QED BY <3>1
  <2> QED BY <1>1, <2>1, <2>2
<1> QED BY <1>1, <1>3, <1>4

\* The result is in that form, and covers what is free.
LEMMA ResultCovers ==
  ASSUME Inv, phase = "done", Complete
  PROVE  Spaced(free) /\ \A t \in Time : Covers(free, t) <=> FreeAt(t)
<1>1. /\ Resolving /\ AnswersValid /\ busy = {w \in Clipped : w.start < w.end}
      /\ DOMAIN free = 1 .. Len(free) /\ TypeOK
      /\ request.window.start \in Int /\ request.window.end \in Int
  BY Windows DEF Inv, Sourced, Resolving, TypeOK
<1>2. Spaced(free)
  BY <1>1 DEF Inv, Placed, Spaced
<1>3. ASSUME NEW t \in Time, NEW r \in Heard, NEW w \in r.busy, In(t, request.window)
      PROVE  /\ Clip(w) \in Clipped
             /\ In(t, w) <=> In(t, Clip(w)) /\ Clip(w).start < Clip(w).end
  <2>1. w \in Window /\ w.start \in Int /\ w.end \in Int /\ t \in Int /\ w.start < w.end
    BY <1>1, Windows, Shape DEF AnswersValid
  <2>2. Clip(w) \in Clipped
    BY DEF Clipped
  <2> QED BY <1>1, <1>3, <2>1, <2>2 DEF In, Clip, Later, Earlier
<1>4. ASSUME NEW t \in Time, Covers(free, t)
      PROVE  FreeAt(t)
  <2>1. PICK i \in DOMAIN free : In(t, free[i])
    BY <1>4 DEF Covers
  <2>2. free[i] \in Window /\ free[i].start \in Int /\ free[i].end \in Int /\ t \in Int
    BY <1>1, Windows, Shape DEF TypeOK
  <2>3. /\ request.window.start <= free[i].start /\ free[i].end <= request.window.end
        /\ \A b \in busy : Apart(free[i], b)
    BY <1>1 DEF Inv, Placed
  <2>4. In(t, request.window)
    BY <1>1, <2>1, <2>2, <2>3 DEF In
  <2>5. ASSUME NEW r \in Heard, NEW w \in r.busy, In(t, w) PROVE FALSE
    <3>1. Clip(w) \in busy /\ In(t, Clip(w))
      BY <1>1, <1>3, <2>4, <2>5
    <3>2. Clip(w) \in Window /\ Clip(w).start \in Int /\ Clip(w).end \in Int
      BY <1>1, <3>1, Windows DEF TypeOK
    <3> QED BY <2>1, <2>2, <2>3, <3>1, <3>2 DEF In, Apart
  <2> QED BY <2>4, <2>5 DEF FreeAt
<1>5. ASSUME NEW t \in Time, FreeAt(t)
      PROVE  Covers(free, t)
  <2>1. \A b \in busy : ~In(t, b)
    BY <1>1, <1>3, <1>5 DEF FreeAt, Clipped
  <2>2. request.window.start <= t /\ t < Limit
    BY <1>5 DEF FreeAt, In, Limit
  <2> QED BY <1>1, <1>5, <2>1, <2>2 DEF Inv, Covered, Covers
<1> QED BY <1>2, <1>4, <1>5

\* The windows ResolveAvailability returns for complete answers are the only
\* ones that are not empty, in order, apart, and cover exactly the time in
\* which no calendar asked is busy: neither the order in which sort.Slice puts
\* windows that start together, nor that of calendars or overlaps, can show.
THEOREM ResultDetermined == Spec => []OnlyResult
<1>1. Inv => OnlyResult
  <2> SUFFICES ASSUME Inv, phase = "done", Complete, NEW s \in Seq(Window)
               PROVE  s = free <=> Spaced(s) /\ \A t \in Time : Covers(s, t) <=> FreeAt(t)
    BY DEF OnlyResult
  <2>1. Spaced(free) /\ \A t \in Time : Covers(free, t) <=> FreeAt(t)
    BY ResultCovers
  <2>2. free \in Seq(Window)
    BY DEF Inv, TypeOK
  <2>3. (Spaced(s) /\ \A t \in Time : Covers(s, t) <=> FreeAt(t)) => s = free
    BY <2>1, <2>2, SpacedUnique
  <2> QED BY <2>1, <2>3
<1> QED BY <1>1, Invariant, PTL

-----------------------------------------------------------------------------
(* Local times. *)

\* local_time.go tries the offsets of one period and its neighbours: no
\* instant that shows the wall-clock value escapes it, in any zone whose
\* periods are at least as long as its offsets are apart.
LEMMA AllTried ==
  ASSUME NEW zone, NEW spread \in Nat, ZoneValid(zone, spread), NEW wall \in Int,
         NEW u \in Instants(zone, wall)
  PROVE  zone[u].offset \in Offsets(zone, wall)
<1> DEFINE approx == Date(zone, wall)
           there == zone[wall - zone[wall].offset].offset
<1>1. zone \in Zone /\ u \in Int /\ u + zone[u].offset = wall
  BY DEF ZoneValid, Instants
<1>2. \A t \in Int : zone[t].offset \in Int /\ zone[t].begin \subseteq Int /\ zone[t].end \subseteq Int
  BY <1>1 DEF Zone, Period
<1>3. approx \in Int /\ approx = wall - there /\ there \in Int /\ zone[u].offset \in Int
  BY <1>1, <1>2 DEF Date
<1>4. u - approx <= spread /\ approx - u <= spread
  <2>1. there - zone[u].offset <= spread /\ zone[u].offset - there <= spread
    BY <1>1, <1>2 DEF ZoneValid
  <2> HIDE DEF approx, there
  <2> QED BY <1>1, <1>3, <2>1
<1>5. /\ zone[approx].offset \in Offsets(zone, wall)
      /\ \A b \in zone[approx].begin : zone[b - 1].offset \in Offsets(zone, wall)
      /\ \A e \in zone[approx].end : zone[e].offset \in Offsets(zone, wall)
  BY DEF Offsets
<1> HIDE DEF approx, there
<1>6. CASE (\A b \in zone[approx].begin : b <= u) /\ (\A e \in zone[approx].end : u < e)
  BY <1>1, <1>3, <1>5, <1>6 DEF ZoneValid
<1>7. ASSUME NEW e \in zone[approx].end, ~(u < e) PROVE zone[u].offset \in Offsets(zone, wall)
  <2>1. e \in Int /\ approx < e /\ zone[e].begin = {e}
    BY <1>2, <1>3 DEF ZoneValid
  <2>2. \A f \in zone[e].end : f \in Int /\ spread <= f - e
    BY <1>2, <2>1 DEF ZoneValid
  <2>3. \A f \in zone[e].end : u < f
    BY <1>1, <1>3, <1>4, <2>1, <2>2
  <2>4. zone[u] = zone[e]
    BY <1>1, <1>7, <2>1, <2>3 DEF ZoneValid
  <2> QED BY <1>5, <2>4
<1>8. ASSUME NEW b \in zone[approx].begin, ~(b <= u) PROVE zone[u].offset \in Offsets(zone, wall)
  <2>1. b \in Int /\ b <= approx /\ zone[b - 1].end = {b} /\ b - 1 \in Int
    BY <1>2, <1>3 DEF ZoneValid
  <2>2. \A a \in zone[b - 1].begin : a \in Int /\ spread <= b - a
    BY <1>2, <2>1 DEF ZoneValid
  <2>3. \A a \in zone[b - 1].begin : a <= u
    BY <1>1, <1>3, <1>4, <2>1, <2>2
  <2>4. zone[u] = zone[b - 1]
    BY <1>1, <1>8, <2>1, <2>3 DEF ZoneValid
  <2> QED BY <1>5, <2>4
<1> QED BY <1>6, <1>7, <1>8

\* A wall-clock time is resolved exactly when the zone has it once: a time that
\* daylight saving skips or repeats is refused, and every other one is given
\* the instant it stands for.
THEOREM LocalTimeExact ==
  ASSUME NEW zone, NEW spread \in Nat, ZoneValid(zone, spread), NEW wall \in Int, NEW u \in Int
  PROVE  LocalDateTime(zone, wall) = {u} <=> Instants(zone, wall) = {u}
<1>1. zone \in Zone
  BY DEF ZoneValid
<1>2. \A t \in Int : zone[t].offset \in Int /\ zone[t].begin \subseteq Int /\ zone[t].end \subseteq Int
  BY <1>1 DEF Zone, Period
<1>3. Matches(zone, wall) \subseteq Instants(zone, wall)
  <2>1. Date(zone, wall) \in Int
    BY <1>2 DEF Date
  <2>2. Offsets(zone, wall) \subseteq Int
    BY <1>2, <2>1 DEF Offsets, TwoDays
  <2> QED BY <2>2 DEF Matches, Instants
<1>4. Instants(zone, wall) \subseteq Matches(zone, wall)
  <2>1. ASSUME NEW v \in Instants(zone, wall) PROVE v \in Matches(zone, wall)
    <3>1. v \in Int /\ v + zone[v].offset = wall /\ zone[v].offset \in Int
      BY <1>2 DEF Instants
    <3>2. zone[v].offset \in Offsets(zone, wall) /\ v = wall - zone[v].offset
      BY <3>1, AllTried
    <3> QED BY <3>1, <3>2 DEF Matches
  <2> QED BY <2>1
<1> QED BY <1>3, <1>4 DEF LocalDateTime
===============================================================================
