------------------------- MODULE CalendarWriteProofs -------------------------
(***************************************************************************)
(* Proofs about calendar updates, for any events, requests, workers and    *)
(* shapes.  The argument: a version names one content, so a preview of the *)
(* current version shows the current content (Current); a request that     *)
(* passed its check agrees with its preview (Passed), whatever happens to  *)
(* the event until the vendor compares versions once more.                 *)
(***************************************************************************)
EXTENDS CalendarWrite, TLAPS

By == [Field -> Ref \cup {Owner}]

\* A preview is a valid snapshot of a version the event has had, of its
\* content now if that version is current.
Current ==
  \A r \in Ref : preview[r] # None =>
    LET p == preview[r] IN
    /\ SnapshotValid(p)
    /\ p.version <= record[p.event].tag
    /\ p.version = record[p.event].tag =>
         p.shape = record[p.event].shape /\ p.by = record[p.event].by

\* A request asks for the version of its preview.
FromPreview ==
  \A r \in Ref : asked[r] # None =>
    /\ preview[r] # None
    /\ asked[r].event = preview[r].event
    /\ asked[r].expected = preview[r].version

\* What a worker that passed its check knows.
Fits(r) ==
  /\ PatchValid(asked[r].changes)
  /\ preview[r].shape.kind = "series" <=> asked[r].scope = "series"

Passed ==
  \A w \in Worker : worker[w] # Idle =>
    /\ asked[worker[w].ref] # None
    /\ worker[w].stage = "checked" => Fits(worker[w].ref)

\* A mutation was made to what the preview shows, for a request that fits.
Logged ==
  \A m \in log :
    /\ asked[m.ref] # None
    /\ Fits(m.ref)
    /\ m.tag = m.before.tag + 1

\* A result reports a mutation, with its version where there is one.
Reported ==
  \A result \in results :
    \E m \in log :
      /\ m.ref = result.ref /\ m.event = result.event
      /\ result.version \in {m.tag, NoTag}

Inv ==
  /\ TypeOK
  /\ Current
  /\ FromPreview
  /\ Passed
  /\ Logged
  /\ AppliedAsPreviewed
  /\ BoundsTogether
  /\ Reported
  /\ ReceiptOwn

LEMMA InitInv == Init => Inv
<1> SUFFICES ASSUME Init PROVE Inv
  OBVIOUS
<1>1. TypeOK
  <2>1. record \in [Event -> Record]
    BY Sorts DEF Init, Record
  <2> QED BY <2>1 DEF Init, TypeOK
<1>2. BoundsTogether
  <2>1. \A e \in Event : record[e].by = [f \in Field |-> Owner]
    BY DEF Init
  <2> QED BY <2>1, Sorts DEF BoundsTogether
<1>3. Current /\ FromPreview
  BY DEF Init, Current, FromPreview
<1>4. Passed /\ Logged /\ AppliedAsPreviewed
  BY DEF Init, Passed, Logged, AppliedAsPreviewed
<1>5. Reported /\ ReceiptOwn
  BY DEF Init, Reported, ReceiptOwn
<1> QED BY <1>1, <1>2, <1>3, <1>4, <1>5 DEF Inv

\* The owner moves the version on, past every preview.
LEMMA OwnerStep ==
  ASSUME Inv, NEW e \in Event, OwnerEdit(e)
  PROVE  Inv'
<1>1. PICK s \in Shapes, by \in {record[e].by, [f \in Field |-> Owner]} :
        record' = [record EXCEPT ![e] =
                     [shape |-> s, by |-> by, tag |-> record[e].tag + 1]]
  BY DEF OwnerEdit
<1>2. UNCHANGED <<preview, asked, worker, log, results, receipt>>
      /\ record[e].tag < MaxTag
  BY DEF OwnerEdit
<1>3. record[e] \in Record /\ DOMAIN record = Event
  BY DEF Inv, TypeOK
<1>4. by \in By /\ by["start"] = by["end"]
  BY <1>1, <1>3, Sorts DEF By, Record, Inv, BoundsTogether
<1>5. [shape |-> s, by |-> by, tag |-> record[e].tag + 1] \in Record
  BY <1>2, <1>3, <1>4, Sorts DEF Record, By
<1>6. /\ record'[e].shape = s /\ record'[e].by = by
      /\ record'[e].tag = record[e].tag + 1
      /\ \A x \in Event \ {e} : record'[x] = record[x]
  BY <1>1, <1>3
<1>7. TypeOK'
  BY <1>1, <1>2, <1>5 DEF Inv, TypeOK
<1>8. BoundsTogether'
  BY <1>4, <1>6 DEF Inv, BoundsTogether
<1>9. Current'
  <2> SUFFICES ASSUME NEW r \in Ref, preview[r] # None
               PROVE  /\ SnapshotValid(preview[r])
                      /\ preview[r].version <= record'[preview[r].event].tag
                      /\ preview[r].version = record'[preview[r].event].tag =>
                           /\ preview[r].shape = record'[preview[r].event].shape
                           /\ preview[r].by = record'[preview[r].event].by
    BY <1>2 DEF Current, SnapshotValid, ValidVersion
  <2>1. preview[r].event \in Event /\ preview[r].version \in Nat
    BY DEF Inv, TypeOK, Snapshot
  <2>2. record[e].tag \in Nat
    BY <1>3 DEF Record
  <2>3. CASE preview[r].event = e
    BY <1>6, <2>1, <2>2, <2>3 DEF Inv, Current
  <2>4. CASE preview[r].event # e
    BY <1>6, <2>1, <2>4 DEF Inv, Current
  <2> QED BY <2>3, <2>4
<1>10. (FromPreview /\ Passed /\ Logged /\ AppliedAsPreviewed)'
  BY <1>2 DEF Inv, FromPreview, Passed, Logged, AppliedAsPreviewed, Fits,
              PatchValid, Idle
<1>11. (Reported /\ ReceiptOwn)'
  BY <1>2 DEF Inv, Reported, ReceiptOwn, NoTag
<1> QED BY <1>7, <1>8, <1>9, <1>10, <1>11 DEF Inv

\* A preview is taken before anything is asked for, of what is there.
LEMMA InspectStep ==
  ASSUME Inv, NEW r \in Ref, Inspect(r)
  PROVE  Inv'
<1>1. PICK e \in Event :
        /\ SnapshotValid(Read(e))
        /\ preview' = [preview EXCEPT ![r] = Read(e)]
  BY DEF Inspect
<1>2. UNCHANGED <<record, asked, worker, log, results, receipt>> /\ asked[r] = None
  BY DEF Inspect
<1>3. record[e] \in Record /\ DOMAIN preview = Ref
  BY DEF Inv, TypeOK
<1>4. /\ Read(e).event = e /\ Read(e).version = record[e].tag
      /\ Read(e).shape = record[e].shape /\ Read(e).by = record[e].by
  BY <1>1 DEF SnapshotValid, ValidVersion, Read
<1>5. Read(e) \in Snapshot
  BY <1>3, <1>4 DEF Read, Snapshot, Record
<1>6. preview'[r] = Read(e) /\ \A x \in Ref \ {r} : preview'[x] = preview[x]
  BY <1>1, <1>3
<1>7. TypeOK'
  BY <1>1, <1>2, <1>5 DEF Inv, TypeOK
<1>8. Current'
  <2> SUFFICES ASSUME NEW x \in Ref, preview'[x] # None
               PROVE  LET p == preview'[x] IN
                      /\ SnapshotValid(p)
                      /\ p.version <= record[p.event].tag
                      /\ p.version = record[p.event].tag =>
                           p.shape = record[p.event].shape /\ p.by = record[p.event].by
    BY <1>2 DEF Current, SnapshotValid, ValidVersion
  <2>1. CASE x = r
    <3>1. record[e].tag <= record[e].tag
      BY <1>3 DEF Record
    <3> QED BY <1>1, <1>4, <1>6, <2>1, <3>1
  <2>2. CASE x # r
    BY <1>6, <2>2 DEF Inv, Current
  <2> QED BY <2>1, <2>2
<1>9. \A x \in Ref : asked[x] # None => preview'[x] = preview[x]
  BY <1>2, <1>6
<1>10. (FromPreview /\ Passed)'
  <2>1. FromPreview'
    BY <1>2, <1>9 DEF Inv, FromPreview
  <2>2. \A w \in Worker : worker[w] # Idle => worker[w].ref \in Ref
    BY DEF Inv, TypeOK
  <2>3. Passed'
    BY <1>2, <1>9, <2>2 DEF Inv, Passed, Fits, PatchValid, Idle
  <2> QED BY <2>1, <2>3
<1>11. (Logged /\ AppliedAsPreviewed)'
  <2>1. \A m \in log : m.ref \in Ref /\ asked[m.ref] # None
    BY DEF Inv, TypeOK, Mutation, Logged
  <2> QED BY <1>2, <1>9, <2>1 DEF Inv, Logged, AppliedAsPreviewed, Fits, PatchValid
<1>12. (BoundsTogether /\ Reported /\ ReceiptOwn)'
  BY <1>2 DEF Inv, BoundsTogether, Reported, ReceiptOwn, NoTag
<1> QED BY <1>7, <1>8, <1>10, <1>11, <1>12 DEF Inv

\* A request is made out once, for what its preview shows.
LEMMA AskStep ==
  ASSUME Inv, NEW r \in Ref, Ask(r)
  PROVE  Inv'
<1>1. PICK scope \in Scopes, changes \in Patches :
        asked' = [asked EXCEPT ![r] =
                    [event |-> preview[r].event, expected |-> preview[r].version,
                     scope |-> scope, changes |-> changes]]
  BY DEF Ask
<1>2. /\ UNCHANGED <<record, preview, worker, log, results, receipt>>
      /\ asked[r] = None /\ preview[r] # None
  BY DEF Ask
<1>3. preview[r] \in Snapshot /\ DOMAIN asked = Ref
  BY <1>2 DEF Inv, TypeOK
<1>4. asked'[r] \in Update /\ \A x \in Ref \ {r} : asked'[x] = asked[x]
  BY <1>1, <1>3, Sorts DEF Update, Snapshot
<1>5. TypeOK'
  BY <1>1, <1>2, <1>4 DEF Inv, TypeOK
<1>6. FromPreview'
  BY <1>1, <1>2, <1>3, <1>4 DEF Inv, FromPreview
<1>7. \A x \in Ref : asked[x] # None => asked'[x] = asked[x]
  BY <1>2, <1>4
<1>8. Passed'
  <2>1. \A w \in Worker : worker[w] # Idle => worker[w].ref \in Ref
    BY DEF Inv, TypeOK
  <2> QED BY <1>2, <1>7, <2>1 DEF Inv, Passed, Fits, PatchValid, Idle
<1>9. (Logged /\ AppliedAsPreviewed)'
  <2>1. \A m \in log : m.ref \in Ref /\ asked[m.ref] # None
    BY DEF Inv, TypeOK, Mutation, Logged
  <2> QED BY <1>2, <1>7, <2>1 DEF Inv, Logged, AppliedAsPreviewed, Fits, PatchValid
<1>10. (Current /\ BoundsTogether /\ Reported /\ ReceiptOwn)'
  BY <1>2 DEF Inv, Current, SnapshotValid, ValidVersion, BoundsTogether,
              Reported, ReceiptOwn, NoTag
<1> QED BY <1>5, <1>6, <1>8, <1>9, <1>10 DEF Inv

\* Steps that only move a worker to a request that is asked for, past a
\* check that fits, or back.
LEMMA WorkerStep ==
  ASSUME Inv, NEW w \in Worker,
         UNCHANGED <<record, preview, asked, log, results, receipt>>,
         NEW j \in [ref : Ref, stage : {"sent", "checked"}] \cup {Idle},
         worker' = [worker EXCEPT ![w] = j],
         j # Idle => /\ asked[j.ref] # None
                     /\ j.stage = "checked" => Fits(j.ref)
  PROVE  Inv'
<1>1. TypeOK'
  BY DEF Inv, TypeOK
<1>2. Passed'
  <2>1. worker'[w] = j /\ \A x \in Worker \ {w} : worker'[x] = worker[x]
    BY DEF Inv, TypeOK
  <2> QED BY <2>1 DEF Inv, Passed, Fits, PatchValid, Idle
<1>3. (Current /\ FromPreview /\ Logged /\ AppliedAsPreviewed)'
  BY DEF Inv, Current, SnapshotValid, ValidVersion, FromPreview, Logged,
         AppliedAsPreviewed, Fits, PatchValid
<1>4. (BoundsTogether /\ Reported /\ ReceiptOwn)'
  BY DEF Inv, BoundsTogether, Reported, ReceiptOwn, NoTag
<1> QED BY <1>1, <1>2, <1>3, <1>4 DEF Inv

LEMMA DeliverStep ==
  ASSUME Inv, NEW w \in Worker, NEW r \in Ref, Deliver(w, r)
  PROVE  Inv'
<1> DEFINE j == [ref |-> r, stage |-> "sent"]
<1>1. /\ UNCHANGED <<record, preview, asked, log, results, receipt>>
      /\ worker' = [worker EXCEPT ![w] = j] /\ asked[r] # None
  BY DEF Deliver
<1>2. j \in [ref : Ref, stage : {"sent", "checked"}] \cup {Idle}
  OBVIOUS
<1>3. j.ref = r /\ j.stage = "sent"
  OBVIOUS
<1> HIDE DEF j
<1> QED BY <1>1, <1>2, <1>3, WorkerStep

LEMMA AbandonStep ==
  ASSUME Inv, NEW w \in Worker, Abandon(w)
  PROVE  Inv'
BY WorkerStep DEF Abandon

\* What passes the check fits the preview: the version read is the one asked
\* for, and a version names one content.
LEMMA CheckStep ==
  ASSUME Inv, NEW w \in Worker, Check(w)
  PROVE  Inv'
<1> DEFINE u == asked[worker[w].ref]
           r == worker[w].ref
           passed == [worker[w] EXCEPT !.stage = "checked"]
<1>1. UNCHANGED <<record, preview, asked, log, results, receipt>>
  BY DEF Check
<1>2. worker[w].stage = "sent"
  BY DEF Check
<1>3. worker[w] # Idle
  BY <1>2 DEF Idle
<1>4. /\ worker[w] \in [ref : Ref, stage : {"sent", "checked"}]
      /\ r \in Ref /\ asked[r] # None
  BY <1>3 DEF Inv, TypeOK, Passed
<1>5. /\ passed \in [ref : Ref, stage : {"sent", "checked"}]
      /\ passed.ref = r
  BY <1>4
<1>6. ASSUME ValidateAgainst(u, Read(u.event))
      PROVE  Fits(r)
  <2>1. /\ preview[r] # None /\ u.event = preview[r].event
        /\ u.expected = preview[r].version
    BY <1>4 DEF Inv, FromPreview
  <2>2. Read(u.event).version = u.expected /\ Read(u.event).version # NoTag
    BY <1>6 DEF ValidateAgainst, SnapshotValid, ValidVersion
  <2>3. record[u.event].tag = preview[r].version
    BY <2>1, <2>2 DEF Read
  <2>4. preview[r].shape = record[u.event].shape
    BY <1>4, <2>1, <2>3 DEF Inv, Current
  <2>5. record[u.event].shape.kind = "series" <=> u.scope = "series"
    BY <1>6 DEF ValidateAgainst, Read
  <2>6. PatchValid(u.changes)
    BY <1>6 DEF ValidateAgainst, UpdateValid
  <2> QED BY <2>4, <2>5, <2>6 DEF Fits
<1>7. worker' = [worker EXCEPT ![w] =
                   IF ValidateAgainst(u, Read(u.event)) THEN passed ELSE Idle]
  BY DEF Check
<1> HIDE DEF u, r, passed
<1>8. CASE ValidateAgainst(u, Read(u.event))
  BY <1>1, <1>4, <1>5, <1>6, <1>7, <1>8, WorkerStep
<1>9. CASE ~ValidateAgainst(u, Read(u.event))
  BY <1>1, <1>7, <1>9, WorkerStep
<1> QED BY <1>8, <1>9

\* The vendor writes to the version that was asked for: it is the previewed
\* one, its content the previewed content.
LEMMA ApplyStep ==
  ASSUME Inv, NEW w \in Worker, Apply(w)
  PROVE  Inv'
<1> DEFINE r == worker[w].ref
           u == asked[r]
           e == u.event
           m == [ref |-> r, event |-> e, before |-> record[e],
                 tag |-> record[e].tag + 1]
           version == IF record[e].shape.tagged THEN record[e].tag + 1 ELSE NoTag
           written == [f \in Field |-> IF f \in u.changes THEN r ELSE record[e].by[f]]
           new == [record[e] EXCEPT !.by = written, !.tag = record[e].tag + 1]
           result == [ref |-> r, event |-> e, version |-> version]
<1>1. /\ UNCHANGED <<preview, asked, receipt>>
      /\ IfMatch(u.expected, e) /\ record[e].tag < MaxTag
      /\ log' = log \cup {m} /\ results' = results \cup {result}
      /\ worker' = [worker EXCEPT ![w] = Idle]
      /\ worker[w].stage = "checked"
  <2>1. UNCHANGED <<preview, asked, receipt>>
    BY DEF Apply
  <2>2. IfMatch(u.expected, e) /\ record[e].tag < MaxTag
    BY DEF Apply
  <2>3. log' = log \cup {m}
    BY DEF Apply
  <2>4. results' = results \cup {result}
    BY DEF Apply
  <2>5. worker' = [worker EXCEPT ![w] = Idle] /\ worker[w].stage = "checked"
    BY DEF Apply
  <2> QED BY <2>1, <2>2, <2>3, <2>4, <2>5
<1>2. worker[w] # Idle
  <2>1. worker[w].stage = "checked"
    BY <1>1, Zenon
  <2> QED BY <2>1 DEF Idle
<1>3. r \in Ref /\ u # None /\ Fits(r)
  BY <1>1, <1>2 DEF Inv, TypeOK, Passed
<1>4. u \in Update /\ e \in Event
  BY <1>3 DEF Inv, TypeOK, Update
<1>5. preview[r] # None /\ e = preview[r].event /\ u.expected = preview[r].version
  BY <1>3 DEF Inv, FromPreview
<1>6. record[e] \in Record /\ DOMAIN record = Event /\ record[e].tag \in 1 .. MaxTag
  BY <1>4 DEF Inv, TypeOK, Record
<1>7. /\ record[e].tag = preview[r].version
      /\ record[e].shape = preview[r].shape /\ record[e].by = preview[r].by
  BY <1>1, <1>3, <1>5 DEF Inv, Current, SnapshotValid, ValidVersion, IfMatch
<1>8. record' = [record EXCEPT ![e] = new]
  BY <1>6 DEF Apply, Record
<1>9. record[e].tag + 1 \in 1 .. MaxTag
  <2>1. \A t \in 1 .. MaxTag : t < MaxTag => t + 1 \in 1 .. MaxTag
    BY Sorts
  <2> HIDE DEF e
  <2> QED BY <1>1, <1>6, <2>1
<1>10. /\ new.by = written /\ new.tag = record[e].tag + 1 /\ new.shape = record[e].shape
       /\ new \in Record
  <2>1. written \in By
    BY <1>3, <1>6 DEF By, Record
  <2> HIDE DEF written
  <2> QED BY <1>6, <1>9, <2>1 DEF Record, By
<1>11. m \in Mutation /\ result \in Result
  BY <1>3, <1>4, <1>6, <1>9, Sorts DEF Mutation, Result, NoTag
<1>12. /\ m.ref = r /\ m.event = e /\ m.before = record[e]
       /\ m.tag = record[e].tag + 1
       /\ result.ref = r /\ result.event = e /\ result.version \in {m.tag, NoTag}
  OBVIOUS
<1>13. written["start"] = written["end"]
  BY <1>3, <1>4, Sorts DEF Fits, PatchValid, Inv, BoundsTogether
<1> HIDE DEF m, result, version, written, new
<1>14. record'[e] = new /\ \A x \in Event \ {e} : record'[x] = record[x]
  BY <1>4, <1>6, <1>8
<1>15. TypeOK'
  BY <1>1, <1>8, <1>10, <1>11 DEF Inv, TypeOK
<1>16. BoundsTogether'
  BY <1>10, <1>13, <1>14 DEF Inv, BoundsTogether
<1>17. Current'
  <2> SUFFICES ASSUME NEW x \in Ref, preview[x] # None
               PROVE  LET p == preview[x] IN
                      /\ SnapshotValid(p)
                      /\ p.version <= record'[p.event].tag
                      /\ p.version = record'[p.event].tag =>
                           p.shape = record'[p.event].shape /\ p.by = record'[p.event].by
    BY <1>1 DEF Current, SnapshotValid, ValidVersion
  <2>1. preview[x].event \in Event /\ preview[x].version \in Nat
    BY DEF Inv, TypeOK, Snapshot
  <2>2. CASE preview[x].event = e
    BY <1>6, <1>10, <1>14, <2>1, <2>2 DEF Inv, Current
  <2>3. CASE preview[x].event # e
    BY <1>14, <2>1, <2>3 DEF Inv, Current
  <2> QED BY <2>2, <2>3
<1>18. (FromPreview /\ Passed)'
  <2>1. FromPreview'
    BY <1>1 DEF Inv, FromPreview
  <2>2. worker'[w] = Idle /\ \A x \in Worker \ {w} : worker'[x] = worker[x]
    BY <1>1 DEF Inv, TypeOK
  <2>3. Passed'
    BY <1>1, <2>2 DEF Inv, Passed, Fits, PatchValid, Idle
  <2> QED BY <2>1, <2>3
<1>19. Logged'
  BY <1>1, <1>3, <1>12 DEF Inv, Logged, Fits, PatchValid
<1>20. AppliedAsPreviewed'
  BY <1>1, <1>5, <1>7, <1>12 DEF Inv, AppliedAsPreviewed
<1>21. Reported'
  BY <1>1, <1>12 DEF Inv, Reported, NoTag
<1>22. ReceiptOwn'
  BY <1>1 DEF Inv, ReceiptOwn
<1> QED BY <1>15, <1>16, <1>17, <1>18, <1>19, <1>20, <1>21, <1>22 DEF Inv

LEMMA AcceptStep ==
  ASSUME Inv, NEW r \in Ref, Accept(r)
  PROVE  Inv'
<1>1. PICK result \in results :
        ResultValid(result, r) /\ receipt' = [receipt EXCEPT ![r] = result]
  BY DEF Accept
<1>2. UNCHANGED <<record, preview, asked, worker, log, results>>
  BY DEF Accept
<1>3. result \in Result /\ DOMAIN receipt = Ref
  BY DEF Inv, TypeOK
<1>4. TypeOK'
  BY <1>1, <1>2, <1>3 DEF Inv, TypeOK
<1>5. ReceiptOwn'
  <2>1. PICK m \in log : /\ m.ref = result.ref /\ m.event = result.event
                         /\ result.version \in {m.tag, NoTag}
    BY DEF Inv, Reported
  <2>2. m.ref = r /\ m.tag = result.version
    BY <1>1, <2>1 DEF ResultValid, ValidVersion
  <2>3. receipt'[r] = result /\ \A x \in Ref \ {r} : receipt'[x] = receipt[x]
    BY <1>1, <1>3
  <2> QED BY <1>2, <2>1, <2>2, <2>3 DEF Inv, ReceiptOwn
<1>6. (Current /\ FromPreview /\ Passed /\ Logged /\ AppliedAsPreviewed)'
  BY <1>2 DEF Inv, Current, SnapshotValid, ValidVersion, FromPreview, Passed,
              Logged, AppliedAsPreviewed, Fits, PatchValid, Idle
<1>7. (BoundsTogether /\ Reported)'
  BY <1>2 DEF Inv, BoundsTogether, Reported, NoTag
<1> QED BY <1>4, <1>5, <1>6, <1>7 DEF Inv

LEMMA StutterStep == Inv /\ UNCHANGED vars => Inv'
BY DEF Inv, vars, TypeOK, Current, SnapshotValid, ValidVersion, FromPreview,
       Passed, Logged, AppliedAsPreviewed, Fits, PatchValid, Idle,
       BoundsTogether, Reported, ReceiptOwn, NoTag

LEMMA StepInv == Inv /\ [Next]_vars => Inv'
<1> SUFFICES ASSUME Inv, Next PROVE Inv'
  BY StutterStep
<1>1. CASE \E e \in Event : OwnerEdit(e)
  BY <1>1, OwnerStep
<1>2. CASE \E r \in Ref : Inspect(r) \/ Ask(r) \/ Accept(r)
  BY <1>2, InspectStep, AskStep, AcceptStep
<1>3. CASE \E w \in Worker : Check(w) \/ Apply(w) \/ Abandon(w)
  BY <1>3, CheckStep, ApplyStep, AbandonStep
<1>4. CASE \E w \in Worker, r \in Ref : Deliver(w, r)
  BY <1>4, DeliverStep
<1> QED BY <1>1, <1>2, <1>3, <1>4 DEF Next

(* The inductive invariant.                                                 *)
THEOREM Invariant == Spec => []Inv
BY InitInv, StepInv, PTL DEF Spec

(* Every variable has its type.                                             *)
THEOREM TypeCorrect == Spec => []TypeOK
<1>1. Inv => TypeOK
  BY DEF Inv
<1> QED BY <1>1, Invariant, PTL

(* An update is made to the version and content its client saw, and to      *)
(* nothing newer.                                                           *)
THEOREM PreviewIsWhatChanges == Spec => []AppliedAsPreviewed
<1>1. Inv => AppliedAsPreviewed
  BY DEF Inv
<1> QED BY <1>1, Invariant, PTL

(* An update is made once at most: both would have been made to the version *)
(* of the one preview, and that version is current only once.               *)
THEOREM OnceOnly == Spec => []AppliedOnce
<1>1. Inv => AppliedOnce
  <2> SUFFICES ASSUME Inv, NEW m \in log, NEW n \in log, m.ref = n.ref
               PROVE  m = n
    BY DEF AppliedOnce
  <2>1. m \in Mutation /\ n \in Mutation
    BY DEF Inv, TypeOK
  <2>2. m.event = n.event /\ m.before.tag = n.before.tag
        /\ m.before.shape = n.before.shape /\ m.before.by = n.before.by
    BY DEF Inv, AppliedAsPreviewed
  <2>3. m.before = n.before
    BY <2>1, <2>2 DEF Mutation, Record
  <2>4. m.tag = n.tag
    BY <2>2 DEF Inv, Logged
  <2> QED BY <2>1, <2>2, <2>3, <2>4 DEF Mutation
<1> QED BY <1>1, Invariant, PTL

(* A series is changed only by requests for the series, and only live       *)
(* events of consistent identity are.                                       *)
THEOREM ScopeIsKept == Spec => []ScopeExact
<1>1. Inv => ScopeExact
  <2> SUFFICES ASSUME Inv, NEW m \in log
               PROVE  /\ m.before.shape.kind = "series" <=> asked[m.ref].scope = "series"
                      /\ m.before.shape.live
                      /\ m.before.shape.linked <=> m.before.shape.kind \in Parts
    BY DEF ScopeExact
  <2>1. m.ref \in Ref /\ asked[m.ref] # None /\ Fits(m.ref)
    BY DEF Inv, TypeOK, Mutation, Logged
  <2>2. preview[m.ref] # None /\ m.before.shape = preview[m.ref].shape
    BY <2>1 DEF Inv, FromPreview, AppliedAsPreviewed
  <2>3. SnapshotValid(preview[m.ref])
    BY <2>1, <2>2 DEF Inv, Current
  <2> QED BY <2>1, <2>2, <2>3 DEF Fits, SnapshotValid
<1> QED BY <1>1, Invariant, PTL

(* Both bounds of an event were written together.                           *)
THEOREM BoundsStayTogether == Spec => []BoundsTogether
<1>1. Inv => BoundsTogether
  BY DEF Inv
<1> QED BY <1>1, Invariant, PTL

(* A kept receipt is of a mutation the vendor made for that request.        *)
THEOREM ReceiptsAreOwn == Spec => []ReceiptOwn
<1>1. Inv => ReceiptOwn
  BY DEF Inv
<1> QED BY <1>1, Invariant, PTL
-----------------------------------------------------------------------------
(* A request and its own write.                                             *)

AnswersTo(r) == {result \in results : result.ref = r}

OneAnswer == \A m \in log : m \in log' /\ AnswersTo(m.ref)' = AnswersTo(m.ref)

\* The versions that mutations produced are in the past, or current.
WrittenBefore ==
  \A m \in log :
    LET u == asked[m.ref] IN
    /\ ValidVersion(u.expected)
    /\ u.expected < record[u.event].tag

WInv == Inv /\ WrittenBefore

\* An event's version never goes back.
LEMMA TagsGrow ==
  ASSUME Inv, Next, NEW x \in Event
  PROVE  record[x].tag \in Nat /\ record'[x].tag \in Nat
         /\ record[x].tag <= record'[x].tag
<1>1. /\ record \in [Event -> Record] /\ record' \in [Event -> Record]
  BY StepInv DEF Inv, TypeOK
<1>2. record[x].tag \in Nat /\ record'[x].tag \in Nat
  BY <1>1 DEF Record
<1>3. ASSUME NEW e \in Event, OwnerEdit(e)
      PROVE  record'[x].tag \in {record[x].tag, record[x].tag + 1}
  BY <1>1, <1>3 DEF OwnerEdit
<1>4. ASSUME NEW w \in Worker, Apply(w)
      PROVE  record'[x].tag \in {record[x].tag, record[x].tag + 1}
  <2> DEFINE r == worker[w].ref
             e == asked[r].event
             by == [f \in Field |-> IF f \in asked[r].changes THEN r
                                                             ELSE record[e].by[f]]
             new == [record[e] EXCEPT !.by = by, !.tag = record[e].tag + 1]
  <2>1. record' = [record EXCEPT ![e] = new]
    BY <1>1, <1>4 DEF Apply, Record
  <2>2. record[x] \in Record
    BY <1>1
  <2>3. record[e] \in Record => new.tag = record[e].tag + 1
    BY DEF Record
  <2> HIDE DEF new, e
  <2>4. CASE x = e
    BY <1>1, <2>1, <2>2, <2>4, <2>3
  <2>5. CASE x # e
    BY <1>1, <2>1, <2>5
  <2> QED BY <2>4, <2>5
<1>5. CASE UNCHANGED record
  BY <1>2, <1>5
<1>6. UNCHANGED record \/ (\E e \in Event : OwnerEdit(e)) \/ \E w \in Worker : Apply(w)
  BY DEF Next, Inspect, Ask, Accept, Check, Abandon, Deliver
<1> QED BY <1>2, <1>3, <1>4, <1>5, <1>6

\* A request, once made out, stays what it is.
LEMMA AskedStays ==
  ASSUME Next, NEW r \in Ref, asked[r] # None, Inv
  PROVE  asked'[r] = asked[r]
<1>1. asked \in [Ref -> Update \cup {None}]
  BY DEF Inv, TypeOK
<1>2. ASSUME NEW x \in Ref, Ask(x) PROVE asked'[r] = asked[r]
  BY <1>1, <1>2 DEF Ask
<1>3. UNCHANGED asked \/ \E x \in Ref : Ask(x)
  BY DEF Next, OwnerEdit, Inspect, Accept, Check, Apply, Abandon, Deliver
<1> QED BY <1>2, <1>3

\* The vendor's mutations come from Apply alone, each for the current version.
LEMMA AppliedNow ==
  ASSUME Inv, NEW w \in Worker, Apply(w)
  PROVE  LET r == worker[w].ref
             e == asked[r].event
         IN  /\ r \in Ref /\ asked[r] # None /\ e \in Event
             /\ ValidVersion(asked[r].expected)
             /\ asked[r].expected = record[e].tag
             /\ record'[e].tag = record[e].tag + 1
             /\ asked' = asked
             /\ \E m : m.ref = r /\ log' = log \cup {m}
             /\ \E result : result.ref = r /\ results' = results \cup {result}
<1> DEFINE r == worker[w].ref
           e == asked[r].event
<1>1. worker[w] # Idle
  <2>1. worker[w].stage = "checked"
    BY DEF Apply
  <2> QED BY <2>1 DEF Idle
<1>2. r \in Ref /\ asked[r] # None
  BY <1>1 DEF Inv, TypeOK, Passed
<1>3. asked[r] \in Update /\ e \in Event
  BY <1>2 DEF Inv, TypeOK, Update
<1>4. preview[r] # None /\ asked[r].expected = preview[r].version
  BY <1>2 DEF Inv, FromPreview
<1>5. ValidVersion(asked[r].expected)
  BY <1>2, <1>4 DEF Inv, Current, SnapshotValid
<1>6. IfMatch(asked[r].expected, e)
  BY DEF Apply
<1>7. asked[r].expected = record[e].tag
  BY <1>5, <1>6 DEF IfMatch, ValidVersion
<1>8. record'[e].tag = record[e].tag + 1
  <2>1. record \in [Event -> Record]
    BY DEF Inv, TypeOK
  <2>2. PICK by : record' = [record EXCEPT ![e] =
                               [@ EXCEPT !.by = by, !.tag = record[e].tag + 1]]
    BY <1>3, <2>1 DEF Apply, Record
  <2> HIDE DEF e
  <2>3. record[e] \in Record
    BY <1>3, <2>1
  <2> QED BY <1>3, <2>1, <2>2, <2>3 DEF Record
<1>9. asked' = asked
  BY DEF Apply
<1>10. \E m : m.ref = r /\ log' = log \cup {m}
  <2> DEFINE m == [ref |-> r, event |-> e, before |-> record[e],
                   tag |-> record[e].tag + 1]
  <2>1. m.ref = r /\ log' = log \cup {m}
    BY DEF Apply
  <2> QED BY <2>1
<1>11. \E result : result.ref = r /\ results' = results \cup {result}
  <2> DEFINE result == [ref |-> r, event |-> e,
                        version |-> IF record[e].shape.tagged THEN record[e].tag + 1
                                                              ELSE NoTag]
  <2>1. result.ref = r /\ results' = results \cup {result}
    BY DEF Apply
  <2> QED BY <2>1
<1> QED BY <1>2, <1>3, <1>5, <1>7, <1>8, <1>9, <1>10, <1>11

LEMMA ApplyAlone ==
  Next => UNCHANGED <<log, results>> \/ \E w \in Worker : Apply(w)
BY DEF Next, OwnerEdit, Inspect, Ask, Accept, Check, Abandon, Deliver

\* What was written before stays so: requests do not change, versions grow.
LEMMA WrittenStep == WInv /\ [Next]_vars => WInv'
<1> SUFFICES ASSUME WInv, [Next]_vars PROVE WInv'
  OBVIOUS
<1>1. Inv /\ Inv'
  BY StepInv DEF WInv
<1>2. CASE UNCHANGED vars
  BY <1>1, <1>2 DEF WInv, WrittenBefore, ValidVersion, NoTag, vars
<1>3. CASE Next
  <2>1. ASSUME NEW m \in log
        PROVE  /\ ValidVersion(asked'[m.ref].expected)
               /\ asked'[m.ref].expected < record'[asked'[m.ref].event].tag
    <3>1. m.ref \in Ref /\ asked[m.ref] # None
      BY <1>1 DEF Inv, TypeOK, Mutation, Logged
    <3>2. asked'[m.ref] = asked[m.ref]
      BY <1>1, <1>3, <3>1, AskedStays
    <3>3. asked[m.ref].event \in Event /\ asked[m.ref].expected \in Nat
      BY <1>1, <3>1 DEF Inv, TypeOK, Update
    <3>4. /\ record[asked[m.ref].event].tag \in Nat
          /\ record'[asked[m.ref].event].tag \in Nat
          /\ record[asked[m.ref].event].tag <= record'[asked[m.ref].event].tag
      BY <1>1, <1>3, <3>3, TagsGrow
    <3>5. /\ ValidVersion(asked[m.ref].expected)
          /\ asked[m.ref].expected < record[asked[m.ref].event].tag
      BY DEF WInv, WrittenBefore
    <3> QED BY <3>2, <3>3, <3>4, <3>5
  <2>2. ASSUME NEW m \in log', m \notin log
        PROVE  /\ ValidVersion(asked'[m.ref].expected)
               /\ asked'[m.ref].expected < record'[asked'[m.ref].event].tag
    <3>1. PICK w \in Worker : Apply(w)
      BY <1>3, <2>2, ApplyAlone
    <3> DEFINE r == worker[w].ref
    <3>2. /\ r \in Ref /\ asked[r].event \in Event /\ ValidVersion(asked[r].expected)
          /\ asked[r].expected = record[asked[r].event].tag
          /\ record'[asked[r].event].tag = record[asked[r].event].tag + 1
          /\ asked' = asked
          /\ \E n : n.ref = r /\ log' = log \cup {n}
      BY <1>1, <3>1, AppliedNow
    <3>3. m.ref = r
      BY <2>2, <3>2
    <3>4. record[asked[r].event].tag \in Nat
      BY <1>1, <1>3, <3>2, TagsGrow
    <3> HIDE DEF r
    <3> QED BY <3>2, <3>3, <3>4
  <2>3. WrittenBefore'
    BY <2>1, <2>2 DEF WrittenBefore, ValidVersion, NoTag
  <2> QED BY <1>1, <2>3 DEF WInv
<1> QED BY <1>2, <1>3

LEMMA WrittenOutdates == WInv => OutdatedByItself
<1> SUFFICES ASSUME WInv, NEW m \in log PROVE asked[m.ref] # None /\ Outdated(m.ref)
  BY DEF OutdatedByItself
<1> DEFINE u == asked[m.ref]
<1>1. m.ref \in Ref /\ u # None
  BY DEF WInv, Inv, TypeOK, Mutation, Logged
<1>2. u \in Update /\ record[u.event].tag \in Nat /\ u.expected \in Nat
  BY <1>1 DEF WInv, Inv, TypeOK, Update, Record
<1>3. u.expected # NoTag /\ u.expected < record[u.event].tag
  BY DEF WInv, WrittenBefore, ValidVersion
<1>4. ~IfMatch(u.expected, u.event)
  BY <1>2, <1>3 DEF IfMatch
<1>5. ~ValidateAgainst(u, Read(u.event))
  BY <1>2, <1>3 DEF ValidateAgainst, Read
<1> QED BY <1>1, <1>4, <1>5 DEF Outdated

LEMMA WrittenInvariant == Spec => []WInv
<1>1. Init => WInv
  BY InitInv DEF Init, WInv, WrittenBefore
<1> QED BY <1>1, WrittenStep, PTL DEF Spec

(* The other side of OnceOnly (calendarwrite/validation.go:230): a request  *)
(* that was carried out is outdated by its own write and stays so.  Asked   *)
(* again, for want of its answer, it passes no check and no If-Match ever.  *)
THEOREM RefusedByItsOwnWrite == Spec => []OutdatedByItself
BY WrittenOutdates, WrittenInvariant, PTL

(* So the vendor answers a request once: from its mutation on no further    *)
(* result is made for it, and a host that loses the one there is has no     *)
(* delivery to learn from whether the event was changed.                    *)
THEOREM NoSecondAnswer == Spec => [][OneAnswer]_vars
<1>1. WInv /\ [Next]_vars => [OneAnswer]_vars
  <2> SUFFICES ASSUME WInv, Next, NEW m \in log
               PROVE  m \in log' /\ AnswersTo(m.ref)' = AnswersTo(m.ref)
    BY DEF OneAnswer
  <2>1. CASE UNCHANGED <<log, results>>
    BY <2>1 DEF AnswersTo
  <2>2. ASSUME NEW w \in Worker, Apply(w)
        PROVE  m \in log' /\ AnswersTo(m.ref)' = AnswersTo(m.ref)
    <3>1. IfMatch(asked[worker[w].ref].expected, asked[worker[w].ref].event)
      BY <2>2 DEF Apply
    <3>2. worker[w].ref # m.ref
      BY <3>1, WrittenOutdates DEF OutdatedByItself, Outdated
    <3>3. /\ \E n : n.ref = worker[w].ref /\ log' = log \cup {n}
          /\ \E result : result.ref = worker[w].ref
                         /\ results' = results \cup {result}
      BY <2>2, AppliedNow DEF WInv
    <3> QED BY <3>2, <3>3 DEF AnswersTo
  <2> QED BY <2>1, <2>2, ApplyAlone
<1> QED BY <1>1, WrittenInvariant, PTL DEF Spec
-----------------------------------------------------------------------------
(* An update implements the operation of OnceOnly, as far as it goes.       *)

CarriedOut(r) == \E m \in log : m.ref = r

\* A request is never refused for good, and nothing undoes it.
Fate(r, x) == IF x = "do" /\ CarriedOut(r) THEN "accepted" ELSE "open"
Told(r, x) == IF x = "do" /\ receipt[r] # None THEN "accepted" ELSE "open"

Once(r) == INSTANCE OnceOnly WITH fate <- [x \in {"do", "undo"} |-> Fate(r, x)],
                                  told <- [x \in {"do", "undo"} |-> Told(r, x)],
                                  excused <- {}

LEMMA OnceInit ==
  ASSUME Init, NEW r \in Ref
  PROVE  Once(r)!Init
BY DEF Init, Once!Init, Fate, Told, CarriedOut

\* The write decides the one fate and leaves what the host knows; a receipt
\* tells that fate; no other step is seen.
LEMMA OnceStep ==
  ASSUME Inv, Inv', [Next]_vars, NEW r \in Ref
  PROVE  [Once(r)!Next]_(Once(r)!vars)
<1> DEFINE fate == [x \in {"do", "undo"} |-> Fate(r, x)]
           told == [x \in {"do", "undo"} |-> Told(r, x)]
<1>1. CASE CarriedOut(r)' = CarriedOut(r) /\ UNCHANGED receipt[r]
  <2>1. fate' = fate /\ told' = told
    BY <1>1 DEF Fate, Told
  <2> QED BY <2>1 DEF Once!vars
<1>2. ASSUME NEW w \in Worker, Apply(w), ~CarriedOut(r), CarriedOut(r)'
      PROVE  Once(r)!Next
  <2>1. receipt'[r] = receipt[r]
    BY <1>2 DEF Apply
  <2>2. fate' = [fate EXCEPT !["do"] = "accepted"] /\ told' = told
    BY <1>2, <2>1 DEF Fate, Told
  <2>3. fate["do"] = "open"
    BY <1>2 DEF Fate
  <2>4. Once(r)!Decide("do")
    BY <2>2, <2>3 DEF Once!Decide
  <2> QED BY <2>4 DEF Once!Next
<1>3. ASSUME Accept(r), receipt'[r] # receipt[r]
      PROVE  Once(r)!Next
  <2>1. receipt[r] = None /\ log' = log
    BY <1>3 DEF Accept
  <2>2. receipt'[r] # None /\ CarriedOut(r)
    BY <1>3, <2>1 DEF Inv, ReceiptOwn, CarriedOut
  <2>3. told["do"] = "open" /\ fate["do"] = "accepted"
    BY <2>1, <2>2 DEF Told, Fate
  <2>4. fate' = fate
    BY <2>1 DEF Fate, CarriedOut
  <2>5. told' = [told EXCEPT !["do"] = fate["do"]]
    BY <2>1, <2>2, <2>3 DEF Told
  <2>6. Once(r)!Learn("do")
    BY <2>3, <2>4, <2>5 DEF Once!Learn
  <2> QED BY <2>6 DEF Once!Next
<1>4. CASE UNCHANGED vars
  BY <1>1, <1>4 DEF vars, CarriedOut
<1>5. ASSUME NEW x \in Ref \ {r}, Accept(x)
      PROVE  receipt'[r] = receipt[r] /\ log' = log
  BY <1>5 DEF Accept, Inv, TypeOK
<1>6. \A w \in Worker : Apply(w) => receipt'[r] = receipt[r] /\ log \subseteq log'
  BY DEF Apply
<1>7. CASE Next
  <2>1. \/ UNCHANGED <<log, receipt>>
        \/ \E w \in Worker : Apply(w)
        \/ \E x \in Ref : Accept(x)
    BY <1>7 DEF Next, OwnerEdit, Inspect, Ask, Check, Abandon, Deliver
  <2>2. CASE UNCHANGED <<log, receipt>>
    BY <1>1, <2>2 DEF CarriedOut
  <2>3. CASE \E w \in Worker : Apply(w)
    <3>1. CarriedOut(r) => CarriedOut(r)'
      BY <1>6, <2>3 DEF CarriedOut
    <3> QED BY <1>1, <1>2, <1>6, <2>3, <3>1 DEF CarriedOut
  <2>4. CASE \E x \in Ref : Accept(x)
    <3>1. log' = log
      BY <2>4 DEF Accept
    <3> QED BY <1>1, <1>3, <1>5, <2>4, <3>1 DEF CarriedOut
  <2> QED BY <2>1, <2>2, <2>3, <2>4
<1> QED BY <1>4, <1>7

(* What OnceOnly promises of an operation holds of every update: it takes   *)
(* effect once or not at all, and its host learns that and nothing else.    *)
THEOREM UpdatesOnce == \A r \in Ref : Spec => Once(r)!Spec
<1> SUFFICES ASSUME NEW r \in Ref PROVE Spec => Once(r)!Spec
  OBVIOUS
<1>1. Init => Once(r)!Init
  BY OnceInit
<1>2. Inv /\ Inv' /\ [Next]_vars => [Once(r)!Next]_(Once(r)!vars)
  BY OnceStep
<1> QED BY <1>1, <1>2, Invariant, PTL DEF Spec, Once!Spec
=============================================================================
