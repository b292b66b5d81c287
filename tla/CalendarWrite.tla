---------------------------- MODULE CalendarWrite ----------------------------
(***************************************************************************)
(* Updates of calendar events (src/calendarwrite).  A client previews an   *)
(* event, asks for a patch of the version it saw, and a provider carries   *)
(* the request out: it reads the event afresh, checks the request against  *)
(* that (UpdateRequest.ValidateAgainst) and writes with the vendor's       *)
(* If-Match.  Meanwhile the owner edits events in the vendor's own         *)
(* calendar, the host may hand one request to several workers, and workers *)
(* and answers get lost.                                                   *)
(*                                                                         *)
(* Of an event's content only who wrote which field is kept.  Times,       *)
(* texts, attendees and links, which the code checks one by one, are left  *)
(* out, and so is creating an event, which no state guards.                *)
(***************************************************************************)
EXTENDS Naturals, FiniteSets

CONSTANTS
  Event,    \* event identifiers of one calendar
  Ref,      \* update requests, by RequestRef
  Worker,   \* workers that carry requests out
  Field,    \* fields of an event: "start", "end" and others
  Patches,  \* the sets of fields clients ask to change
  Shapes,   \* what the owner may make of an event
  MaxTag,   \* bound: versions of one event
  Owner,    \* the writer of a field that no request wrote
  None      \* no preview, no request, no receipt

Kinds  == {"single", "series", "occurrence", "exception"}
Parts  == {"occurrence", "exception"}
Scopes == {"event", "series"}

\* Not one entity tag: absent, a list, or the wildcard.
NoTag == 0

\* linked: it names a series and an original start (one without the other is
\* refused for every kind); live: confirmed or tentative; tagged: the provider
\* gets an entity tag for it.
Shape == [kind : Kinds, linked : BOOLEAN, live : BOOLEAN, tagged : BOOLEAN]

ASSUME Sorts ==
  /\ {"start", "end"} \subseteq Field
  /\ Patches \subseteq SUBSET Field
  /\ Shapes \subseteq Shape
  /\ MaxTag \in Nat \ {0}
  /\ Owner \notin Ref
  /\ None \notin [event : Event, shape : Shape, by : [Field -> Ref \cup {Owner}],
                  version : Nat]

Record   == [shape : Shape, by : [Field -> Ref \cup {Owner}], tag : 1 .. MaxTag]
Snapshot == [event : Event, shape : Shape, by : [Field -> Ref \cup {Owner}],
             version : 1 .. MaxTag]
Update   == [event : Event, expected : 1 .. MaxTag, scope : Scopes,
             changes : SUBSET Field]
Result   == [ref : Ref, event : Event, version : 0 .. MaxTag]

VARIABLES
  record,   \* record[e]: the event at the vendor
  preview,  \* preview[r]: the snapshot the client of r decided on
  asked,    \* asked[r]: the UpdateRequest made of it
  worker,   \* worker[w]: the request w is at, and how far
  log,      \* the mutations the vendor made, with what they were made to
  results,  \* the results under way to the host
  receipt   \* receipt[r]: the result the host keeps for r

vars == <<record, preview, asked, worker, log, results, receipt>>

Idle == [ref |-> None, stage |-> "idle"]

Init ==
  /\ record \in [Event -> {[shape |-> s, by |-> [f \in Field |-> Owner], tag |-> 1] :
                             s \in Shapes}]
  /\ preview = [r \in Ref |-> None]
  /\ asked = [r \in Ref |-> None]
  /\ worker = [w \in Worker |-> Idle]
  /\ log = {}
  /\ results = {}
  /\ receipt = [r \in Ref |-> None]

-----------------------------------------------------------------------------
(* The vendor's calendar and its owner. *)

\* The owner replaces the content or leaves it; the version moves on.
OwnerEdit(e) ==
  /\ record[e].tag < MaxTag
  /\ \E s \in Shapes, by \in {record[e].by, [f \in Field |-> Owner]} :
       record' = [record EXCEPT ![e] =
                    [shape |-> s, by |-> by, tag |-> record[e].tag + 1]]
  /\ UNCHANGED <<preview, asked, worker, log, results, receipt>>

\* What a provider reads of event e; without an entity tag of its own it has
\* no version to give.
Read(e) ==
  [event |-> e, shape |-> record[e].shape, by |-> record[e].by,
   version |-> IF record[e].shape.tagged THEN record[e].tag ELSE NoTag]

\* Mutant: the write does not carry If-Match.
IfMatchMissing(expected, e) == TRUE

\* A wildcard matches any version.
IfMatch(expected, e) == expected \in {NoTag, record[e].tag}

-----------------------------------------------------------------------------
(* The checks of the contract. *)

\* Mutant: a wildcard passes for a version.
AnyVersion(version) == TRUE

ValidVersion(version) == version # NoTag

\* The snapshot identifies a live event and says what it is part of.
SnapshotValid(s) ==
  /\ ValidVersion(s.version)
  /\ s.shape.live
  /\ s.shape.linked <=> s.shape.kind \in Parts

\* Mutant: one time bound may be changed without the other.
PatchNotEmpty(changes) == changes # {}

PatchValid(changes) ==
  /\ changes # {}
  /\ "start" \in changes <=> "end" \in changes

UpdateValid(u) == ValidVersion(u.expected) /\ PatchValid(u.changes)

\* Mutant: the scope is not compared with the event.
ValidateVersion(u, s) ==
  /\ UpdateValid(u)
  /\ SnapshotValid(s)
  /\ s.event = u.event
  /\ u.expected = s.version

\* Mutant: the version is not compared.
ValidateScope(u, s) ==
  /\ UpdateValid(u)
  /\ SnapshotValid(s)
  /\ s.event = u.event
  /\ s.shape.kind = "series" <=> u.scope = "series"

ValidateAgainst(u, s) ==
  /\ UpdateValid(u)
  /\ SnapshotValid(s)
  /\ s.event = u.event
  /\ u.expected = s.version
  /\ s.shape.kind = "series" <=> u.scope = "series"

\* Mutant: the receipt of another request is taken.
ResultForEvent(result, r) ==
  /\ result.event = asked[r].event
  /\ ValidVersion(result.version)

ResultValid(result, r) ==
  /\ result.ref = r
  /\ result.event = asked[r].event
  /\ ValidVersion(result.version)

-----------------------------------------------------------------------------
(* One request. *)

Inspect(r) ==
  /\ asked[r] = None
  /\ \E e \in Event :
       /\ SnapshotValid(Read(e))
       /\ preview' = [preview EXCEPT ![r] = Read(e)]
  /\ UNCHANGED <<record, asked, worker, log, results, receipt>>

\* The client asks for the version of its preview; scope and changes are its
\* own.
Ask(r) ==
  /\ preview[r] # None
  /\ asked[r] = None
  /\ \E scope \in Scopes, changes \in Patches :
       asked' = [asked EXCEPT ![r] =
                   [event |-> preview[r].event, expected |-> preview[r].version,
                    scope |-> scope, changes |-> changes]]
  /\ UNCHANGED <<record, preview, worker, log, results, receipt>>

\* The host hands the request to a worker, again when it has no receipt.
Deliver(w, r) ==
  /\ worker[w] = Idle
  /\ asked[r] # None
  /\ receipt[r] = None
  /\ worker' = [worker EXCEPT ![w] = [ref |-> r, stage |-> "sent"]]
  /\ UNCHANGED <<record, preview, asked, log, results, receipt>>

\* The provider reads the event and checks the request against it.
Check(w) ==
  /\ worker[w].stage = "sent"
  /\ LET u == asked[worker[w].ref] IN
       worker' = [worker EXCEPT ![w] =
         IF ValidateAgainst(u, Read(u.event)) THEN [@ EXCEPT !.stage = "checked"]
                                              ELSE Idle]
  /\ UNCHANGED <<record, preview, asked, log, results, receipt>>

\* The vendor takes the patch of the version it is for, and the provider
\* reports it.
Apply(w) ==
  /\ worker[w].stage = "checked"
  /\ LET r == worker[w].ref
         u == asked[r]
         e == u.event
     IN  /\ IfMatch(u.expected, e)
         /\ record[e].tag < MaxTag
         /\ record' = [record EXCEPT
              ![e].by = [f \in Field |-> IF f \in u.changes THEN r ELSE @[f]],
              ![e].tag = @ + 1]
         /\ log' = log \cup {[ref |-> r, event |-> e, before |-> record[e],
                              tag |-> record[e].tag + 1]}
         /\ results' = results \cup
              {[ref |-> r, event |-> e,
                version |-> IF record[e].shape.tagged THEN record[e].tag + 1
                                                      ELSE NoTag]}
  /\ worker' = [worker EXCEPT ![w] = Idle]
  /\ UNCHANGED <<preview, asked, receipt>>

\* The vendor refuses a version that is not current, or the worker dies.
Abandon(w) ==
  /\ worker[w] # Idle
  /\ worker' = [worker EXCEPT ![w] = Idle]
  /\ UNCHANGED <<record, preview, asked, log, results, receipt>>

\* The host keeps a result that validates against its request; results may
\* come late, more than once or never.
Accept(r) ==
  /\ asked[r] # None
  /\ receipt[r] = None
  /\ \E result \in results :
       /\ ResultValid(result, r)
       /\ receipt' = [receipt EXCEPT ![r] = result]
  /\ UNCHANGED <<record, preview, asked, worker, log, results>>

Next ==
  \/ \E e \in Event : OwnerEdit(e)
  \/ \E r \in Ref : Inspect(r) \/ Ask(r) \/ Accept(r)
  \/ \E w \in Worker : Check(w) \/ Apply(w) \/ Abandon(w)
  \/ \E w \in Worker, r \in Ref : Deliver(w, r)

Spec == Init /\ [][Next]_vars

-----------------------------------------------------------------------------
Mutation == [ref : Ref, event : Event, before : Record, tag : 1 .. MaxTag]

TypeOK ==
  /\ record \in [Event -> Record]
  /\ preview \in [Ref -> Snapshot \cup {None}]
  /\ asked \in [Ref -> Update \cup {None}]
  /\ worker \in [Worker -> [ref : Ref, stage : {"sent", "checked"}] \cup {Idle}]
  /\ log \subseteq Mutation
  /\ results \subseteq Result
  /\ receipt \in [Ref -> Result \cup {None}]

(* Nothing is changed that the client did not see: each mutation was made   *)
(* to the very version, content included, that its preview showed, however  *)
(* the owner's edits and other requests fell between preview, check and     *)
(* write.                                                                   *)
AppliedAsPreviewed ==
  \A m \in log :
    LET p == preview[m.ref] IN
    /\ m.event = p.event
    /\ m.before.tag = p.version
    /\ m.before.shape = p.shape /\ m.before.by = p.by

(* No request is carried out twice, though it is delivered again while an   *)
(* earlier delivery is under way or after its answer was lost.              *)
AppliedOnce == \A m, n \in log : m.ref = n.ref => m = n

\* No version the vendor holds is the one r asks for.
Outdated(r) ==
  /\ ~ValidateAgainst(asked[r], Read(asked[r].event))
  /\ ~IfMatch(asked[r].expected, asked[r].event)

(* The price of that (validation.go:230): a request that was carried out is *)
(* outdated by its own write.  Delivered again because its result was lost, *)
(* it passes neither the check nor If-Match, whatever the owner and other   *)
(* requests make of the event since: the host sees a refusal for ever and   *)
(* must not read it as "not done".                                          *)
OutdatedByItself == \A m \in log : asked[m.ref] # None /\ Outdated(m.ref)

(* What was changed is what the scope says: a series only if the client     *)
(* asked for the series, and a live event of consistent identity.           *)
ScopeExact ==
  \A m \in log :
    /\ m.before.shape.kind = "series" <=> asked[m.ref].scope = "series"
    /\ m.before.shape.live
    /\ m.before.shape.linked <=> m.before.shape.kind \in Parts

(* The two time bounds of an event were written together: no patch pairs a  *)
(* new start with an end that someone else chose.                           *)
BoundsTogether == \A e \in Event : record[e].by["start"] = record[e].by["end"]

(* A receipt is the request's own: it names the mutation the vendor made    *)
(* for it and the version that mutation produced.                           *)
ReceiptOwn ==
  \A r \in Ref : receipt[r] # None =>
    \E m \in log :
      m.ref = r /\ m.event = receipt[r].event /\ m.tag = receipt[r].version
=============================================================================
