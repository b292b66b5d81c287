------------------------------ MODULE MailProofs ------------------------------
(***************************************************************************)
(* Theorems about mail, for any mailbox, clients and requests.  While the  *)
(* provider is honest a walk has got all rows before its cursor; a checked *)
(* reply fits a version of its original that is still on record; only a    *)
(* mail that was sent, or is by a hasty worker, has a result that says it  *)
(* was accepted.                                                           *)
(***************************************************************************)
EXTENDS MailWrite, FiniteSetTheorems, SequenceTheorems, TLAPS

WalkInv ==
  /\ walk.at \in 0 .. Len(Listing)
  /\ walk.got \subseteq Id
  /\ walk.honest \in BOOLEAN
  /\ walk.stage \in {"going", "complete", "limited"}
  /\ walk.honest => \A i \in 1 .. walk.at : Listing[i] \in walk.got
  /\ walk.honest /\ walk.stage = "complete" => \A i \in DOMAIN Listing : Listing[i] \in walk.got

Request == [original : Id \cup {None}, message : Message]

RequestInv ==
  /\ mailbox \in [Id -> Seq(Original)]
  /\ \A m \in Id : mailbox[m] # <<>>
  /\ asked \in [Ref -> Request \cup {None}]
  /\ stage \in [Ref -> {"new", "checked", "over"}]
  /\ readAt \in [Ref -> Nat]
  /\ sent \subseteq Ref

\* What a reply is checked for, of the version it was checked against.
Fits(r) ==
  LET m == asked[r].original
      o == mailbox[m][readAt[r]] IN
  /\ readAt[r] \in 1 .. Len(mailbox[m])
  /\ o.draft = "no"
  /\ replySubject(o.subject) = replySubject(asked[r].message.subject)
  /\ Targets(o) # {}
  /\ \A a \in Targets(o) : Reaches(asked[r].message.to, a)

ReplyInv ==
  \A r \in Ref : (stage[r] = "checked" \/ r \in sent) =>
    asked[r] # None /\ (asked[r].original # None => Fits(r))

ResultInv ==
  /\ results \subseteq Result
  /\ \A result \in results : result.status = "accepted" => result.ref \in sent \cup hasty
  /\ hasty \subseteq Ref
  /\ receipt \in [Ref -> Result \cup {None}]
  /\ \A r \in Ref : receipt[r] # None => asked[r] # None

IInv == WalkInv /\ RequestInv /\ ReplyInv /\ ResultInv

-----------------------------------------------------------------------------
(* The walk. *)

\* A page that validates holds its rows, each once.
LEMMA PageRows ==
  ASSUME NEW from \in Nat, NEW n \in Nat, NEW p \in Pages(from, n), NEW limit,
         PageValid(p, limit)
  PROVE  DOMAIN p.items = 1 .. n /\ \A i \in 1 .. n : p.items[i].id = Listing[from + i]
<1> DEFINE S == UNION {Summaries(m) : m \in Id}
           rows == {s \in [1 .. n -> S] : \A i \in 1 .. n : s[i].id = Listing[from + i]}
<1>1. p.items \in rows \cup {Append(s, s[n]) : s \in {t \in rows : n > 0}}
  BY DEF Pages, Items
<1>2. p.items \in rows
  <2> SUFFICES ASSUME NEW s \in rows, n > 0, p.items = Append(s, s[n]) PROVE FALSE
    BY <1>1
  <2> HIDE DEF S
  <2>1. s \in Seq(S) /\ Len(s) = n
    OBVIOUS
  <2>2. Len(p.items) = n + 1 /\ p.items[n] = s[n] /\ p.items[n + 1] = s[n]
    BY <2>1, AppendProperties
  <2>3. n + 1 \in DOMAIN p.items /\ n \in 1 .. (n + 1) - 1
    BY <2>1, AppendProperties
  <2> QED BY <2>2, <2>3 DEF PageValid
<1> QED BY <1>2

\* A page that is taken adds its rows; if it begins where the last one ended
\* or before, nothing is missing up to where it ends.
LEMMA ListInv == ASSUME WalkInv, List PROVE WalkInv'
<1>0. PICK limit \in Limits, from \in 0 .. Len(Listing) :
        \E k \in 0 .. Len(Listing) - from : \E q \in Pages(from, k) :
          /\ PageValid(q, PageSize(limit))
          /\ walk' = [at |-> IF q.next THEN from + k ELSE 0,
                      got |-> walk.got \cup {q.items[i].id : i \in DOMAIN q.items},
                      honest |-> walk.honest /\ Owed(q, from, k),
                      stage |-> IF q.complete THEN "complete"
                                ELSE IF q.capped THEN "limited" ELSE "going"]
  BY DEF List
<1>1. PICK n \in 0 .. Len(Listing) - from : \E q \in Pages(from, n) :
          /\ PageValid(q, PageSize(limit))
          /\ walk' = [at |-> IF q.next THEN from + n ELSE 0,
                      got |-> walk.got \cup {q.items[i].id : i \in DOMAIN q.items},
                      honest |-> walk.honest /\ Owed(q, from, n),
                      stage |-> IF q.complete THEN "complete"
                                ELSE IF q.capped THEN "limited" ELSE "going"]
  BY <1>0
<1>2. PICK p \in Pages(from, n) :
          /\ PageValid(p, PageSize(limit))
          /\ walk' = [at |-> IF p.next THEN from + n ELSE 0,
                      got |-> walk.got \cup {p.items[i].id : i \in DOMAIN p.items},
                      honest |-> walk.honest /\ Owed(p, from, n),
                      stage |-> IF p.complete THEN "complete"
                                ELSE IF p.capped THEN "limited" ELSE "going"]
  BY <1>1
<1>3. /\ Len(Listing) \in Nat /\ from \in Nat /\ n \in Nat /\ from + n <= Len(Listing)
      /\ walk.at \in Nat /\ DOMAIN Listing = 1 .. Len(Listing)
  BY MailboxSorts DEF WalkInv
<1>4. DOMAIN p.items = 1 .. n /\ \A i \in 1 .. n : p.items[i].id = Listing[from + i]
  BY <1>2, <1>3, PageRows
<1>5. walk'.got = walk.got \cup {Listing[from + i] : i \in 1 .. n}
  BY <1>2, <1>4
<1>6. walk'.got \subseteq Id
  <2>1. \A i \in 1 .. n : from + i \in DOMAIN Listing
    BY <1>3
  <2> QED BY <1>5, <2>1 DEF WalkInv, Id
<1>7. /\ walk'.at \in 0 .. Len(Listing) /\ walk'.at <= from + n
      /\ walk'.honest = (walk.honest /\ Owed(p, from, n))
      /\ walk'.stage \in {"going", "complete", "limited"}
      /\ walk'.stage = "complete" => p.complete
  BY <1>2, <1>3
<1>8. walk'.honest => \A i \in 1 .. from + n : Listing[i] \in walk'.got
  <2> SUFFICES ASSUME walk'.honest, NEW i \in 1 .. from + n PROVE Listing[i] \in walk'.got
    OBVIOUS
  <2>1. walk.honest /\ from <= walk.at
    BY <1>7 DEF Owed
  <2>2. CASE i <= from
    <3>1. i \in 1 .. walk.at
      BY <1>3, <2>1, <2>2
    <3>2. Listing[i] \in walk.got
      BY <2>1, <3>1 DEF WalkInv
    <3> QED BY <1>5, <3>2
  <2>3. CASE i > from
    <3>1. i - from \in 1 .. n /\ from + (i - from) = i
      BY <1>3, <2>3
    <3> QED BY <1>5, <3>1
  <2> QED BY <1>3, <2>2, <2>3
<1>9. ~(from + n < Len(Listing)) => from + n = Len(Listing)
  <2>1. \A k, l \in Nat : k <= l /\ ~(k < l) => k = l
    OBVIOUS
  <2>2. from + n \in Nat /\ Len(Listing) \in Nat /\ from + n <= Len(Listing)
    BY <1>3
  <2> QED BY <2>1, <2>2, Zenon
<1>10. walk'.honest /\ walk'.stage = "complete" => from + n = Len(Listing)
  <2> SUFFICES ASSUME walk'.honest, walk'.stage = "complete" PROVE from + n = Len(Listing)
    OBVIOUS
  <2>1. Owed(p, from, n) /\ p.complete
    BY <1>7
  <2>2. ~p.next /\ ~p.capped
    BY <1>2, <2>1 DEF PageValid
  <2>3. ~(from + n < Len(Listing))
    BY <2>1, <2>2 DEF Owed
  <2> QED BY <1>9, <2>3
<1>11. walk'.honest \in BOOLEAN
  BY <1>7 DEF WalkInv
<1>12. walk'.honest => \A i \in 1 .. walk'.at : Listing[i] \in walk'.got
  BY <1>3, <1>7, <1>8
<1>13. walk'.honest /\ walk'.stage = "complete" =>
         \A i \in DOMAIN Listing : Listing[i] \in walk'.got
  BY <1>3, <1>8, <1>10
<1> QED BY <1>6, <1>7, <1>11, <1>12, <1>13 DEF WalkInv

-----------------------------------------------------------------------------
(* Requests. *)

\* Contents are added to a message and never taken back.
LEMMA EditKeeps ==
  ASSUME RequestInv, NEW m \in Id, OwnerEdits(m)
  PROVE  /\ mailbox' \in [Id -> Seq(Original)]
         /\ \A n \in Id : /\ Len(mailbox'[n]) \in Nat /\ Len(mailbox[n]) <= Len(mailbox'[n])
                          /\ mailbox'[n] # <<>>
                          /\ \A i \in 1 .. Len(mailbox[n]) : mailbox'[n][i] = mailbox[n][i]
<1>1. PICK o \in Originals : mailbox' = [mailbox EXCEPT ![m] = Append(@, o)]
  BY DEF OwnerEdits
<1>2. mailbox[m] \in Seq(Original) /\ o \in Original /\ mailbox \in [Id -> Seq(Original)]
  BY MailboxSorts DEF RequestInv
<1>3. /\ Append(mailbox[m], o) \in Seq(Original) /\ Append(mailbox[m], o) # <<>>
      /\ Len(Append(mailbox[m], o)) = Len(mailbox[m]) + 1
      /\ \A i \in 1 .. Len(mailbox[m]) : Append(mailbox[m], o)[i] = mailbox[m][i]
  BY <1>2, AppendProperties
<1>4. mailbox'[m] = Append(mailbox[m], o) /\ \A n \in Id \ {m} : mailbox'[n] = mailbox[n]
  BY <1>1, <1>2
<1>5. \A n \in Id : mailbox[n] # <<>> /\ Len(mailbox[n]) \in Nat
  BY <1>2, LenProperties DEF RequestInv
<1>6. mailbox' \in [Id -> Seq(Original)]
  BY <1>1, <1>2, <1>3
<1> HIDE DEF RequestInv
<1> QED BY <1>3, <1>4, <1>5, <1>6

\* The current content of a message is the last one on record.
LEMMA CurrentOf ==
  ASSUME RequestInv, NEW m \in Id
  PROVE  Len(mailbox[m]) \in 1 .. Len(mailbox[m])
<1>1. mailbox[m] \in Seq(Original) /\ mailbox[m] # <<>>
  BY DEF RequestInv
<1>2. Len(mailbox[m]) \in Nat /\ Len(mailbox[m]) # 0
  BY <1>1, EmptySeq, LenProperties
<1> QED BY <1>2

\* A summary that is complete is the original.
LEMMA CheckedFits ==
  ASSUME RequestInv, NEW r \in Ref, NEW s, asked[r].original \in Id,
         s \in Summaries(asked[r].original), ValidateAgainst(asked[r], s),
         readAt'[r] = Len(mailbox[asked[r].original]), UNCHANGED <<mailbox, asked>>
  PROVE  Fits(r)'
<1> DEFINE m == asked[r].original
           o == Current(m)
<1>1. /\ s.complete => s.from = o.from /\ s.replyTo = o.replyTo
      /\ s.subject = o.subject /\ s.draft = o.draft
  <2>1. PICK f \in Reported(o.from), t \in Reported(o.replyTo) :
          s \in {[id |-> m, subject |-> o.subject, from |-> f, replyTo |-> t,
                  draft |-> o.draft, complete |-> c] :
                   c \in {FALSE, f = o.from /\ t = o.replyTo}}
    BY DEF Summaries
  <2>2. PICK c \in {FALSE, f = o.from /\ t = o.replyTo} :
          s = [id |-> m, subject |-> o.subject, from |-> f, replyTo |-> t,
               draft |-> o.draft, complete |-> c]
    BY <2>1
  <2>3. /\ s.subject = o.subject /\ s.draft = o.draft
        /\ s.from = f /\ s.replyTo = t /\ s.complete = c
    BY <2>2
  <2>4. c => f = o.from /\ t = o.replyTo
    OBVIOUS
  <2> QED BY <2>3, <2>4
<1>2. /\ s.complete /\ s.draft = "no"
      /\ replySubject(asked[r].message.subject) = replySubject(s.subject)
      /\ Targets(s) # {} /\ \A a \in Targets(s) : Reaches(asked[r].message.to, a)
  BY DEF ValidateAgainst
<1>3. Targets(s) = Targets(o)
  BY <1>1, <1>2 DEF Targets
<1>4. mailbox'[asked'[r].original][readAt'[r]] = o /\ asked'[r] = asked[r]
  BY DEF Current
<1>5. readAt'[r] \in 1 .. Len(mailbox'[asked'[r].original])
  BY CurrentOf
<1> HIDE DEF o
<1>6. /\ o.draft = "no" /\ replySubject(o.subject) = replySubject(asked[r].message.subject)
      /\ Targets(o) # {} /\ \A a \in Targets(o) : Reaches(asked[r].message.to, a)
  BY <1>1, <1>2, <1>3
<1> QED BY <1>4, <1>5, <1>6 DEF Fits

\* A reply fits as long as its original stays on record.
LEMMA FitsFrame ==
  ASSUME NEW r \in Ref, Fits(r), asked'[r] = asked[r], readAt'[r] = readAt[r],
         UNCHANGED mailbox
  PROVE  Fits(r)'
BY DEF Fits

-----------------------------------------------------------------------------
(* The invariant. *)

LEMMA InitInv == Init => IInv
<1> SUFFICES ASSUME Init PROVE IInv
  OBVIOUS
<1> USE DEF Init, MailInit
<1>1. WalkInv
  <2>1. Len(Listing) \in Nat
    BY MailboxSorts
  <2> QED BY <2>1 DEF WalkInv
<1>2. RequestInv
  <2>1. \A o \in Originals : <<o>> \in Seq(Original) /\ <<o>> # <<>>
    BY MailboxSorts
  <2>2. \A m \in Id : mailbox[m] \in Seq(Original) /\ mailbox[m] # <<>>
    BY <2>1
  <2>3. mailbox \in [Id -> Seq(Original)]
    BY <2>2
  <2> QED BY <2>2, <2>3 DEF RequestInv
<1>3. ReplyInv /\ ResultInv
  BY DEF ReplyInv, ResultInv
<1> QED BY <1>1, <1>2, <1>3 DEF IInv

LEMMA EditInv == ASSUME IInv, NEW m \in Id, OwnerEdits(m), UNCHANGED writeVars PROVE IInv'
<1>1. /\ mailbox' \in [Id -> Seq(Original)]
      /\ \A n \in Id : /\ Len(mailbox'[n]) \in Nat /\ Len(mailbox[n]) <= Len(mailbox'[n])
                       /\ mailbox'[n] # <<>>
                       /\ \A i \in 1 .. Len(mailbox[n]) : mailbox'[n][i] = mailbox[n][i]
  BY EditKeeps DEF IInv
<1>2. UNCHANGED <<walk, asked, stage, readAt, sent, results, hasty, receipt>>
  BY DEF OwnerEdits, writeVars
<1>3. WalkInv' /\ RequestInv' /\ ResultInv'
  BY <1>1, <1>2 DEF IInv, WalkInv, RequestInv, ResultInv
<1>4. ReplyInv'
  <2> SUFFICES ASSUME NEW r \in Ref, asked[r] # None, asked[r].original # None, Fits(r)
               PROVE  Fits(r)'
    BY <1>2 DEF IInv, ReplyInv
  <2>1. asked[r].original \in Id
    BY DEF IInv, RequestInv, Request
  <2>2. readAt[r] \in 1 .. Len(mailbox[asked[r].original])
    BY DEF Fits
  <2>3. /\ readAt[r] \in 1 .. Len(mailbox'[asked[r].original])
        /\ mailbox'[asked[r].original][readAt[r]] = mailbox[asked[r].original][readAt[r]]
    BY <1>1, <2>1, <2>2
  <2> QED BY <1>2, <2>3 DEF Fits
<1> QED BY <1>3, <1>4 DEF IInv

LEMMA AskInv == ASSUME IInv, NEW r \in Ref, Ask(r) PROVE IInv'
<1>1. PICK msg \in Messages, original \in walk.got \cup {None} :
        asked' = [asked EXCEPT ![r] = [original |-> original, message |-> msg]]
  BY DEF Ask
<1>2. /\ asked[r] = None
      /\ UNCHANGED <<mailbox, walk, stage, readAt, sent, results, hasty, receipt>>
  BY DEF Ask, mailVars
<1>3. original \in Id \cup {None}
  BY <1>1 DEF IInv, WalkInv
<1>4. asked' \in [Ref -> Request \cup {None}] /\ \A q \in Ref \ {r} : asked'[q] = asked[q]
  <2>1. [original |-> original, message |-> msg] \in Request
    BY <1>3, WriteSorts DEF Request
  <2> QED BY <1>1, <2>1 DEF IInv, RequestInv
<1>5. WalkInv' /\ RequestInv' /\ ResultInv'
  BY <1>2, <1>4 DEF IInv, WalkInv, RequestInv, ResultInv
<1>6. ReplyInv'
  BY <1>2, <1>4, FitsFrame DEF IInv, ReplyInv
<1> QED BY <1>5, <1>6 DEF IInv

LEMMA CheckInv == ASSUME IInv, NEW r \in Ref, Check(r) PROVE IInv'
<1> DEFINE m == asked[r].original
<1>1. /\ asked[r] # None /\ UNCHANGED <<mailbox, walk, asked, sent, results, hasty, receipt>>
      /\ stage' \in [Ref -> {"new", "checked", "over"}] /\ readAt' \in [Ref -> Nat]
      /\ \A q \in Ref \ {r} : stage'[q] = stage[q] /\ readAt'[q] = readAt[q]
      /\ stage[r] = "new"
      /\ (stage'[r] = "checked" /\ m # None) =>
           \E s \in Summaries(m) : ValidateAgainst(asked[r], s) /\ readAt'[r] = Len(mailbox[m])
      /\ stage'[r] # "checked" => readAt' = readAt
  <2>1. m # None => m \in Id
    BY DEF Check, IInv, RequestInv, Request
  <2>2. m # None => Len(mailbox[m]) \in Nat
    BY <2>1 DEF IInv, RequestInv
  <2> HIDE DEF m
  <2> QED BY <2>2 DEF Check, m, mailVars, IInv, RequestInv
<1>2. WalkInv' /\ RequestInv' /\ ResultInv'
  BY <1>1 DEF IInv, WalkInv, RequestInv, ResultInv
<1>3. ReplyInv'
  <2> SUFFICES ASSUME NEW q \in Ref, stage'[q] = "checked" \/ q \in sent'
               PROVE  asked'[q] # None /\ (asked'[q].original # None => Fits(q)')
    BY DEF ReplyInv
  <2>1. CASE q # r \/ stage'[r] # "checked"
    <3>1. stage[q] = "checked" \/ q \in sent
      BY <1>1, <2>1
    <3>2. asked[q] # None /\ (asked[q].original # None => Fits(q))
      BY <3>1 DEF IInv, ReplyInv
    <3> QED BY <1>1, <2>1, <3>2, FitsFrame
  <2>2. CASE q = r /\ stage'[r] = "checked"
    <3>1. m # None => m \in Id
      BY <1>1 DEF IInv, RequestInv, Request
    <3> QED BY <1>1, <2>2, <3>1, CheckedFits DEF IInv
  <2> QED BY <2>1, <2>2
<1> QED BY <1>2, <1>3 DEF IInv

\* A worker that says accepted of what it did not send is on record as hasty.
LEMMA ReportInv ==
  ASSUME IInv, NEW r \in Ref, asked[r] # None, sent \subseteq sent', UNCHANGED <<asked, receipt>>,
         Report(r) \/ UNCHANGED <<results, hasty>>
  PROVE  ResultInv'
<1>1. asked[r].original \in Id \cup {None}
  BY DEF IInv, RequestInv, Request
<1>2. ASSUME NEW result,
             \/ result \in {Receipt(r), [Receipt(r) EXCEPT !.status = "queued"],
                            [Receipt(r) EXCEPT !.delivery = "delivered"]}
             \/ \E m \in Id \cup {None} : result = [Receipt(r) EXCEPT !.inReplyTo = m]
      PROVE  result \in Result /\ result.ref = r
  BY <1>1, <1>2 DEF Receipt, Result
<1>3. CASE UNCHANGED <<results, hasty>>
  BY <1>3 DEF IInv, ResultInv
<1>4. CASE Report(r)
  <2>1. PICK result :
          /\ results' = results \cup {result}
          /\ hasty' = (IF result.status = "accepted" /\ r \notin sent'
                         THEN hasty \cup {r} ELSE hasty)
          /\ \/ result \in {Receipt(r), [Receipt(r) EXCEPT !.status = "queued"],
                            [Receipt(r) EXCEPT !.delivery = "delivered"]}
             \/ \E m \in Id \cup {None} : result = [Receipt(r) EXCEPT !.inReplyTo = m]
    BY <1>4 DEF Report
  <2>2. result \in Result /\ result.ref = r
    BY <1>2, <2>1
  <2>3. hasty \subseteq hasty' /\ hasty' \subseteq Ref
    BY <2>1 DEF IInv, ResultInv
  <2>4. result.status = "accepted" => r \in sent' \cup hasty'
    BY <2>1
  <2> QED BY <2>1, <2>2, <2>3, <2>4 DEF IInv, ResultInv
<1> QED BY <1>3, <1>4

LEMMA AnswerInv == ASSUME IInv, NEW r \in Ref, AnswerEarly(r) PROVE IInv'
<1>1. UNCHANGED <<mailbox, walk, asked, stage, readAt, sent, receipt>> /\ Report(r)
  BY DEF AnswerEarly, mailVars
<1>2. asked[r] # None
  BY DEF AnswerEarly, IInv, ReplyInv
<1>3. ResultInv'
  BY <1>1, <1>2, ReportInv
<1>4. WalkInv' /\ RequestInv'
  BY <1>1 DEF IInv, WalkInv, RequestInv
<1>5. ReplyInv'
  BY <1>1, FitsFrame DEF IInv, ReplyInv
<1> QED BY <1>3, <1>4, <1>5 DEF IInv

LEMMA SendInv == ASSUME IInv, NEW r \in Ref, Send(r) PROVE IInv'
<1>1. /\ stage[r] = "checked" /\ sent' = sent \cup {r}
      /\ stage' = [stage EXCEPT ![r] = "over"]
      /\ UNCHANGED <<mailbox, walk, asked, readAt, receipt>>
      /\ Report(r) \/ UNCHANGED <<results, hasty>>
  BY DEF Send, mailVars
<1>2. asked[r] # None
  BY <1>1 DEF IInv, ReplyInv
<1>3. ResultInv'
  BY <1>1, <1>2, ReportInv
<1>4. WalkInv' /\ RequestInv'
  BY <1>1 DEF IInv, WalkInv, RequestInv
<1>5. ReplyInv'
  <2> SUFFICES ASSUME NEW q \in Ref, stage'[q] = "checked" \/ q \in sent'
               PROVE  asked'[q] # None /\ (asked'[q].original # None => Fits(q)')
    BY DEF ReplyInv
  <2>1. stage[q] = "checked" \/ q \in sent
    BY <1>1 DEF IInv, RequestInv
  <2> QED BY <1>1, <2>1, FitsFrame DEF IInv, ReplyInv
<1> QED BY <1>3, <1>4, <1>5 DEF IInv

LEMMA AbandonInv == ASSUME IInv, NEW r \in Ref, Abandon(r) PROVE IInv'
<1>1. /\ stage' = [stage EXCEPT ![r] = "over"]
      /\ UNCHANGED <<mailbox, walk, asked, readAt, sent, results, hasty, receipt>>
  BY DEF Abandon, mailVars
<1>2. WalkInv' /\ RequestInv' /\ ResultInv'
  BY <1>1 DEF IInv, WalkInv, RequestInv, ResultInv
<1>3. ReplyInv'
  <2> SUFFICES ASSUME NEW q \in Ref, stage'[q] = "checked" \/ q \in sent'
               PROVE  asked'[q] # None /\ (asked'[q].original # None => Fits(q)')
    BY DEF ReplyInv
  <2>1. stage[q] = "checked" \/ q \in sent
    BY <1>1 DEF IInv, RequestInv
  <2> QED BY <1>1, <2>1, FitsFrame DEF IInv, ReplyInv
<1> QED BY <1>2, <1>3 DEF IInv

LEMMA AcceptInv == ASSUME IInv, NEW r \in Ref, Accept(r) PROVE IInv'
<1>1. PICK result \in results : receipt' = [receipt EXCEPT ![r] = result]
  BY DEF Accept
<1>2. UNCHANGED <<mailbox, walk, asked, stage, readAt, sent, results, hasty>>
  BY DEF Accept, mailVars
<1>3. WalkInv' /\ RequestInv'
  BY <1>1, <1>2 DEF IInv, WalkInv, RequestInv
<1>4. ResultInv'
  <2>1. asked[r] # None /\ \A q \in Ref \ {r} : receipt'[q] = receipt[q]
    BY <1>1 DEF Accept, IInv, ResultInv
  <2>2. receipt' \in [Ref -> Result \cup {None}]
    BY <1>1 DEF IInv, ResultInv
  <2> QED BY <1>2, <2>1, <2>2 DEF IInv, ResultInv
<1>5. ReplyInv'
  BY <1>2, FitsFrame DEF IInv, ReplyInv
<1> QED BY <1>3, <1>4, <1>5 DEF IInv

\* Every step keeps the invariant.
LEMMA StepInv == ASSUME IInv, [Next]_vars PROVE IInv'
<1>1. CASE List /\ UNCHANGED writeVars
  <2>1. WalkInv'
    BY <1>1, ListInv DEF IInv
  <2>2. UNCHANGED <<mailbox, asked, stage, readAt, sent, results, hasty, receipt>>
    BY <1>1 DEF List, writeVars
  <2>3. RequestInv' /\ ResultInv' /\ ReplyInv'
    BY <2>2, FitsFrame DEF IInv, RequestInv, ResultInv, ReplyInv
  <2> QED BY <2>1, <2>3 DEF IInv
<1>2. ASSUME NEW m \in Id, OwnerEdits(m), UNCHANGED writeVars PROVE IInv'
  BY <1>2, EditInv
<1>3. ASSUME NEW r \in Ref, Ask(r) PROVE IInv'
  BY <1>3, AskInv
<1>4. ASSUME NEW r \in Ref, Check(r) PROVE IInv'
  BY <1>4, CheckInv
<1>5. ASSUME NEW r \in Ref, AnswerEarly(r) PROVE IInv'
  BY <1>5, AnswerInv
<1>6. ASSUME NEW r \in Ref, Send(r) PROVE IInv'
  BY <1>6, SendInv
<1>7. ASSUME NEW r \in Ref, Abandon(r) PROVE IInv'
  BY <1>7, AbandonInv
<1>8. ASSUME NEW r \in Ref, Accept(r) PROVE IInv'
  BY <1>8, AcceptInv
<1>9. CASE UNCHANGED vars
  <2>1. UNCHANGED <<mailbox, walk, asked, stage, readAt, sent, results, hasty, receipt>>
    BY <1>9 DEF vars, mailVars, writeVars
  <2> QED BY <2>1, FitsFrame DEF IInv, WalkInv, RequestInv, ResultInv, ReplyInv
<1> QED BY <1>1, <1>2, <1>3, <1>4, <1>5, <1>6, <1>7, <1>8, <1>9 DEF Next

-----------------------------------------------------------------------------
(* Theorems. *)

THEOREM Invariant == Spec => []IInv
BY InitInv, StepInv, PTL DEF Spec

\* What is asked is within bounds: by AskInv's message, for good.
LEMMA Bounded ==
  ASSUME NEW msg \in Message, MessageValid(msg)
  PROVE  Cardinality(msg.to \cup msg.copies) \in 1 .. MaximumRecipients
<1>1. msg.to \cup msg.copies \subseteq Address /\ msg.to \cup msg.copies # {}
  BY DEF Message, MessageValid
<1>2. IsFiniteSet(msg.to \cup msg.copies)
  BY <1>1, MailboxSorts, FS_Subset
<1>3. /\ Cardinality(msg.to \cup msg.copies) \in Nat
      /\ Cardinality(msg.to \cup msg.copies) # 0
  BY <1>1, <1>2, FS_CardinalityType, FS_EmptySet
<1>4. Cardinality(msg.to \cup msg.copies) <= MaximumRecipients /\ MaximumRecipients \in Nat
  BY WriteSorts DEF MessageValid
<1> QED BY <1>3, <1>4

\* Every variable has its type, and every message asked for is within the
\* limits its recipients are checked against.
THEOREM TypeCorrect == Spec => []TypeOK
<1> DEFINE Within == \A r \in Ref : asked[r] # None =>
             Cardinality(asked[r].message.to \cup asked[r].message.copies)
               \in 1 .. MaximumRecipients
<1>1. Init => Within
  BY DEF Init
<1>2. IInv /\ Within /\ [Next]_vars => Within'
  <2> SUFFICES ASSUME IInv, Within, [Next]_vars PROVE Within'
    OBVIOUS
  <2>1. ASSUME NEW r \in Ref, Ask(r) PROVE Within'
    <3>1. PICK msg \in Messages, original \in walk.got \cup {None} :
            MessageValid(msg) /\ asked' = [asked EXCEPT ![r] = [original |-> original, message |-> msg]]
      BY <2>1 DEF Ask
    <3>2. Cardinality(msg.to \cup msg.copies) \in 1 .. MaximumRecipients
      BY <3>1, Bounded, WriteSorts
    <3>3. /\ asked'[r].message = msg
          /\ \A q \in Ref \ {r} : asked'[q] = asked[q]
      BY <3>1 DEF IInv, RequestInv
    <3> QED BY <3>2, <3>3
  <2>2. CASE ~ \E r \in Ref : Ask(r)
    <3>1. UNCHANGED asked
      BY <2>2 DEF Next, vars, writeVars, Check, AnswerEarly, Send, Abandon, Accept
    <3> QED BY <3>1
  <2> QED BY <2>1, <2>2
<1>3. IInv /\ Within => TypeOK
  <2> SUFFICES ASSUME IInv, Within PROVE TypeOK
    OBVIOUS
  <2>1. \A r \in Ref : asked[r] # None => asked[r].original \in Id \cup {None}
    BY DEF IInv, RequestInv, Request
  <2> QED BY <2>1 DEF IInv, WalkInv, RequestInv, ResultInv, TypeOK
<1> QED BY <1>1, <1>2, <1>3, Invariant, PTL DEF Spec

\* A walk that ended with a complete page has found every message of the
\* listing, whatever the pages, of a provider that skips no rows between them
\* and is silent about none it left behind.
THEOREM WalksHonest == Spec => []WalkHonest
<1>1. IInv => WalkHonest
  BY DEF IInv, WalkInv, WalkHonest, Id
<1> QED BY <1>1, Invariant, PTL

\* A reply that went out reaches all whom the original, as the vendor had it
\* at one moment of the delivery, asks to be answered.
THEOREM RepliesReachAll == Spec => []ReplyReachesAll
<1>1. IInv => ReplyReachesAll
  <2> SUFFICES ASSUME IInv, NEW r \in sent, asked[r].original # None PROVE Fits(r)
    BY DEF ReplyReachesAll, Fits
  <2> QED BY DEF IInv, RequestInv, ReplyInv
<1> QED BY <1>1, Invariant, PTL

\* A receipt the host keeps is of this request, and its mail was taken unless
\* its worker was hasty.
THEOREM ReceiptsProve == Spec => []ReceiptProves
<1>1. Init => ReceiptProves
  BY DEF Init, ReceiptProves
<1>2. IInv /\ ReceiptProves /\ [Next]_vars => ReceiptProves'
  <2> SUFFICES ASSUME IInv, ReceiptProves, [Next]_vars PROVE ReceiptProves'
    OBVIOUS
  <2>1. ASSUME NEW r \in Ref, Accept(r) PROVE ReceiptProves'
    <3>1. PICK result \in results :
            ResultValid(result, r) /\ receipt' = [receipt EXCEPT ![r] = result]
      BY <2>1 DEF Accept
    <3>2. UNCHANGED <<asked, sent, hasty>>
      BY <2>1 DEF Accept
    <3>3. r \in sent \cup hasty /\ result.inReplyTo = asked[r].original /\ result.delivery = "unknown"
      BY <3>1 DEF ResultValid, IInv, ResultInv
    <3>4. receipt'[r] = result /\ \A q \in Ref \ {r} : receipt'[q] = receipt[q]
      BY <3>1 DEF IInv, ResultInv
    <3> QED BY <3>2, <3>3, <3>4 DEF ReceiptProves
  <2>2. CASE ~ \E r \in Ref : Accept(r)
    <3>1. UNCHANGED receipt /\ sent \subseteq sent' /\ hasty \subseteq hasty'
      BY <2>2 DEF Next, vars, writeVars, Ask, Check, AnswerEarly, Send, Abandon, Report
    <3>2. ASSUME NEW r \in Ref, receipt[r] # None PROVE asked'[r] = asked[r]
      <4>1. asked[r] # None
        BY <3>2 DEF IInv, ResultInv
      <4> QED BY <2>2, <4>1 DEF Next, vars, writeVars, Ask, Check, AnswerEarly, Send, Abandon,
                                IInv, RequestInv
    <3> QED BY <3>1, <3>2 DEF ReceiptProves
  <2> QED BY <2>1, <2>2
<1> QED BY <1>1, <1>2, Invariant, PTL DEF Spec

-----------------------------------------------------------------------------
(* A mail implements the operation of OnceOnly.                             *)

\* A request that ended unsent is refused for good; nothing undoes a mail.
Fate(r, x) ==
  IF x = "undo" THEN "open"
  ELSE IF r \in sent THEN "accepted"
  ELSE IF stage[r] = "over" THEN "rejected" ELSE "open"

Told(r, x) == IF x = "do" /\ receipt[r] # None THEN "accepted" ELSE "open"

\* A worker that says accepted too early answers for it.
Excused(r) == IF r \in hasty THEN {"do"} ELSE {}

Once(r) == INSTANCE OnceOnly WITH fate <- [x \in {"do", "undo"} |-> Fate(r, x)],
                                  told <- [x \in {"do", "undo"} |-> Told(r, x)],
                                  excused <- Excused(r)

SentOver == \A r \in sent : stage[r] = "over"

\* A mail that was sent ends its request.
LEMMA SentStep ==
  ASSUME IInv, SentOver, [Next]_vars
  PROVE  SentOver'
<1>1. ASSUME NEW r \in Ref, Send(r) PROVE SentOver'
  BY <1>1 DEF Send, SentOver, IInv, RequestInv
<1>2. ASSUME NEW r \in Ref, Check(r) PROVE SentOver'
  <2>1. r \notin sent /\ sent' = sent /\ \A q \in Ref \ {r} : stage'[q] = stage[q]
    BY <1>2 DEF Check, SentOver, IInv, RequestInv
  <2> QED BY <2>1 DEF SentOver, IInv, RequestInv
<1>3. ASSUME NEW r \in Ref, Abandon(r) PROVE SentOver'
  BY <1>3 DEF Abandon, SentOver, IInv, RequestInv
<1>4. UNCHANGED <<sent, stage>> \/ \E r \in Ref : Send(r) \/ Check(r) \/ Abandon(r)
  BY DEF Next, vars, writeVars, Ask, AnswerEarly, Accept
<1> QED BY <1>1, <1>2, <1>3, <1>4 DEF SentOver

\* A request ends by its mail or without it, and a receipt tells of a mail.
LEMMA OnceStep ==
  ASSUME IInv, SentOver, ReceiptProves', [Next]_vars, NEW r \in Ref
  PROVE  [Once(r)!Next]_(Once(r)!vars)
<1> DEFINE fate == [x \in {"do", "undo"} |-> Fate(r, x)]
           told == [x \in {"do", "undo"} |-> Told(r, x)]
<1>0. CASE (r \in sent)' = (r \in sent) /\ stage'[r] = stage[r] /\ receipt'[r] = receipt[r]
             /\ Excused(r)' = Excused(r)
  <2>1. fate' = fate /\ told' = told
    BY <1>0 DEF Fate, Told
  <2> QED BY <1>0, <2>1 DEF Once!vars
<1>1. ASSUME (r \in sent)' = (r \in sent), stage'[r] = stage[r], receipt'[r] = receipt[r],
             hasty \subseteq hasty'
      PROVE  [Once(r)!Next]_(Once(r)!vars)
  <2>1. CASE Excused(r)' = Excused(r)
    BY <1>0, <1>1, <2>1
  <2>2. CASE Excused(r)' # Excused(r)
    <3>1. fate' = fate /\ told' = told
      BY <1>1 DEF Fate, Told
    <3>2. Excused(r)' = Excused(r) \cup {"do"}
      BY <1>1, <2>2 DEF Excused
    <3>3. Once(r)!Excuse("do")
      BY <3>1, <3>2 DEF Once!Excuse
    <3> QED BY <3>3 DEF Once!Next
  <2> QED BY <2>1, <2>2
<1>2. ASSUME stage[r] # "over", stage'[r] = "over", receipt'[r] = receipt[r],
             (r \in hasty)' = (r \in hasty)
      PROVE  Once(r)!Next
  <2> DEFINE v == IF r \in sent' THEN "accepted" ELSE "rejected"
  <2>1. r \notin sent
    BY <1>2 DEF SentOver
  <2>2. fate["do"] = "open" /\ told' = told
    BY <1>2, <2>1 DEF Fate, Told
  <2>3. fate' = [fate EXCEPT !["do"] = v]
    BY <1>2 DEF Fate
  <2>4. Excused(r)' = Excused(r)
    BY <1>2 DEF Excused
  <2>5. Once(r)!Decide("do")
    BY <2>2, <2>3, <2>4 DEF Once!Decide
  <2> QED BY <2>5 DEF Once!Next
<1>3. ASSUME Accept(r), receipt'[r] # receipt[r]
      PROVE  Once(r)!Next
  <2>1. receipt[r] = None /\ sent' = sent /\ stage' = stage /\ Excused(r)' = Excused(r)
    BY <1>3 DEF Accept, Excused
  <2>2. receipt'[r] # None /\ fate' = fate /\ told["do"] = "open"
    BY <1>3, <2>1 DEF Fate, Told
  <2>3. told' = [told EXCEPT !["do"] = "accepted"]
    BY <2>1, <2>2 DEF Told
  <2>4. CASE r \in sent
    <3>1. fate["do"] = "accepted"
      BY <2>4 DEF Fate
    <3>2. Once(r)!Learn("do")
      BY <2>1, <2>2, <2>3, <3>1 DEF Once!Learn
    <3> QED BY <3>2 DEF Once!Next
  <2>5. CASE r \in hasty
    <3>1. "do" \in Excused(r)
      BY <2>5 DEF Excused
    <3>2. fate["do"] \in {"open", "accepted", "rejected", "repeated"}
      BY DEF Fate
    <3>3. fate' = [fate EXCEPT !["do"] = fate["do"]]
      BY <2>2
    <3>4. fate["do"] \in Once(r)!Fates /\ "accepted" \in Once(r)!Answers
      BY <3>2 DEF Once!Fates, Once!Answers
    <3>5. Once(r)!Slip("do")
      <4> HIDE DEF Fate, Told, Excused
      <4> QED BY <2>1, <2>3, <3>1, <3>3, <3>4 DEF Once!Slip
    <3> QED BY <3>5 DEF Once!Next
  <2>6. r \in sent \cup hasty
    BY <1>3, <2>2 DEF ReceiptProves, Accept
  <2> QED BY <2>4, <2>5, <2>6
<1>4. CASE UNCHANGED <<sent, stage, receipt>> /\ hasty \subseteq hasty'
  BY <1>1, <1>4
<1>5. ASSUME NEW q \in Ref, Send(q) PROVE [Once(r)!Next]_(Once(r)!vars)
  <2>1. /\ sent' = sent \cup {q} /\ stage' = [stage EXCEPT ![q] = "over"]
        /\ stage[q] # "over" /\ receipt' = receipt /\ hasty' = hasty
    BY <1>5 DEF Send, Report
  <2> QED BY <1>1, <1>2, <2>1 DEF IInv, RequestInv
<1>6. ASSUME NEW q \in Ref, Check(q) PROVE [Once(r)!Next]_(Once(r)!vars)
  <2>1. /\ UNCHANGED <<sent, hasty, receipt>> /\ stage[q] = "new"
        /\ stage' = [stage EXCEPT ![q] = "checked"] \/ stage' = [stage EXCEPT ![q] = "over"]
    BY <1>6 DEF Check
  <2>2. CASE q # r
    <3>1. stage'[r] = stage[r]
      BY <2>1, <2>2 DEF IInv, RequestInv
    <3> QED BY <1>1, <2>1, <3>1
  <2>3. CASE q = r /\ stage'[r] = "over"
    BY <1>2, <2>1, <2>3
  <2>4. CASE q = r /\ stage'[r] = "checked"
    <3>1. r \notin sent /\ stage[r] # "over" /\ stage'[r] # "over"
      BY <2>1, <2>4 DEF SentOver
    <3>2. fate' = fate /\ told' = told
      BY <2>1, <3>1 DEF Fate, Told
    <3>3. Excused(r)' = Excused(r)
      BY <2>1 DEF Excused
    <3> QED BY <3>2, <3>3 DEF Once!vars
  <2> QED BY <2>1, <2>2, <2>3, <2>4 DEF IInv, RequestInv
<1>7. ASSUME NEW q \in Ref, Abandon(q) PROVE [Once(r)!Next]_(Once(r)!vars)
  <2>1. /\ UNCHANGED <<sent, hasty, receipt>> /\ stage[q] # "over"
        /\ stage' = [stage EXCEPT ![q] = "over"]
    BY <1>7 DEF Abandon
  <2> QED BY <1>1, <1>2, <2>1 DEF IInv, RequestInv
<1>8. ASSUME NEW q \in Ref, Accept(q) PROVE [Once(r)!Next]_(Once(r)!vars)
  <2>1. UNCHANGED <<sent, stage, hasty>> /\ (q # r => receipt'[r] = receipt[r])
    BY <1>8 DEF Accept
  <2> QED BY <1>1, <1>3, <1>8, <2>1
<1>9. \/ UNCHANGED <<sent, stage, receipt>> /\ hasty \subseteq hasty'
      \/ \E q \in Ref : Send(q) \/ Check(q) \/ Abandon(q) \/ Accept(q)
  BY DEF Next, vars, writeVars, Ask, AnswerEarly, Report
<1> QED BY <1>4, <1>5, <1>6, <1>7, <1>8, <1>9

LEMMA SentInvariant == Spec => []SentOver
<1>1. Init => SentOver
  BY DEF Init, SentOver
<1>2. IInv /\ SentOver /\ [Next]_vars => SentOver'
  BY SentStep
<1> QED BY <1>1, <1>2, Invariant, PTL DEF Spec

(* mailwrite/identity.go:17: uncertain-never-replay.  What OnceOnly         *)
(* promises of an operation holds of every mail: it goes out once or its    *)
(* request is over for good, through crashes before and after it is sent    *)
(* and answers that come early; the host is told of mails that went out and *)
(* of nothing else, but by a worker that says accepted before it sends.     *)
THEOREM MailsOnce == \A r \in Ref : Spec => Once(r)!Spec
<1> SUFFICES ASSUME NEW r \in Ref PROVE Spec => Once(r)!Spec
  OBVIOUS
<1>1. Init => Once(r)!Init
  BY DEF Init, Once!Init, Fate, Told, Excused
<1>2. IInv /\ SentOver /\ ReceiptProves' /\ [Next]_vars => [Once(r)!Next]_(Once(r)!vars)
  BY OnceStep
<1> QED BY <1>1, <1>2, Invariant, SentInvariant, ReceiptsProve, PTL DEF Spec, Once!Spec

(* No worker sends a mail that has gone out before.                         *)
NoRepeat == \A r \in Ref : Send(r) => r \notin sent

THEOREM NeverRepeated == Spec => [][NoRepeat]_vars
<1>1. SentOver => NoRepeat
  BY DEF SentOver, NoRepeat, Send
<1> QED BY <1>1, SentInvariant, PTL
===============================================================================
