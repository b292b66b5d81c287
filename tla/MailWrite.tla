------------------------------ MODULE MailWrite ------------------------------
(***************************************************************************)
(* Sending mail and replying to what a walk found (src/mailwrite).  The    *)
(* host hands a request to one worker of the provider, once: an uncertain  *)
(* request is never repeated.  For a reply the worker reads the original   *)
(* afresh, checks the reply against it (ReplyRequest.ValidateAgainst) and  *)
(* sends, while the original may change; the host keeps results that       *)
(* validate against the request.  Bodies and dates are left out.           *)
(***************************************************************************)
EXTENDS MailRead

CONSTANTS
  Ref,               \* requests, by RequestRef
  Parseable,         \* addresses net/mail parses to themselves
  Folded,            \* Folded[a]: a in lower case
  Messages,          \* what clients write
  MaximumRecipients,
  None               \* no original, no request, no receipt

Message == [to : SUBSET Address, copies : SUBSET Address, subject : Subject]
Result  == [ref : Ref, status : {"accepted", "queued"}, delivery : {"unknown", "delivered"},
            inReplyTo : Id \cup {None}]

ASSUME WriteSorts ==
  /\ Parseable \subseteq Address
  /\ Folded \in [Address -> Address]
  /\ Messages \subseteq Message
  /\ MaximumRecipients \in Nat \ {0}
  /\ None \notin Id
  /\ None \notin Result
  /\ None \notin [original : Id \cup {None}, message : Message]

VARIABLES
  asked,   \* asked[r]: the SendRequest or ReplyRequest
  stage,   \* stage[r]: how far the worker is with it
  readAt,  \* readAt[r]: the version of the original the reply was checked against
  sent,    \* the requests whose mail the vendor took
  results, \* the results under way to the host
  hasty,   \* the requests said to be accepted before they were sent
  receipt  \* receipt[r]: the result the host keeps

writeVars == <<asked, stage, readAt, sent, results, hasty, receipt>>
vars == <<mailVars, writeVars>>

Init ==
  /\ MailInit
  /\ asked = [r \in Ref |-> None]
  /\ stage = [r \in Ref |-> "new"]
  /\ readAt = [r \in Ref |-> 0]
  /\ sent = {}
  /\ results = {}
  /\ hasty = {}
  /\ receipt = [r \in Ref |-> None]

-----------------------------------------------------------------------------
(* The checks of the contract. *)

\* Mutant: no limit to the recipients.
MessageUnbounded(m) ==
  /\ m.to \cup m.copies # {}
  /\ m.to \cup m.copies \subseteq Parseable
  /\ m.to \cap m.copies = {}
  /\ \A a, b \in m.to \cup m.copies : Folded[a] = Folded[b] => a = b

\* Message.Validate
MessageValid(m) ==
  /\ m.to \cup m.copies # {}
  /\ Cardinality(m.to \cup m.copies) <= MaximumRecipients
  /\ m.to \cup m.copies \subseteq Parseable
  /\ m.to \cap m.copies = {}
  /\ \A a, b \in m.to \cup m.copies : Folded[a] = Folded[b] => a = b

replySubject(subject) == subject.base

\* Who gets the replies to an original.
Targets(original) == IF original.replyTo = {} THEN original.from ELSE original.replyTo

\* A mail to these addresses reaches a, case aside.
Reaches(to, a) == \E b \in to : Folded[a] = Folded[b]

\* Mutant: a summary known in part will do.
ValidateAgainstPart(request, original) ==
  /\ MessageValid(request.message)
  /\ SummaryValid(original)
  /\ original.id = request.original
  /\ original.draft = "no"
  /\ replySubject(request.message.subject) = replySubject(original.subject)
  /\ Targets(original) # {}
  /\ Targets(original) \subseteq Parseable
  /\ \A a \in Targets(original) : Reaches(request.message.to, a)

\* ReplyRequest.ValidateAgainst
ValidateAgainst(request, original) ==
  /\ MessageValid(request.message)
  /\ SummaryValid(original)
  /\ original.id = request.original
  /\ original.complete
  /\ original.draft = "no"
  /\ replySubject(request.message.subject) = replySubject(original.subject)
  /\ Targets(original) # {}
  /\ Targets(original) \subseteq Parseable
  /\ \A a \in Targets(original) : Reaches(request.message.to, a)

\* Mutant: the receipt need not say that the mail was accepted.
ResultQueued(result, r) ==
  /\ result.delivery = "unknown"
  /\ result.ref = r
  /\ result.inReplyTo = asked[r].original

\* Result.Validate, for a send without original and for a reply.
ResultValid(result, r) ==
  /\ result.status = "accepted"
  /\ result.delivery = "unknown"
  /\ result.ref = r
  /\ result.inReplyTo = asked[r].original

-----------------------------------------------------------------------------
(* One request. *)

\* A client writes a new mail, or answers a message it found.
Ask(r) ==
  /\ walk.stage # "going"
  /\ asked[r] = None
  /\ \E m \in Messages, original \in walk.got \cup {None} :
       /\ MessageValid(m)
       /\ asked' = [asked EXCEPT ![r] = [original |-> original, message |-> m]]
  /\ UNCHANGED <<mailVars, stage, readAt, sent, results, hasty, receipt>>

\* A new mail is checked alone, a reply against what is read now; what fails
\* the check is refused for good.
Check(r) ==
  /\ asked[r] # None
  /\ stage[r] = "new"
  /\ LET m == asked[r].original IN
       IF m = None
         THEN stage' = [stage EXCEPT ![r] = "checked"] /\ UNCHANGED readAt
         ELSE \E s \in Summaries(m) :
                IF ValidateAgainst(asked[r], s)
                  THEN /\ stage' = [stage EXCEPT ![r] = "checked"]
                       /\ readAt' = [readAt EXCEPT ![r] = Len(mailbox[m])]
                  ELSE stage' = [stage EXCEPT ![r] = "over"] /\ UNCHANGED readAt
  /\ UNCHANGED <<mailVars, asked, sent, results, hasty, receipt>>

\* What is true of a mail the vendor took.
Receipt(r) ==
  [ref |-> r, status |-> "accepted", delivery |-> "unknown", inReplyTo |-> asked[r].original]

\* A worker answers once, perhaps early, and may claim what it does not know:
\* even that a mail is accepted which it is only going to send.
Report(r) ==
  /\ \A result \in results : result.ref # r
  /\ \E result \in
       {Receipt(r), [Receipt(r) EXCEPT !.status = "queued"]}
         \cup (IF r \in sent'
                 THEN {[Receipt(r) EXCEPT !.delivery = "delivered"]}
                        \cup {[Receipt(r) EXCEPT !.inReplyTo = m] : m \in Id \cup {None}}
                 ELSE {}) :
       /\ results' = results \cup {result}
       /\ hasty' = IF result.status = "accepted" /\ r \notin sent'
                     THEN hasty \cup {r} ELSE hasty

\* It does not wait for the vendor.
AnswerEarly(r) ==
  /\ stage[r] = "checked"
  /\ UNCHANGED sent
  /\ Report(r)
  /\ UNCHANGED <<mailVars, asked, stage, readAt, receipt>>

\* The vendor takes the mail; the worker reports that, or dies.
Send(r) ==
  /\ stage[r] = "checked"
  /\ sent' = sent \cup {r}
  /\ stage' = [stage EXCEPT ![r] = "over"]
  /\ Report(r) \/ UNCHANGED <<results, hasty>>
  /\ UNCHANGED <<mailVars, asked, readAt, receipt>>

\* The vendor refuses the mail, or the worker dies before it is sent.
Abandon(r) ==
  /\ asked[r] # None
  /\ stage[r] # "over"
  /\ stage' = [stage EXCEPT ![r] = "over"]
  /\ UNCHANGED <<mailVars, asked, readAt, sent, results, hasty, receipt>>

\* The host keeps a result that validates against the request, whenever and
\* for whichever request it comes.
Accept(r) ==
  /\ asked[r] # None
  /\ receipt[r] = None
  /\ \E result \in results :
       /\ ResultValid(result, r)
       /\ receipt' = [receipt EXCEPT ![r] = result]
  /\ UNCHANGED <<mailVars, asked, stage, readAt, sent, results, hasty>>

Next ==
  \/ (List \/ \E m \in Id : OwnerEdits(m)) /\ UNCHANGED writeVars
  \/ \E r \in Ref : Ask(r) \/ Check(r) \/ AnswerEarly(r) \/ Send(r) \/ Abandon(r) \/ Accept(r)

Spec == Init /\ [][Next]_vars

-----------------------------------------------------------------------------
(* Every variable has its type; what is asked is a message within bounds.   *)
TypeOK ==
  /\ mailbox \in [Id -> Seq(Original)]
  /\ walk.at \in 0 .. Len(Listing)
  /\ walk.got \subseteq Id
  /\ walk.honest \in BOOLEAN
  /\ walk.stage \in {"going", "complete", "limited"}
  /\ \A r \in Ref : asked[r] # None =>
       /\ asked[r].original \in Id \cup {None}
       /\ Cardinality(asked[r].message.to \cup asked[r].message.copies)
            \in 1 .. MaximumRecipients
  /\ stage \in [Ref -> {"new", "checked", "over"}]
  /\ readAt \in [Ref -> Nat]
  /\ sent \subseteq Ref
  /\ results \subseteq Result
  /\ hasty \subseteq Ref
  /\ receipt \in [Ref -> Result \cup {None}]

(* mailwrite/contract.go:28: a reply that went out is to all who are to get *)
(* replies to the original, which was no draft and of that subject, as the  *)
(* vendor had it at one moment of the delivery: not as the client saw it,   *)
(* and not as far as an address list that was cut shows it.                 *)
ReplyReachesAll ==
  \A r \in sent : asked[r].original # None =>
    LET o == mailbox[asked[r].original][readAt[r]] IN
    /\ o.draft = "no"
    /\ replySubject(o.subject) = replySubject(asked[r].message.subject)
    /\ Targets(o) # {}
    /\ \A a \in Targets(o) : Reaches(asked[r].message.to, a)

(* mailwrite/contract.go:38: a receipt proves that the vendor took the mail *)
(* of this very request, in reply to the original it names, and no more;    *)
(* except that of a worker that says accepted before it sends, for a result *)
(* of that kind no check can tell from a true one.                          *)
ReceiptProves ==
  \A r \in Ref : receipt[r] # None =>
    /\ r \in sent \cup hasty
    /\ receipt[r].inReplyTo = asked[r].original
    /\ receipt[r].delivery = "unknown"
===============================================================================
