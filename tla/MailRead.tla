------------------------------- MODULE MailRead -------------------------------
(***************************************************************************)
(* Listing a mailbox page by page (src/mail).  A provider reports what the *)
(* vendor has, cuts address lists that are too long, makes any pages of    *)
(* the messages and labels them as it likes; a client walks from cursor to *)
(* cursor and takes a page only if MessagesPage.Validate does.  Texts,     *)
(* dates and query syntax, which the code checks one by one, are left out. *)
(***************************************************************************)
EXTENDS Integers, Sequences, FiniteSets

CONSTANTS
  Listing,          \* the messages that match a query throughout, in order
  Address,
  Topic,            \* subjects without their "Re:"
  Originals,        \* what the owner may make of a message
  MaximumAddresses, \* longest address list of a summary
  DefaultPageSize, MaximumPageSize,
  Limits,           \* limits clients ask for
  MaxVersion        \* bound: edits end at a message of so many versions

Id      == {Listing[i] : i \in DOMAIN Listing}
Subject == [re : Nat, base : Topic]
Original ==
  [subject : Subject, from : SUBSET Address, replyTo : SUBSET Address,
   draft : {"yes", "no", "unknown"}]

ASSUME MailboxSorts ==
  /\ Listing \in Seq(Id)
  /\ Originals \subseteq Original
  /\ IsFiniteSet(Address)
  /\ {MaximumAddresses, DefaultPageSize, MaximumPageSize, MaxVersion} \subseteq Nat \ {0}
  /\ DefaultPageSize <= MaximumPageSize
  /\ Limits \subseteq Int

VARIABLES
  mailbox, \* mailbox[m]: every content m has had, the last one current
  walk     \* the client's walk: where its cursor stands, what it got, has the
           \* provider been honest, did it end and how

mailVars == <<mailbox, walk>>

MailInit ==
  /\ mailbox \in [Id -> {<<o>> : o \in Originals}]
  /\ walk = [at |-> 0, got |-> {}, honest |-> TRUE, stage |-> "going"]

Current(m) == mailbox[m][Len(mailbox[m])]

\* Drafts are edited, and what the vendor knows of a message changes.
OwnerEdits(m) ==
  /\ \A n \in Id : Len(mailbox[n]) < MaxVersion
  /\ \E o \in Originals : mailbox' = [mailbox EXCEPT ![m] = Append(@, o)]
  /\ UNCHANGED walk

-----------------------------------------------------------------------------
(* Summaries. *)

\* A list as it is, or a part of it that fits.
Reported(list) ==
  {list} \cup {part \in SUBSET list : Cardinality(part) = MaximumAddresses}

\* What a provider may report of m: only what it knows in full is complete.
Summaries(m) ==
  LET o == Current(m) IN
  UNION {{[id |-> m, subject |-> o.subject, from |-> f, replyTo |-> t,
           draft |-> o.draft, complete |-> c] :
            c \in {FALSE, f = o.from /\ t = o.replyTo}} :
         f \in Reported(o.from), t \in Reported(o.replyTo)}

\* Summary.Validate
SummaryValid(s) ==
  /\ s.id \in Id
  /\ Cardinality(s.from) <= MaximumAddresses
  /\ Cardinality(s.replyTo) <= MaximumAddresses

-----------------------------------------------------------------------------
(* Pages. *)

\* PageRequest.Validate
PageRequestValid(limit) == limit \in 0 .. MaximumPageSize

PageSize(limit) == IF limit = 0 THEN DefaultPageSize ELSE limit

\* Mutant: a cap is no reason to doubt a complete page.
PageValidCapped(p, limit) ==
  /\ limit \in 1 .. MaximumPageSize
  /\ Len(p.items) <= limit
  /\ p.complete => ~p.next
  /\ ~p.complete => p.next # p.capped
  /\ \A i \in DOMAIN p.items :
       /\ SummaryValid(p.items[i])
       /\ \A j \in 1 .. i - 1 : p.items[j].id # p.items[i].id

\* MessagesPage.Validate: complete, or with a cursor, or capped; and every
\* item sound and there once.
PageValid(p, limit) ==
  /\ limit \in 1 .. MaximumPageSize
  /\ Len(p.items) <= limit
  /\ p.complete => ~p.next /\ ~p.capped
  /\ ~p.complete => p.next # p.capped
  /\ \A i \in DOMAIN p.items :
       /\ SummaryValid(p.items[i])
       /\ \A j \in 1 .. i - 1 : p.items[j].id # p.items[i].id

\* Rows of the listing, and perhaps the last of them once more.
Items(from, n) ==
  LET rows == {s \in [1 .. n -> UNION {Summaries(m) : m \in Id}] :
                 \A i \in 1 .. n : s[i].id = Listing[from + i]}
  IN  rows \cup {Append(s, s[n]) : s \in {t \in rows : n > 0}}

\* A page of any n rows, however it is labelled: a cursor of the vendor may
\* stand anywhere when mail comes and goes, and pages may repeat or skip rows.
Pages(from, n) ==
  [items : Items(from, n), next : BOOLEAN, complete : BOOLEAN, capped : BOOLEAN]

\* What a provider owes its clients and no check can see in one page: it goes
\* on where the last page ended or before, and has a cursor or a reason for a
\* cap while rows are left.
Owed(p, from, n) ==
  /\ from <= walk.at
  /\ from + n < Len(Listing) => p.next \/ p.capped

\* A page that is refused leaves no trace: it is asked for again.
List ==
  /\ walk.stage = "going"
  /\ \E limit \in Limits, from \in 0 .. Len(Listing) : \E n \in 0 .. Len(Listing) - from :
       /\ PageRequestValid(limit)
       /\ \E p \in Pages(from, n) :
            /\ PageValid(p, PageSize(limit))
            /\ walk' = [at |-> IF p.next THEN from + n ELSE 0,
                        got |-> walk.got \cup {p.items[i].id : i \in DOMAIN p.items},
                        honest |-> walk.honest /\ Owed(p, from, n),
                        stage |-> IF p.complete THEN "complete"
                                  ELSE IF p.capped THEN "limited" ELSE "going"]
  /\ UNCHANGED mailbox

-----------------------------------------------------------------------------
(* mail.go:47, Complete refers to the traversal and never to a mailbox      *)
(* snapshot: a client whose walk ended with a complete page has found every *)
(* message that matched throughout, through pages that overlap, are empty,  *)
(* are asked for again or mislabelled, if each page went on where the last  *)
(* one ended or before and none kept silent about rows it left behind.  No  *)
(* cap and no cursor that is left ends a walk as complete.                  *)
WalkHonest == walk.stage = "complete" /\ walk.honest => walk.got = Id
===============================================================================
