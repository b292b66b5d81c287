-------------------------------- MODULE Delivery --------------------------------
(***************************************************************************)
(* One operation of a provider and its compensation, delivered by a host   *)
(* that crashes over a network that loses, delays and repeats, under the   *)
(* operation's reliability contract (src/reliability.go, the rules of      *)
(* src/provider.go for compensations).  The repository checks descriptors  *)
(* and lookup answers; the host, the network and the vendor are external   *)
(* and do what contract_identity.go says the runtime does: no retry        *)
(* without the idempotency policy, no blind retry of what is uncertain,    *)
(* compensation through the committed outbox.                              *)
(***************************************************************************)
EXTENDS Naturals, FiniteSets

CONSTANTS
  Key,          \* operation keys
  Blank,        \* no operation key
  Descriptors,  \* what providers describe: functions from keys to contracts
  MaxFaults,    \* bound: faults in one behaviour
  Nothing       \* no provider, no operation

Modes      == {"call", "enqueue", "start_operation"}
Effects    == {"read", "reserve", "write"}
Strategies == {"none", "natural", "provider_key"}
Contract ==
  [mode : Modes, effect : Effects, strategy : Strategies, retention : Nat,
   reconciliation : {"none", "provider_lookup"},
   compensation : {"none", "explicit", "saga"}, undo : Key \cup {Blank}]

ASSUME Shape ==
  /\ Blank \notin Key
  /\ Nothing \notin Key
  /\ MaxFaults \in Nat
  /\ \A d \in Descriptors : DOMAIN d \subseteq Key /\ d \in [DOMAIN d -> Contract]
  /\ \A d \in Descriptors, b \in BOOLEAN : Nothing # [ops |-> d, reconciles |-> b]

\* The outbox holds the operation a business step asked for and, once it is
\* called off, its compensation.
Entry   == {"do", "undo"}
Settled == {"accepted", "rejected"}
Stages  == {"none", "queued", "sent", "retry", "doubt", "manual", "lost"} \cup Settled

VARIABLES
  provider,   \* the registered provider: its descriptor, is it a Reconciler
  main,       \* the operation asked for
  outbox,     \* outbox[e]: where the host stands with e
  attempts,   \* attempts[e]: requests sent for e
  wire,       \* wire[e]: those still on their way
  window,     \* entries whose key the host still counts on
  verdict,    \* verdict[e]: what the vendor last decided on e
  remembered, \* entries whose key the vendor remembers
  effects,    \* effects[e]: how often e took effect
  calledOff,  \* the business step is called off
  outlived,   \* entries whose key the vendor forgot with a request on its way
  faults      \* faults so far

hostVars   == <<provider, main, calledOff>>
vendorVars == <<verdict, remembered, effects, outlived>>
vars == <<hostVars, outbox, attempts, wire, window, vendorVars, faults>>

Init ==
  /\ provider = Nothing
  /\ main = Nothing
  /\ outbox = [e \in Entry |-> "none"]
  /\ attempts = [e \in Entry |-> 0]
  /\ wire = [e \in Entry |-> {}]
  /\ window = {}
  /\ verdict = [e \in Entry |-> "open"]
  /\ remembered = {}
  /\ effects = [e \in Entry |-> 0]
  /\ calledOff = FALSE
  /\ outlived = {}
  /\ faults = 0

-----------------------------------------------------------------------------
(* Descriptors. *)

\* ReliabilityContract.Validate, for the operation of key k.
ContractValid(k, c) ==
  /\ IF c.strategy = "provider_key" THEN c.retention > 0 ELSE c.retention = 0
  /\ c.effect = "read" =>
       /\ c.strategy = "natural"
       /\ c.reconciliation = "none"
       /\ c.compensation = "none"
  /\ IF c.compensation = "none" THEN c.undo = Blank ELSE c.undo \notin {Blank, k}

\* Mutant: a target need not be idempotent.
UndoTargetRepeats(d, k) ==
  /\ k \in DOMAIN d
  /\ d[k].mode = "enqueue"
  /\ d[k].effect = "write"
  /\ d[k].reconciliation = "provider_lookup"
  /\ d[k].compensation = "none"

\* What an operation may name as its compensation.
UndoTarget(d, k) ==
  /\ k \in DOMAIN d
  /\ d[k].mode = "enqueue"
  /\ d[k].effect = "write"
  /\ d[k].strategy # "none"
  /\ d[k].reconciliation = "provider_lookup"
  /\ d[k].compensation = "none"

DescriptorValid(d) ==
  /\ DOMAIN d # {}
  /\ \A k \in DOMAIN d :
       /\ ContractValid(k, d[k])
       /\ d[k].compensation # "none" => UndoTarget(d, d[k].undo)

RequiresReconciler(d) == \E k \in DOMAIN d : d[k].reconciliation = "provider_lookup"

\* The registry takes a valid descriptor, with a Reconciler if it needs one.
Register ==
  /\ provider = Nothing
  /\ \E d \in Descriptors, reconciles \in BOOLEAN :
       /\ DescriptorValid(d)
       /\ RequiresReconciler(d) => reconciles
       /\ provider' = [ops |-> d, reconciles |-> reconciles]
  /\ UNCHANGED <<main, calledOff, outbox, attempts, wire, window, vendorVars, faults>>

-----------------------------------------------------------------------------
(* The host. *)

Operation(e) ==
  IF e = "do" THEN provider.ops[main] ELSE provider.ops[provider.ops[main].undo]

InOutbox(e)  == Operation(e).mode # "call"
CanLookUp(e) == Operation(e).reconciliation = "provider_lookup" /\ provider.reconciles

Moved(e, stage) == outbox' = [outbox EXCEPT ![e] = stage]

Spent == faults < MaxFaults /\ faults' = faults + 1

\* A unit of work commits with the request in its outbox, or a client calls.
Ask(k) ==
  /\ provider # Nothing
  /\ main = Nothing
  /\ k \in DOMAIN provider.ops
  /\ main' = k
  /\ Moved("do", "queued")
  /\ UNCHANGED <<provider, calledOff, attempts, wire, window, vendorVars, faults>>

\* The idempotency policy for a retryable failure: the same effect, or a key
\* the vendor is sure to remember.
MayRetry(e) ==
  \/ Operation(e).strategy = "natural"
  \/ (Operation(e).strategy = "provider_key" /\ e \in window)

\* Every request of an entry carries the same reference, its key.
Send(e) ==
  /\ outbox[e] = "queued" \/ (outbox[e] = "retry" /\ MayRetry(e))
  /\ Moved(e, "sent")
  /\ attempts' = [attempts EXCEPT ![e] = @ + 1]
  /\ wire' = [wire EXCEPT ![e] = @ \cup {attempts[e] + 1}]
  /\ window' = IF attempts[e] = 0 /\ Operation(e).retention > 0
                 THEN window \cup {e} ELSE window
  /\ UNCHANGED <<hostVars, vendorVars, faults>>

\* What may not be sent again is as good as uncertain.
Refrain(e) ==
  /\ outbox[e] = "retry"
  /\ ~MayRetry(e)
  /\ Moved(e, "doubt")
  /\ UNCHANGED <<hostVars, attempts, wire, window, vendorVars, faults>>

\* By the host's clock the retention is nearly over.
CloseWindow(e) ==
  /\ e \in window
  /\ window' = window \ {e}
  /\ UNCHANGED <<hostVars, outbox, attempts, wire, vendorVars, faults>>

\* No answer: there will be none, or the host does not wait for it.
TimeOut(e) ==
  /\ outbox[e] = "sent"
  /\ IF attempts[e] \in wire[e] THEN Spent ELSE UNCHANGED faults
  /\ Moved(e, "doubt")
  /\ UNCHANGED <<hostVars, attempts, wire, window, vendorVars>>

\* A restart finds the outbox; the requests it was waiting on are uncertain,
\* and a call without an outbox is gone with its client.
Crash ==
  /\ Spent
  /\ outbox' = [e \in Entry |->
       IF outbox[e] \notin {"queued", "sent", "retry", "doubt"} THEN outbox[e]
       ELSE IF ~InOutbox(e) THEN "lost"
       ELSE IF outbox[e] = "sent" THEN "doubt"
       ELSE outbox[e]]
  /\ UNCHANGED <<hostVars, attempts, wire, window, vendorVars>>

\* What is uncertain and cannot be looked up: a read is read again, anything
\* else is a matter for a person.
GiveUp(e) ==
  /\ outbox[e] = "doubt"
  /\ ~CanLookUp(e)
  /\ Moved(e, IF Operation(e).effect = "read" THEN "queued" ELSE "manual")
  /\ UNCHANGED <<hostVars, attempts, wire, window, vendorVars, faults>>

CallOff ==
  /\ main # Nothing
  /\ ~calledOff
  /\ calledOff' = TRUE
  /\ UNCHANGED <<provider, main, outbox, attempts, wire, window, vendorVars, faults>>

\* What was called off and is known to have taken effect is compensated.
Compensate ==
  /\ calledOff
  /\ outbox["do"] = "accepted"
  /\ outbox["undo"] = "none"
  /\ provider.ops[main].compensation # "none"
  /\ Moved("undo", "queued")
  /\ UNCHANGED <<hostVars, attempts, wire, window, vendorVars, faults>>

-----------------------------------------------------------------------------
(* The network and the vendor. *)

\* The vendor knows the request again.
Known(e) ==
  /\ verdict[e] # "open"
  /\ \/ Operation(e).strategy = "natural"
     \/ (Operation(e).strategy = "provider_key" /\ e \in remembered)

Judge(e, v) ==
  IF Known(e)
    THEN v = verdict[e] /\ UNCHANGED vendorVars
    ELSE /\ verdict' = [verdict EXCEPT ![e] = v]
         /\ effects' = IF v = "accepted" THEN [effects EXCEPT ![e] = @ + 1] ELSE effects
         /\ remembered' = IF Operation(e).strategy = "provider_key"
                            THEN remembered \cup {e} ELSE remembered
         /\ UNCHANGED outlived

\* An answer reaches the host if it still waits for that attempt.
Awaited(e, n) == outbox[e] = "sent" /\ n = attempts[e]

Arrive(e, n) ==
  /\ n \in wire[e]
  /\ wire' = [wire EXCEPT ![e] = @ \ {n}]
  /\ \E v \in Settled :
       /\ Judge(e, v)
       /\ IF Awaited(e, n) THEN Moved(e, v) ELSE UNCHANGED outbox
  /\ UNCHANGED <<hostVars, attempts, window, faults>>

\* The request is carried out or not, and the failure says try again.
AnswerRetryable(e, n) ==
  /\ n \in wire[e]
  /\ Awaited(e, n)
  /\ Spent
  /\ wire' = [wire EXCEPT ![e] = @ \ {n}]
  /\ Moved(e, "retry")
  /\ (\E v \in Settled : Judge(e, v)) \/ UNCHANGED vendorVars
  /\ UNCHANGED <<hostVars, attempts, window>>

Lose(e, n) ==
  /\ n \in wire[e]
  /\ Spent
  /\ wire' = [wire EXCEPT ![e] = @ \ {n}]
  /\ UNCHANGED <<hostVars, outbox, attempts, window, vendorVars>>

\* The retention is over; requests made in time may still be on their way.
Forget(e) ==
  /\ e \in remembered \ window
  /\ remembered' = remembered \ {e}
  /\ outlived' = IF wire[e] = {} THEN outlived ELSE outlived \cup {e}
  /\ UNCHANGED <<hostVars, outbox, attempts, wire, window, verdict, effects, faults>>

-----------------------------------------------------------------------------
(* Reconciliation. *)

Outcomes == {"succeeded", "failed", "pending", "not_found", "unknown"}

\* Mutant: a failure need not have a code.
ResultLoose(r) ==
  CASE r.outcome = "succeeded" -> ~r.code /\ ~r.after
    [] r.outcome = "failed"    -> ~r.after
    [] r.outcome = "pending"   -> ~r.code /\ r.after
    [] OTHER                   -> ~r.code /\ ~r.after /\ ~r.result

\* ReconcileResult.Validate: which of failure code, retry delay and result an
\* outcome goes with.
ResultValid(r) ==
  CASE r.outcome = "succeeded" -> ~r.code /\ ~r.after
    [] r.outcome = "failed"    -> r.code /\ ~r.after
    [] r.outcome = "pending"   -> ~r.code /\ r.after
    [] OTHER                   -> ~r.code /\ ~r.after /\ ~r.result

TrueOutcome(e) ==
  CASE verdict[e] = "accepted" -> "succeeded"
    [] verdict[e] = "rejected" -> "failed"
    [] OTHER                   -> "not_found"

\* The vendor's answer, with a result or without; or what the provider cannot
\* say yet, or says wrongly, with any result and delay.  A failure code is the
\* vendor's refusal, and where the vendor has nothing no provider claims a
\* success: a code or a success made up would pass every check.
Says(e, r) ==
  /\ r.code <=> verdict[e] = "rejected"
  /\ \/ /\ r.outcome = TrueOutcome(e) /\ ~r.after
        /\ r.result => verdict[e] # "open"
        /\ UNCHANGED faults
     \/ /\ Spent
        /\ verdict[e] = "open" => r.outcome # "succeeded"

\* Mutant: the outcome is recorded as it comes.
ConcludesRaw(r) == IF ResultValid(r) THEN r.outcome ELSE "doubt"

\* A host acts on valid answers only; what was not found is sent again if
\* the idempotency policy lets it, for the request may still be on its way.
Concludes(r) ==
  IF ~ResultValid(r) THEN "doubt"
  ELSE CASE r.outcome = "succeeded" -> "accepted"
         [] r.outcome = "failed"    -> "rejected"
         [] r.outcome = "not_found" -> "retry"
         [] OTHER                   -> "doubt"

LookupResults == [outcome : Outcomes, result : BOOLEAN, code : BOOLEAN, after : BOOLEAN]

Reconcile(e) ==
  /\ outbox[e] = "doubt"
  /\ CanLookUp(e)
  /\ \E r \in LookupResults : Says(e, r) /\ Moved(e, Concludes(r))
  /\ UNCHANGED <<hostVars, attempts, wire, window, vendorVars>>

-----------------------------------------------------------------------------
Step(e) ==
  \/ Send(e) \/ Refrain(e) \/ CloseWindow(e) \/ TimeOut(e) \/ GiveUp(e)
  \/ Reconcile(e) \/ Forget(e)
  \/ \E n \in wire[e] : Arrive(e, n) \/ AnswerRetryable(e, n) \/ Lose(e, n)

Run ==
  \/ Register \/ CallOff \/ Compensate
  \/ \E k \in Key : Ask(k)
  \/ \E e \in Entry : Step(e)

Next == Run \/ Crash

Spec == Init /\ [][Next]_vars

\* What runs goes on, on both sides; nobody has to ask or to call off, and
\* faults are faults.
Fairness ==
  /\ WF_vars(Compensate)
  /\ \A e \in Entry :
       /\ WF_vars(Send(e)) /\ WF_vars(Refrain(e)) /\ WF_vars(GiveUp(e))
       /\ WF_vars(Reconcile(e))
       /\ WF_vars(attempts[e] \notin wire[e] /\ TimeOut(e))
       /\ WF_vars(\E n \in wire[e] : Arrive(e, n))

FairSpec == Spec /\ Fairness

-----------------------------------------------------------------------------
(* Every variable has its type. *)
TypeOK ==
  /\ provider # Nothing => DescriptorValid(provider.ops)
  /\ main \in Key \cup {Nothing}
  /\ outbox \in [Entry -> Stages]
  /\ attempts \in [Entry -> Nat]
  /\ wire \in [Entry -> SUBSET Nat]
  /\ \A e \in Entry : wire[e] \subseteq 1 .. attempts[e]
  /\ window \subseteq Entry
  /\ verdict \in [Entry -> {"open"} \cup Settled]
  /\ remembered \subseteq Entry
  /\ effects \in [Entry -> Nat]
  /\ calledOff \in BOOLEAN
  /\ outlived \subseteq Entry
  /\ faults \in 0 .. MaxFaults

Told(e) == IF outbox[e] \in Settled THEN outbox[e] ELSE "open"

\* What became of e in fact.
Fate(e) ==
  IF effects[e] = 0 THEN (IF verdict[e] = "rejected" THEN "rejected" ELSE "open")
  ELSE IF effects[e] = 1 THEN "accepted"
  ELSE "repeated"

Once == INSTANCE OnceOnly WITH fate <- [e \in Entry |-> Fate(e)],
                               told <- [e \in Entry |-> Told(e)],
                               excused <- outlived

(* contract_identity.go:56, 57 and 81: through retries, crashes, late       *)
(* requests and contradictory lookup answers, an operation and its          *)
(* compensation take effect at most once each, the outbox never records     *)
(* what did not happen, and only what took effect is compensated.  Exempt   *)
(* is an entry with a request that was on its way when the vendor forgot    *)
(* its key: KeyRetentionSeconds bounds when requests are sent, not when     *)
(* they arrive, and nothing in the contract covers that one.                *)
ExactlyOnce == Once!Spec

\* Its contract lets e end without a person.
Unattended(e) ==
  \/ e = "undo"
  \/ /\ InOutbox(e)
     /\ Operation(e).strategy # "none"
     /\ Operation(e).effect = "read" \/ CanLookUp(e)

Lapsed(e) ==
  attempts[e] > 0 /\ Operation(e).strategy = "provider_key" /\ e \notin window

(* What the rules for contracts and compensations are for: an outbox entry  *)
(* that is a read, compensates another or is idempotent with lookups ends   *)
(* with its true outcome, and not with a person or with nobody, unless it   *)
(* took longer than the vendor keeps its key.                               *)
Settles ==
  \A e \in Entry :
    (outbox[e] = "queued" /\ Unattended(e)) ~> (outbox[e] \in Settled \/ Lapsed(e))
===============================================================================
