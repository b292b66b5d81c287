------------------------------ MODULE Invocation ------------------------------
(***************************************************************************)
(* One invocation of a provider operation, from the typed Call of a client *)
(* or a delivery of the host to the typed handler and back                 *)
(* (src/operation.go, src/provider.go, src/error.go).  Requests wait with  *)
(* the host while providers are deployed anew, with other operations or    *)
(* other contracts, so a request may meet a provider it was not made for;  *)
(* every provider checks it again.                                         *)
(*                                                                         *)
(* Keys are compared as trimmed.  A contract hash stands for the types it  *)
(* was computed from; Decodes says which contracts' payloads strict        *)
(* decoding cannot tell apart.                                             *)
(***************************************************************************)
EXTENDS Naturals, Sequences

CONSTANTS
  Job,         \* invocations
  Identity,    \* provider identities
  Key,         \* operation keys
  Hash,        \* contract hashes
  Decodes,     \* pairs <<h, g>>: a payload of contract g decodes under h
  Contracts,   \* the operations clients are compiled against
  Builds,      \* the operations providers are built from
  Outcomes,    \* what handlers return
  Nothing      \* no provider, no request, no run

Modes   == {"call", "enqueue", "start_operation"}
Classes == {"retryable", "permanent", "uncertain"}

\* sound: OperationDescriptor.Validate accepts it.
Operation == [identity : Identity, key : Key, mode : Modes, hash : Hash,
              sound : BOOLEAN]

\* A handler's error in the order errors.As looks through it, outermost
\* first and branch after branch of what is joined: layers made with
\* NewProviderError from a class and a code (coded: a valid one), zero values
\* of ProviderError that were not, or plain.
Layer   == [class : Classes \cup {"invalid", "zero", "plain"}, coded : BOOLEAN]
Outcome == [error : Seq(Layer), report : BOOLEAN, encodes : BOOLEAN]

ASSUME Shape ==
  /\ Contracts \subseteq Operation
  /\ Builds \subseteq Seq(Operation)
  /\ Outcomes \subseteq Outcome
  /\ Decodes \subseteq Hash \X Hash
  /\ \A h \in Hash : <<h, h>> \in Decodes
  /\ Nothing \notin Operation
  /\ Nothing \notin [op : Operation, given : Outcome]

VARIABLES
  provider, \* provider[id]: the adapter registered under id
  request,  \* request[j]: the operation j is made out for
  stage,    \* stage[j]: idle, sent, replied
  run,      \* run[j]: the last run of a handler for j
  answer,   \* answer[j]: the CallResult and the error of Adapter.Call
  output    \* output[j]: what the typed Call last returned to the client

vars == <<provider, request, stage, run, answer, output>>

NoAnswer == [error |-> "none", payload |-> Nothing, report |-> FALSE]

Init ==
  /\ provider = [id \in Identity |-> Nothing]
  /\ request = [j \in Job |-> Nothing]
  /\ stage = [j \in Job |-> "idle"]
  /\ run = [j \in Job |-> Nothing]
  /\ answer = [j \in Job |-> NoAnswer]
  /\ output = [j \in Job |-> Nothing]

-----------------------------------------------------------------------------
(* Building a provider. *)

OpsOf(ops) == {ops[i] : i \in DOMAIN ops}

\* Mutant: two operations of one key are let through.
AcceptRepeated(id, ops) ==
  /\ ops # <<>>
  /\ \A op \in OpsOf(ops) : op.sound /\ op.identity = id

\* BindCall and the delivery binds take sound operations; NewProvider takes
\* those of its own identity, and ProviderDescriptor.Validate one per key.
Accept(id, ops) ==
  /\ ops # <<>>
  /\ \A op \in OpsOf(ops) : op.sound /\ op.identity = id
  /\ \A i, j \in DOMAIN ops : ops[i].key = ops[j].key => i = j

\* boundProvider: what it describes and the operation it runs for each key.
Bound(ops) ==
  [described |-> OpsOf(ops),
   serves |-> [k \in {op.key : op \in OpsOf(ops)} |->
                 CHOOSE op \in OpsOf(ops) : op.key = k]]

\* A process starts with a provider of identity id, in place of any before.
Deploy(id) ==
  /\ \E ops \in Builds :
       /\ Accept(id, ops)
       /\ provider' = [provider EXCEPT ![id] = Bound(ops)]
  /\ UNCHANGED <<request, stage, run, answer, output>>

-----------------------------------------------------------------------------
(* A request and its way to the provider. *)

\* Call makes a request out of a synchronous operation; the host makes one
\* out of an operation enqueued or started.
Send(j) ==
  /\ stage[j] = "idle"
  /\ \E op \in Contracts :
       /\ op.sound
       /\ request' = [request EXCEPT ![j] = op]
  /\ stage' = [stage EXCEPT ![j] = "sent"]
  /\ run' = [run EXCEPT ![j] = Nothing]
  /\ output' = [output EXCEPT ![j] = Nothing]
  /\ UNCHANGED <<provider, answer>>

\* A payload made under contract of decodes into the types of contract as.
decodeStrict(as, of) == <<as, of>> \in Decodes

\* Mutant: the contract is not compared.
MatchesMode(expected, asked) ==
  /\ asked.identity = expected.identity
  /\ asked.key = expected.key
  /\ asked.mode = expected.mode

validateInvocation(expected, asked) ==
  /\ asked.identity = expected.identity
  /\ asked.key = expected.key
  /\ asked.mode = expected.mode
  /\ asked.hash = expected.hash

\* The provider the host hands the request to runs it.
Serves(id, asked) ==
  /\ asked.identity = id
  /\ asked.key \in DOMAIN provider[id].serves
  /\ LET op == provider[id].serves[asked.key] IN
       /\ validateInvocation(op, asked)
       /\ decodeStrict(op.hash, asked.hash)

\* Mutant: a class or code that is not valid is taken as it comes.
ClassRaw(layer) == layer.class

\* NewProviderError: what is not valid becomes permanent.
NewProviderError(layer) ==
  IF layer.class \in Classes /\ layer.coded THEN layer.class ELSE "permanent"

\* errors.As finds the first provider error and looks no further.
Found(error, i) ==
  /\ error[i].class # "plain"
  /\ \A k \in 1 .. i - 1 : error[k].class = "plain"

\* What it holds is validated once more: a zero value gives no class, and
\* hides what is behind it.
ClassOf(layer) ==
  IF layer.class = "zero" THEN "unclassified" ELSE NewProviderError(layer)

ErrorClassificationOf(error) ==
  IF \E i \in DOMAIN error : Found(error, i)
    THEN ClassOf(error[CHOOSE i \in DOMAIN error : Found(error, i)])
    ELSE "unclassified"

Replied(j, result) ==
  /\ answer' = [answer EXCEPT ![j] = result]
  /\ stage' = [stage EXCEPT ![j] = "replied"]

\* A mismatch, an operation that is not there or an input that does not
\* decode: no handler runs and the error carries no class.
Refuse(j, id) ==
  /\ stage[j] = "sent"
  /\ provider[id] # Nothing
  /\ ~Serves(id, request[j])
  /\ Replied(j, [NoAnswer EXCEPT !.error = "unclassified"])
  /\ run' = [run EXCEPT ![j] = Nothing]
  /\ UNCHANGED <<provider, request, output>>

\* Mutant: an error comes alone.
ResultDropped(op, given) ==
  IF given.error # <<>>
    THEN [NoAnswer EXCEPT !.error = ErrorClassificationOf(given.error)]
  ELSE IF op.mode = "call" /\ ~given.encodes
    THEN [NoAnswer EXCEPT !.error = "unclassified"]
  ELSE [error |-> "none", report |-> given.report,
        payload |-> IF op.mode = "call" THEN op.hash ELSE Nothing]

\* Mutant: an output that does not encode is left out and nobody is told.
ResultSilent(op, given) ==
  IF given.error # <<>>
    THEN [error |-> ErrorClassificationOf(given.error), report |-> given.report,
          payload |-> Nothing]
  ELSE [error |-> "none", report |-> given.report,
        payload |-> IF op.mode = "call" /\ given.encodes THEN op.hash ELSE Nothing]

\* What Adapter.Call makes of the handler's result: an error keeps the
\* response reference, the secret updates and the resource health; an output
\* that does not encode loses them.
ResultOf(op, given) ==
  IF given.error # <<>>
    THEN [error |-> ErrorClassificationOf(given.error), report |-> given.report,
          payload |-> Nothing]
  ELSE IF op.mode = "call" /\ ~given.encodes
    THEN [NoAnswer EXCEPT !.error = "unclassified"]
  ELSE [error |-> "none", report |-> given.report,
        payload |-> IF op.mode = "call" THEN op.hash ELSE Nothing]

Handle(j, id) ==
  /\ stage[j] = "sent"
  /\ provider[id] # Nothing
  /\ Serves(id, request[j])
  /\ \E given \in Outcomes :
       LET op == provider[id].serves[request[j].key] IN
       /\ run' = [run EXCEPT ![j] = [op |-> op, given |-> given]]
       /\ Replied(j, ResultOf(op, given))
  /\ UNCHANGED <<provider, request, output>>

\* The host delivers again what failed, or what it lost the answer of.
Redeliver(j) ==
  /\ stage[j] = "replied"
  /\ request[j].mode # "call"
  /\ stage' = [stage EXCEPT ![j] = "sent"]
  /\ UNCHANGED <<provider, request, run, answer, output>>

\* Call returns the error, or the output decoded as the client's type.
Receive(j) ==
  /\ stage[j] = "replied"
  /\ request[j].mode = "call"
  /\ output' = [output EXCEPT ![j] =
       IF /\ answer[j].error = "none"
          /\ decodeStrict(request[j].hash, answer[j].payload)
         THEN [of |-> answer[j].payload, as |-> request[j].hash]
         ELSE Nothing]
  /\ stage' = [stage EXCEPT ![j] = "idle"]
  /\ UNCHANGED <<provider, request, run, answer>>

\* The host records the delivery.
Record(j) ==
  /\ stage[j] = "replied"
  /\ request[j].mode # "call"
  /\ stage' = [stage EXCEPT ![j] = "idle"]
  /\ UNCHANGED <<provider, request, run, answer, output>>

Next ==
  \/ \E id \in Identity : Deploy(id)
  \/ \E j \in Job :
       \/ Send(j) \/ Redeliver(j) \/ Receive(j) \/ Record(j)
       \/ \E id \in Identity : Refuse(j, id) \/ Handle(j, id)

Spec == Init /\ [][Next]_vars

-----------------------------------------------------------------------------
Requested == Contracts \cup {Nothing}

TypeOK ==
  /\ \A id \in Identity : provider[id] # Nothing =>
       /\ provider[id].described \subseteq Operation
       /\ \A k \in DOMAIN provider[id].serves :
            provider[id].serves[k] \in provider[id].described
  /\ request \in [Job -> Requested]
  /\ stage \in [Job -> {"idle", "sent", "replied"}]
  /\ \A j \in Job : stage[j] # "idle" => request[j] # Nothing
  /\ run \in [Job -> [op : Operation, given : Outcomes] \cup {Nothing}]
  /\ answer \in [Job -> [error : Classes \cup {"none", "unclassified"},
                         payload : Hash \cup {Nothing}, report : BOOLEAN]]
  /\ output \in [Job -> [of : Hash, as : Hash] \cup {Nothing}]

(* A provider runs every operation it describes: a request made out for any *)
(* operation in its descriptor passes all its checks.                       *)
DescribedServed ==
  \A id \in Identity : provider[id] # Nothing =>
    \A op \in provider[id].described : Serves(id, op)

(* What Call returns was put out by a handler that succeeded, under the     *)
(* very contract the caller was compiled against, though the payload of     *)
(* another one would decode as well.                                        *)
OutputTyped ==
  \A j \in Job : output[j] # Nothing =>
    /\ output[j].of = output[j].as
    /\ run[j] # Nothing /\ run[j].given.error = <<>>

(* contract_identity.go:23: a handler that fails still hands over its       *)
(* response reference, secret updates and resource health, and no payload;  *)
(* a delivery never has one.                                                *)
ResultKept ==
  \A j \in Job : (stage[j] = "replied" /\ run[j] # Nothing) =>
    /\ run[j].given.error # <<>> => answer[j].report = run[j].given.report
    /\ (run[j].given.error # <<>> \/ run[j].op.mode # "call") =>
         answer[j].payload = Nothing

\* The handler did its work and Call could not encode what it returned.
Unencoded(j) ==
  /\ run[j].given.error = <<>>
  /\ run[j].op.mode = "call"
  /\ ~run[j].given.encodes

(* The host takes no answer for a success but that of a handler of the very *)
(* contract the request was made out for, which ran for this delivery and   *)
(* succeeded and whose report and output are all there: not after an        *)
(* earlier success whose redelivery was refused by a provider deployed      *)
(* since, nor when the output was lost on the way (operation.go:159).       *)
SuccessIsReal ==
  \A j \in Job : (stage[j] = "replied" /\ answer[j].error = "none") =>
    /\ run[j] # Nothing
    /\ run[j].given.error = <<>>
    /\ run[j].op.hash = request[j].hash
    /\ ~Unencoded(j)
    /\ answer[j].report = run[j].given.report

(* The host is told that a failure may be retried, or that its outcome is   *)
(* uncertain, only if the handler said so last: a mismatch, a decoding      *)
(* failure, a malformed class or code and the classes of causes further in  *)
(* never do.                                                                *)
ClassFromHandler ==
  \A j \in Job :
    (stage[j] = "replied" /\ answer[j].error \in {"retryable", "uncertain"}) =>
      /\ run[j] # Nothing
      /\ \E i \in DOMAIN run[j].given.error :
           LET error == run[j].given.error IN
           /\ error[i].class = answer[j].error
           /\ error[i].coded
           /\ \A k \in 1 .. i - 1 : error[k].class = "plain"

(* contract_identity.go:24: an explicit resource health is preserved on     *)
(* success or error; with it go the response reference and secret updates.  *)
HealthPreserved ==
  \A j \in Job : (stage[j] = "replied" /\ run[j] # Nothing) =>
    answer[j].report = run[j].given.report
===============================================================================
