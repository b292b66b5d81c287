--------------------------- MODULE InvocationProofs ---------------------------
(***************************************************************************)
(* What an invocation never does, for any providers, deployments, clients  *)
(* and handlers.  The invariant ties the answer the host holds to the run  *)
(* of the handler it came from, and that run to the request.               *)
(***************************************************************************)
EXTENDS Invocation, TLAPS

Domains ==
  /\ DOMAIN provider = Identity
  /\ DOMAIN request = Job /\ DOMAIN stage = Job /\ DOMAIN run = Job
  /\ DOMAIN answer = Job /\ DOMAIN output = Job

\* What providers serve are operations, each under its own key.
ServesOperations ==
  \A id \in Identity : provider[id] # Nothing =>
    \A k \in DOMAIN provider[id].serves : provider[id].serves[k] \in Operation

\* However long a request waited and whatever was deployed in between, the
\* operation that ran is of its provider, key, mode and contract.
RanAsSent ==
  \A j \in Job : run[j] # Nothing =>
    LET op == run[j].op IN
    /\ op.identity = request[j].identity
    /\ op.key = request[j].key
    /\ op.mode = request[j].mode
    /\ op.hash = request[j].hash

\* The answer is what Adapter.Call made of the last run, or a refusal.
Answered ==
  \A j \in Job : stage[j] = "replied" =>
    \/ answer[j].error = "unclassified" /\ run[j] = Nothing
    \/ /\ run[j] # Nothing
       /\ answer[j] = ResultOf(run[j].op, run[j].given)

\* Call returns nothing before it is answered.
Pending == \A j \in Job : stage[j] # "idle" => output[j] = Nothing

Inv == /\ Domains /\ ServesOperations /\ DescribedServed
       /\ RanAsSent /\ Answered /\ Pending /\ OutputTyped

\* A classified error is never taken for none.
LEMMA Classified ==
  ASSUME NEW error
  PROVE  ErrorClassificationOf(error) # "none"
BY DEF ErrorClassificationOf, ClassOf, NewProviderError, Classes

\* A provider that NewProvider accepts serves all it describes.
LEMMA BoundServes ==
  ASSUME NEW id \in Identity, NEW ops \in Builds, Accept(id, ops)
  PROVE  /\ \A k \in DOMAIN Bound(ops).serves : Bound(ops).serves[k] \in Operation
         /\ \A op \in Bound(ops).described :
              /\ op.identity = id
              /\ op.key \in DOMAIN Bound(ops).serves
              /\ Bound(ops).serves[op.key] = op
              /\ op.hash \in Hash
<1>1. ops \in Seq(Operation)
  BY Shape
<1>2. \A op \in OpsOf(ops) : op \in Operation
  BY <1>1 DEF OpsOf
<1>3. \A o, p \in OpsOf(ops) : o.key = p.key => o = p
  BY DEF OpsOf, Accept
<1>4. ASSUME NEW k \in {op.key : op \in OpsOf(ops)}
      PROVE  /\ (CHOOSE op \in OpsOf(ops) : op.key = k) \in OpsOf(ops)
             /\ (CHOOSE op \in OpsOf(ops) : op.key = k).key = k
  <2>1. \E op \in OpsOf(ops) : op.key = k
    OBVIOUS
  <2> QED BY <2>1
<1>5. \A op \in OpsOf(ops) : op.identity = id /\ op.hash \in Hash
  BY <1>2 DEF Accept, Operation
<1>6. DOMAIN Bound(ops).serves = {op.key : op \in OpsOf(ops)}
  BY DEF Bound
<1>7. \A k \in {op.key : op \in OpsOf(ops)} :
        Bound(ops).serves[k] = CHOOSE op \in OpsOf(ops) : op.key = k
  BY DEF Bound
<1>8. Bound(ops).described = OpsOf(ops)
  BY DEF Bound
<1>9. ASSUME NEW op \in OpsOf(ops)
      PROVE  Bound(ops).serves[op.key] = op
  <2>1. op.key \in {o.key : o \in OpsOf(ops)}
    OBVIOUS
  <2> QED BY <1>3, <1>4, <1>7, <2>1
<1> QED BY <1>2, <1>4, <1>5, <1>6, <1>7, <1>8, <1>9

\* Deploying a provider disturbs no invocation.
LEMMA DeployStep ==
  ASSUME Inv, NEW id \in Identity, Deploy(id)
  PROVE  Inv'
<1>1. PICK ops \in Builds :
        /\ Accept(id, ops)
        /\ provider' = [provider EXCEPT ![id] = Bound(ops)]
  BY DEF Deploy
<1>2. UNCHANGED <<request, stage, run, answer, output>>
  BY DEF Deploy
<1>3. /\ DOMAIN provider' = Identity /\ provider'[id] = Bound(ops)
      /\ \A other \in Identity \ {id} : provider'[other] = provider[other]
  BY <1>1 DEF Inv, Domains
<1>4. Domains'
  BY <1>2, <1>3 DEF Inv, Domains
<1>5. ServesOperations'
  BY <1>1, <1>3, BoundServes DEF Inv, ServesOperations
<1>6. DescribedServed'
  <2> SUFFICES ASSUME NEW i \in Identity, provider'[i] # Nothing,
                      NEW op \in provider'[i].described
               PROVE  Serves(i, op)'
    BY DEF DescribedServed
  <2>1. CASE i = id
    <3>1. /\ op.identity = id /\ op.key \in DOMAIN provider'[id].serves
          /\ provider'[id].serves[op.key] = op /\ op.hash \in Hash
      BY <1>1, <1>3, <2>1, BoundServes
    <3>2. decodeStrict(op.hash, op.hash)
      BY <3>1, Shape DEF decodeStrict
    <3> QED BY <2>1, <3>1, <3>2 DEF Serves, validateInvocation
  <2>2. CASE i # id
    BY <1>3, <2>2 DEF Inv, DescribedServed, Serves
  <2> QED BY <2>1, <2>2
<1>7. RanAsSent' /\ Answered' /\ Pending' /\ OutputTyped'
  BY <1>2 DEF Inv, RanAsSent, Answered, Pending, OutputTyped
<1> QED BY <1>4, <1>5, <1>6, <1>7 DEF Inv

\* Running the handler leaves the answer it accounts for.
LEMMA HandleStep ==
  ASSUME Inv, NEW j \in Job, NEW id \in Identity, Handle(j, id)
  PROVE  Inv'
<1> DEFINE op == provider[id].serves[request[j].key]
<1>1. PICK given \in Outcomes :
        /\ run' = [run EXCEPT ![j] = [op |-> op, given |-> given]]
        /\ answer' = [answer EXCEPT ![j] = ResultOf(op, given)]
        /\ stage' = [stage EXCEPT ![j] = "replied"]
  BY DEF Handle, Replied
<1>2. /\ UNCHANGED <<provider, request, output>>
      /\ provider[id] # Nothing /\ Serves(id, request[j]) /\ stage[j] = "sent"
  BY DEF Handle
<1>3. op \in Operation /\ given \in Outcome
  BY <1>2, Shape DEF Inv, ServesOperations, Serves
<1>4. /\ op.identity = request[j].identity /\ op.key = request[j].key
      /\ op.mode = request[j].mode /\ op.hash = request[j].hash
  BY <1>2 DEF Serves, validateInvocation
<1> HIDE DEF op
<1>5. [op |-> op, given |-> given] # Nothing
  BY <1>3, Shape
<1>6. /\ run'[j] = [op |-> op, given |-> given]
      /\ answer'[j] = ResultOf(op, given) /\ stage'[j] = "replied"
      /\ \A k \in Job \ {j} : /\ run'[k] = run[k] /\ answer'[k] = answer[k]
                              /\ stage'[k] = stage[k]
  BY <1>1 DEF Inv, Domains
<1>7. Domains'
  BY <1>1, <1>2 DEF Inv, Domains
<1>8. ServesOperations' /\ DescribedServed'
  BY <1>2 DEF Inv, ServesOperations, DescribedServed, Serves
<1>9. RanAsSent'
  BY <1>2, <1>4, <1>6 DEF Inv, RanAsSent
<1>10. Answered'
  BY <1>5, <1>6 DEF Inv, Answered
<1>11. Pending' /\ OutputTyped'
  <2>1. output[j] = Nothing
    BY <1>2 DEF Inv, Pending
  <2>2. Pending'
    BY <1>2, <1>6, <2>1 DEF Inv, Pending
  <2>3. OutputTyped'
    BY <1>2, <1>6, <2>1 DEF Inv, OutputTyped
  <2> QED BY <2>2, <2>3
<1> QED BY <1>7, <1>8, <1>9, <1>10, <1>11 DEF Inv

\* A refusal runs no handler.
LEMMA RefuseStep ==
  ASSUME Inv, NEW j \in Job, NEW id \in Identity, Refuse(j, id)
  PROVE  Inv'
<1>1. /\ UNCHANGED <<provider, request, output>> /\ stage[j] = "sent"
      /\ run' = [run EXCEPT ![j] = Nothing]
      /\ answer' = [answer EXCEPT ![j] = [NoAnswer EXCEPT !.error = "unclassified"]]
      /\ stage' = [stage EXCEPT ![j] = "replied"]
  BY DEF Refuse, Replied
<1>2. /\ run'[j] = Nothing /\ answer'[j].error = "unclassified"
      /\ \A k \in Job \ {j} : /\ run'[k] = run[k] /\ answer'[k] = answer[k]
                              /\ stage'[k] = stage[k]
  BY <1>1 DEF Inv, Domains, NoAnswer
<1>3. output[j] = Nothing
  BY <1>1 DEF Inv, Pending
<1>4. Domains'
  BY <1>1 DEF Inv, Domains
<1>5. ServesOperations' /\ DescribedServed'
  BY <1>1 DEF Inv, ServesOperations, DescribedServed, Serves
<1>6. RanAsSent' /\ Answered'
  BY <1>1, <1>2 DEF Inv, RanAsSent, Answered
<1>7. Pending' /\ OutputTyped'
  BY <1>1, <1>2, <1>3 DEF Inv, Pending, OutputTyped
<1> QED BY <1>4, <1>5, <1>6, <1>7 DEF Inv

\* What Call returns was put out under the contract of the run.
LEMMA ReceiveStep ==
  ASSUME Inv, NEW j \in Job, Receive(j)
  PROVE  Inv'
<1> DEFINE value == IF /\ answer[j].error = "none"
                       /\ decodeStrict(request[j].hash, answer[j].payload)
                      THEN [of |-> answer[j].payload, as |-> request[j].hash]
                      ELSE Nothing
<1>1. /\ UNCHANGED <<provider, request, run, answer>>
      /\ stage[j] = "replied" /\ request[j].mode = "call"
      /\ output' = [output EXCEPT ![j] = value]
      /\ stage' = [stage EXCEPT ![j] = "idle"]
  BY DEF Receive
<1>2. value # Nothing =>
        /\ value.of = value.as /\ run[j] # Nothing
        /\ run[j].given.error = <<>>
  <2> SUFFICES ASSUME answer[j].error = "none"
               PROVE  /\ answer[j].payload = request[j].hash
                      /\ run[j] # Nothing /\ run[j].given.error = <<>>
    OBVIOUS
  <2>1. run[j] # Nothing /\ answer[j] = ResultOf(run[j].op, run[j].given)
    BY <1>1 DEF Inv, Answered
  <2>2. run[j].op.mode = "call" /\ run[j].op.hash = request[j].hash
    BY <1>1, <2>1 DEF Inv, RanAsSent
  <2>3. run[j].given.error = <<>>
    BY <2>1, Classified DEF ResultOf
  <2> QED BY <2>1, <2>2, <2>3 DEF ResultOf, NoAnswer
<1> HIDE DEF value
<1>3. /\ output'[j] = value /\ stage'[j] = "idle"
      /\ \A k \in Job \ {j} : output'[k] = output[k] /\ stage'[k] = stage[k]
  BY <1>1 DEF Inv, Domains
<1>4. Domains'
  BY <1>1 DEF Inv, Domains
<1>5. ServesOperations' /\ DescribedServed' /\ RanAsSent'
  BY <1>1 DEF Inv, ServesOperations, DescribedServed, Serves, RanAsSent
<1>6. Answered' /\ Pending'
  BY <1>1, <1>3 DEF Inv, Answered, Pending
<1>7. OutputTyped'
  BY <1>1, <1>2, <1>3 DEF Inv, OutputTyped
<1> QED BY <1>4, <1>5, <1>6, <1>7 DEF Inv

\* Sending a request forgets the one before.
LEMMA SendStep ==
  ASSUME Inv, NEW j \in Job, Send(j)
  PROVE  Inv'
<1>1. PICK op \in Contracts : request' = [request EXCEPT ![j] = op]
  BY DEF Send
<1>2. /\ UNCHANGED <<provider, answer>>
      /\ stage' = [stage EXCEPT ![j] = "sent"]
      /\ run' = [run EXCEPT ![j] = Nothing]
      /\ output' = [output EXCEPT ![j] = Nothing]
  BY DEF Send
<1>3. /\ run'[j] = Nothing /\ output'[j] = Nothing /\ stage'[j] = "sent"
      /\ \A k \in Job \ {j} :
           /\ run'[k] = run[k] /\ output'[k] = output[k]
           /\ stage'[k] = stage[k] /\ request'[k] = request[k]
  BY <1>1, <1>2 DEF Inv, Domains
<1>4. Domains'
  BY <1>1, <1>2 DEF Inv, Domains
<1>5. ServesOperations' /\ DescribedServed'
  BY <1>2 DEF Inv, ServesOperations, DescribedServed, Serves
<1>6. RanAsSent' /\ Answered'
  BY <1>2, <1>3 DEF Inv, RanAsSent, Answered
<1>7. Pending' /\ OutputTyped'
  BY <1>2, <1>3 DEF Inv, Pending, OutputTyped
<1> QED BY <1>4, <1>5, <1>6, <1>7 DEF Inv

\* Delivering again and recording move the stage only.
LEMMA StageStep ==
  ASSUME Inv, NEW j \in Job, Redeliver(j) \/ Record(j)
  PROVE  Inv'
<1>1. /\ UNCHANGED <<provider, request, run, answer, output>>
      /\ stage[j] = "replied"
      /\ stage' = [stage EXCEPT ![j] = "sent"] \/ stage' = [stage EXCEPT ![j] = "idle"]
  BY DEF Redeliver, Record
<1>2. /\ stage'[j] # "replied" /\ output[j] = Nothing /\ DOMAIN stage' = Job
      /\ \A k \in Job \ {j} : stage'[k] = stage[k]
  BY <1>1 DEF Inv, Domains, Pending
<1>3. Domains' /\ ServesOperations' /\ DescribedServed' /\ RanAsSent' /\ OutputTyped'
  BY <1>1, <1>2 DEF Inv, Domains, ServesOperations, DescribedServed, Serves,
                    RanAsSent, OutputTyped
<1>4. Answered' /\ Pending'
  BY <1>1, <1>2 DEF Inv, Answered, Pending
<1> QED BY <1>3, <1>4 DEF Inv

-----------------------------------------------------------------------------
\* The invariant holds through deployments and redeliveries.
LEMMA Invariant == Spec => []Inv
<1>1. Init => Inv
  BY DEF Init, Inv, Domains, ServesOperations, DescribedServed, RanAsSent,
         Answered, Pending, OutputTyped
<1>2. Inv /\ [Next]_vars => Inv'
  <2> SUFFICES ASSUME Inv, [Next]_vars PROVE Inv'
    OBVIOUS
  <2>1. CASE UNCHANGED vars
    BY <2>1 DEF vars, Inv, Domains, ServesOperations, DescribedServed, Serves,
                RanAsSent, Answered, Pending, OutputTyped
  <2> QED BY <2>1, DeployStep, HandleStep, RefuseStep, ReceiveStep, SendStep,
             StageStep DEF Next
<1> QED BY <1>1, <1>2, PTL DEF Spec

\* A provider serves all it describes.
THEOREM ServesDescribed == Spec => []DescribedServed
<1>1. Inv => DescribedServed
  BY DEF Inv
<1> QED BY <1>1, Invariant, PTL

\* A typed output comes from a handler of the caller's own contract.
THEOREM OutputsTyped == Spec => []OutputTyped
<1>1. Inv => OutputTyped
  BY DEF Inv
<1> QED BY <1>1, Invariant, PTL

\* A failing handler's report reaches the host, its payload does not.
THEOREM ResultsKept == Spec => []ResultKept
<1>1. ASSUME NEW op, NEW given
      PROVE  /\ given.error # <<>> => ResultOf(op, given).report = given.report
             /\ (given.error # <<>> \/ op.mode # "call") =>
                  ResultOf(op, given).payload = Nothing
  BY DEF ResultOf
<1>2. ASSUME Inv
      PROVE  ResultKept
  <2> SUFFICES ASSUME NEW j \in Job, stage[j] = "replied", run[j] # Nothing
               PROVE  /\ run[j].given.error # <<>> =>
                           answer[j].report = run[j].given.report
                      /\ (run[j].given.error # <<>> \/ run[j].op.mode # "call") =>
                           answer[j].payload = Nothing
    BY DEF ResultKept
  <2>1. answer[j] = ResultOf(run[j].op, run[j].given)
    BY <1>2 DEF Inv, Answered
  <2> QED BY <1>1, <2>1
<1> QED BY <1>2, Invariant, PTL

-----------------------------------------------------------------------------
\* What Adapter.Call answers has its type.
LEMMA ResultTyped ==
  ASSUME NEW op \in Operation, NEW given \in Outcome
  PROVE  ResultOf(op, given) \in
           [error : Classes \cup {"none", "unclassified"},
            payload : Hash \cup {Nothing}, report : BOOLEAN]
<1>1. ErrorClassificationOf(given.error) \in Classes \cup {"unclassified"}
  BY DEF ErrorClassificationOf, ClassOf, NewProviderError, Classes
<1>2. op.hash \in Hash /\ given.report \in BOOLEAN
  BY DEF Operation, Outcome
<1> QED BY <1>1, <1>2 DEF ResultOf, NoAnswer

\* What providers are built of are operations, and they serve no others.
LEMMA BoundTyped ==
  ASSUME NEW ops \in Builds
  PROVE  /\ Bound(ops).described \subseteq Operation
         /\ \A k \in DOMAIN Bound(ops).serves : Bound(ops).serves[k] \in Bound(ops).described
<1>1. ops \in Seq(Operation)
  BY Shape
<1>2. OpsOf(ops) \subseteq Operation
  BY <1>1 DEF OpsOf
<1>3. ASSUME NEW k \in {op.key : op \in OpsOf(ops)}
      PROVE  (CHOOSE op \in OpsOf(ops) : op.key = k) \in OpsOf(ops)
  <2>1. \E op \in OpsOf(ops) : op.key = k
    OBVIOUS
  <2> QED BY <2>1
<1> QED BY <1>2, <1>3 DEF Bound

\* Every step keeps the types.
LEMMA TypeStep ==
  ASSUME TypeOK, Inv, [Next]_vars
  PROVE  TypeOK'
<1> DEFINE Runs    == [op : Operation, given : Outcomes] \cup {Nothing}
           Answers == [error : Classes \cup {"none", "unclassified"},
                       payload : Hash \cup {Nothing}, report : BOOLEAN]
<1> USE DEF TypeOK
<1>1. ASSUME NEW id \in Identity, Deploy(id) PROVE TypeOK'
  <2>1. PICK ops \in Builds : provider' = [provider EXCEPT ![id] = Bound(ops)]
    BY <1>1 DEF Deploy
  <2>2. /\ provider'[id] = Bound(ops)
        /\ \A other \in Identity \ {id} : provider'[other] = provider[other]
    BY <2>1 DEF Inv, Domains
  <2> QED BY <1>1, <2>2, BoundTyped DEF Deploy
<1>2. ASSUME NEW j \in Job, NEW id \in Identity, Handle(j, id) PROVE TypeOK'
  <2> DEFINE op == provider[id].serves[request[j].key]
  <2>1. PICK given \in Outcomes :
          /\ run' = [run EXCEPT ![j] = [op |-> op, given |-> given]]
          /\ answer' = [answer EXCEPT ![j] = ResultOf(op, given)]
          /\ stage' = [stage EXCEPT ![j] = "replied"]
    BY <1>2 DEF Handle, Replied
  <2>2. op \in Operation /\ given \in Outcome
    BY <1>2, Shape DEF Inv, ServesOperations, Serves, Handle
  <2> HIDE DEF op
  <2>3. [op |-> op, given |-> given] \in Runs /\ ResultOf(op, given) \in Answers
    BY <2>2, ResultTyped
  <2> HIDE DEF Runs, Answers
  <2>4. run' \in [Job -> Runs] /\ answer' \in [Job -> Answers]
    BY <2>1, <2>3 DEF Runs, Answers
  <2>5. /\ UNCHANGED <<provider, request, output>> /\ stage[j] = "sent"
        /\ stage' \in [Job -> {"idle", "sent", "replied"}]
        /\ \A k \in Job : stage'[k] # "idle" => request[k] # Nothing
    BY <1>2, <2>1 DEF Handle
  <2> QED BY <2>4, <2>5 DEF Runs, Answers
<1>3. ASSUME NEW j \in Job, NEW id \in Identity, Refuse(j, id) PROVE TypeOK'
  <2>1. [NoAnswer EXCEPT !.error = "unclassified"] \in Answers
    BY DEF NoAnswer
  <2>2. /\ answer' = [answer EXCEPT ![j] = [NoAnswer EXCEPT !.error = "unclassified"]]
        /\ stage' = [stage EXCEPT ![j] = "replied"] /\ stage[j] = "sent"
        /\ run' = [run EXCEPT ![j] = Nothing]
        /\ UNCHANGED <<provider, request, output>>
    BY <1>3 DEF Refuse, Replied
  <2> HIDE DEF Answers
  <2>3. answer' \in [Job -> Answers]
    BY <2>1, <2>2 DEF Answers
  <2> QED BY <2>2, <2>3 DEF Answers
<1>4. ASSUME NEW j \in Job, Send(j) PROVE TypeOK'
  <2>1. PICK op \in Contracts : request' = [request EXCEPT ![j] = op]
    BY <1>4 DEF Send
  <2>2. op # Nothing
    BY Shape
  <2>3. request'[j] # Nothing /\ \A k \in Job \ {j} : request'[k] = request[k]
    BY <2>1, <2>2
  <2> QED BY <1>4, <2>1, <2>3 DEF Send, Requested
<1>5. ASSUME NEW j \in Job, Receive(j) PROVE TypeOK'
  <2>1. decodeStrict(request[j].hash, answer[j].payload) =>
          [of |-> answer[j].payload, as |-> request[j].hash] \in [of : Hash, as : Hash]
    BY Shape DEF decodeStrict
  <2> QED BY <1>5, <2>1 DEF Receive
<1>6. ASSUME NEW j \in Job, Redeliver(j) \/ Record(j) PROVE TypeOK'
  BY <1>6 DEF Redeliver, Record
<1>7. CASE UNCHANGED vars
  BY <1>7 DEF vars
<1> QED BY <1>1, <1>2, <1>3, <1>4, <1>5, <1>6, <1>7 DEF Next

\* Every variable has its type.
THEOREM TypeCorrect == Spec => []TypeOK
<1>1. Init => TypeOK
  BY DEF Init, TypeOK, Requested, NoAnswer
<1>2. TypeOK /\ Inv /\ [Next]_vars => TypeOK'
  BY TypeStep
<1> QED BY <1>1, <1>2, Invariant, PTL DEF Spec

\* Only what the handler said first classes a failure as worth a retry or as
\* uncertain.
THEOREM ClassesFromHandlers == Spec => []ClassFromHandler
<1>1. ASSUME TypeOK, Inv PROVE ClassFromHandler
  <2> SUFFICES ASSUME NEW j \in Job, stage[j] = "replied",
                      answer[j].error \in {"retryable", "uncertain"}
               PROVE  /\ run[j] # Nothing
                      /\ \E i \in DOMAIN run[j].given.error :
                           /\ run[j].given.error[i].class = answer[j].error
                           /\ run[j].given.error[i].coded
                           /\ \A k \in 1 .. i - 1 : run[j].given.error[k].class = "plain"
    BY DEF ClassFromHandler
  <2>1. run[j] # Nothing /\ answer[j] = ResultOf(run[j].op, run[j].given)
    BY <1>1 DEF Inv, Answered
  <2> DEFINE error == run[j].given.error
             i == CHOOSE k \in DOMAIN error : Found(error, k)
  <2>2. answer[j].error = ErrorClassificationOf(error)
    BY <2>1 DEF ResultOf, NoAnswer
  <2>3. \E k \in DOMAIN error : Found(error, k)
    BY <2>2 DEF ErrorClassificationOf
  <2>4. i \in DOMAIN error /\ Found(error, i)
    BY <2>3
  <2>5. answer[j].error = NewProviderError(error[i])
    BY <2>2, <2>3 DEF ErrorClassificationOf, ClassOf
  <2> HIDE DEF i, error
  <2>6. error[i].class = answer[j].error /\ error[i].coded
    BY <2>5 DEF NewProviderError
  <2> QED BY <2>1, <2>4, <2>6 DEF Found, error
<1> QED BY <1>1, TypeCorrect, Invariant, PTL
-----------------------------------------------------------------------------
(* What the host can conclude from an answer.                               *)

HealthLostOnlyUnencoded ==
  \A j \in Job : (stage[j] = "replied" /\ run[j] # Nothing) =>
    (answer[j].report # run[j].given.report <=>
       Unencoded(j) /\ run[j].given.report)

FailureIsTold ==
  \A j \in Job : (stage[j] = "replied" /\ answer[j].error # "none") =>
    \/ run[j] = Nothing
    \/ run[j].given.error # <<>>
    \/ Unencoded(j)

\* Runs are of handlers' outcomes.
LEMMA RunsTyped ==
  ASSUME TypeOK, NEW j \in Job, run[j] # Nothing
  PROVE  run[j].op \in Operation /\ run[j].given \in Outcome
BY Shape DEF TypeOK

(* The whole extent of what provider.go loses of a report (see              *)
(* HealthPreserved): the host misses a response reference, secret updates   *)
(* or resource health that a handler returned if and only if the handler    *)
(* succeeded and its output does not encode.                                *)
THEOREM HealthLostOnly == Spec => []HealthLostOnlyUnencoded
<1>1. ASSUME TypeOK, Inv PROVE HealthLostOnlyUnencoded
  <2> SUFFICES ASSUME NEW j \in Job, stage[j] = "replied", run[j] # Nothing
               PROVE  answer[j].report # run[j].given.report <=>
                        Unencoded(j) /\ run[j].given.report
    BY DEF HealthLostOnlyUnencoded
  <2>1. answer[j] = ResultOf(run[j].op, run[j].given)
    BY <1>1 DEF Inv, Answered
  <2>2. run[j].given.report \in BOOLEAN
    BY <1>1, RunsTyped DEF Outcome
  <2>3. CASE Unencoded(j)
    <3>1. answer[j].report = FALSE
      BY <2>1, <2>3 DEF ResultOf, NoAnswer, Unencoded
    <3> QED BY <2>2, <2>3, <3>1
  <2>4. CASE ~Unencoded(j)
    <3>1. answer[j].report = run[j].given.report
      BY <2>1, <2>4 DEF ResultOf, Unencoded
    <3> QED BY <2>4, <3>1
  <2> QED BY <2>3, <2>4
<1> QED BY <1>1, TypeCorrect, Invariant, PTL

(* No success is invented: an answer without an error means that a handler  *)
(* ran for this very delivery, returned none, and that all it returned      *)
(* arrived, however often the request was refused or answered before.       *)
THEOREM SuccessesAreReal == Spec => []SuccessIsReal
<1>1. ASSUME Inv PROVE SuccessIsReal
  <2> SUFFICES ASSUME NEW j \in Job, stage[j] = "replied", answer[j].error = "none"
               PROVE  /\ run[j] # Nothing /\ run[j].given.error = <<>>
                      /\ run[j].op.hash = request[j].hash
                      /\ ~Unencoded(j) /\ answer[j].report = run[j].given.report
    BY DEF SuccessIsReal
  <2>1. run[j] # Nothing /\ answer[j] = ResultOf(run[j].op, run[j].given)
    BY <1>1 DEF Inv, Answered
  <2>2. run[j].given.error = <<>>
    BY <2>1, Classified DEF ResultOf
  <2>3. ~Unencoded(j)
    BY <2>1, <2>2 DEF ResultOf, NoAnswer, Unencoded
  <2>4. run[j].op.hash = request[j].hash
    BY <1>1, <2>1 DEF Inv, RanAsSent
  <2> QED BY <2>1, <2>2, <2>3, <2>4 DEF ResultOf, Unencoded
<1> QED BY <1>1, Invariant, PTL

(* And none is made out to be a failure but the one whose output does not   *)
(* encode: every other error answers a refusal or a handler that failed.    *)
THEOREM FailuresAreTold == Spec => []FailureIsTold
<1>1. ASSUME Inv PROVE FailureIsTold
  <2> SUFFICES ASSUME NEW j \in Job, stage[j] = "replied", run[j] # Nothing,
                      run[j].given.error = <<>>, ~Unencoded(j)
               PROVE  answer[j].error = "none"
    BY DEF FailureIsTold
  <2>1. answer[j] = ResultOf(run[j].op, run[j].given)
    BY <1>1 DEF Inv, Answered
  <2> QED BY <2>1 DEF ResultOf, Unencoded
<1> QED BY <1>1, Invariant, PTL
===============================================================================
