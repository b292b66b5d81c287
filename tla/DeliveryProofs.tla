---------------------------- MODULE DeliveryProofs ----------------------------
(***************************************************************************)
(* Theorems about deliveries, for any descriptors and number of faults.    *)
(* The invariant says why a request that arrives late or again is          *)
(* harmless: the vendor still knows it.  A host that sends again has an    *)
(* operation that is idempotent by nature, or counts on a key; a key it    *)
(* counts on is remembered, and so is one with which a request is on its   *)
(* way, unless the request outlived it.                                    *)
(***************************************************************************)
EXTENDS Delivery, TLAPS

\* An entry nothing was done for.
Idle(e) ==
  /\ attempts[e] = 0
  /\ wire[e] = {}
  /\ e \notin window
  /\ e \notin remembered \cup outlived
  /\ verdict[e] = "open"

\* The contract e is delivered under is known, and a read is idempotent.
Bound(e) ==
  /\ main # Nothing
  /\ Operation(e) \in Contract
  /\ Operation(e).effect = "read" => Operation(e).strategy = "natural"

EntryOf(e) ==
  /\ IF outbox[e] = "none" THEN Idle(e) ELSE Bound(e)
  /\ (wire[e] # {} /\ verdict[e] # "open") => Known(e) \/ e \in outlived
  /\ (e \in window /\ verdict[e] # "open" /\ Operation(e).strategy = "provider_key") =>
       e \in remembered
  /\ attempts[e] = 0 => verdict[e] = "open"
  /\ outbox[e] = "queued" => attempts[e] = 0 \/ Operation(e).strategy = "natural"
  /\ (outbox[e] # "none" /\ Operation(e).strategy = "none") => attempts[e] <= 1
  /\ e \notin outlived =>
       /\ effects[e] = (IF verdict[e] = "accepted" THEN 1 ELSE 0)
       /\ outbox[e] \in Settled => outbox[e] = verdict[e]

EntryInv == \A e \in Entry : EntryOf(e)

ProviderInv ==
  /\ provider # Nothing =>
       /\ provider \in [ops : Descriptors, reconciles : BOOLEAN]
       /\ DescriptorValid(provider.ops)
  /\ main # Nothing => provider # Nothing /\ main \in DOMAIN provider.ops
  /\ main = Nothing => \A e \in Entry : outbox[e] = "none"
  /\ outbox["undo"] # "none" => outbox["do"] = "accepted"

IInv == TypeOK /\ ProviderInv /\ EntryInv

-----------------------------------------------------------------------------
(* Contracts. *)

\* A valid descriptor has a contract for each of its operations, and the
\* operation that undoes another is one of them.
LEMMA Contracts ==
  ASSUME NEW d \in Descriptors, DescriptorValid(d), NEW k \in DOMAIN d
  PROVE  /\ k \in Key /\ d[k] \in Contract
         /\ d[k].effect = "read" => d[k].strategy = "natural"
         /\ d[k].compensation # "none" => d[k].undo \in DOMAIN d
BY Shape DEF DescriptorValid, ContractValid, UndoTarget

\* What does not touch an entry leaves it as it is.
LEMMA EntryFrame ==
  ASSUME NEW e \in Entry, EntryOf(e), UNCHANGED <<provider, main>>,
         outbox'[e] = outbox[e], attempts'[e] = attempts[e], wire'[e] = wire[e],
         verdict'[e] = verdict[e], effects'[e] = effects[e],
         e \in window' <=> e \in window, e \in remembered' <=> e \in remembered,
         e \in outlived' <=> e \in outlived
  PROVE  EntryOf(e)'
BY DEF EntryOf, Idle, Bound, Known, Operation

LEMMA EntriesFrame ==
  ASSUME EntryInv, UNCHANGED <<provider, main, outbox, attempts, wire, window, vendorVars>>
  PROVE  EntryInv'
BY EntryFrame DEF EntryInv, vendorVars

-----------------------------------------------------------------------------
(* The invariant. *)

LEMMA InitInv == Init => IInv
<1> SUFFICES ASSUME Init PROVE IInv
  OBVIOUS
<1>1. TypeOK
  <2>1. wire \in [Entry -> SUBSET Nat] /\ \A e \in Entry : wire[e] \subseteq 1 .. attempts[e]
    BY DEF Init
  <2>2. outbox \in [Entry -> Stages] /\ verdict \in [Entry -> {"open"} \cup Settled]
    BY DEF Init, Stages
  <2>3. 0 \in 0 .. MaxFaults
    BY Shape
  <2> QED BY <2>1, <2>2, <2>3 DEF Init, TypeOK
<1>2. ProviderInv
  BY DEF Init, ProviderInv, Entry
<1>3. EntryInv
  BY DEF Init, EntryInv, EntryOf, Idle, Settled
<1> QED BY <1>1, <1>2, <1>3 DEF IInv

LEMMA RegisterInv == ASSUME IInv, Register PROVE IInv'
<1> USE DEF IInv
<1>1. PICK d \in Descriptors, b \in BOOLEAN :
        DescriptorValid(d) /\ provider' = [ops |-> d, reconciles |-> b]
  BY DEF Register
<1>2. /\ provider = Nothing
      /\ UNCHANGED <<main, calledOff, outbox, attempts, wire, window, verdict, remembered,
                     effects, outlived, faults>>
  BY DEF Register, vendorVars
<1>3. main = Nothing /\ \A e \in Entry : outbox[e] = "none"
  BY <1>2 DEF ProviderInv
<1>4. TypeOK' /\ ProviderInv'
  BY <1>1, <1>2, <1>3 DEF TypeOK, ProviderInv
<1>5. EntryInv'
  BY <1>2, <1>3 DEF EntryInv, EntryOf, Idle, Settled
<1> QED BY <1>4, <1>5

LEMMA AskInv == ASSUME IInv, NEW k, Ask(k) PROVE IInv'
<1> USE DEF IInv
<1>1. /\ provider # Nothing /\ main = Nothing /\ k \in DOMAIN provider.ops
      /\ main' = k /\ outbox' = [outbox EXCEPT !["do"] = "queued"]
      /\ UNCHANGED <<provider, calledOff, attempts, wire, window, verdict, remembered,
                     effects, outlived, faults>>
  BY DEF Ask, Moved, vendorVars
<1>2. /\ provider \in [ops : Descriptors, reconciles : BOOLEAN] /\ DescriptorValid(provider.ops)
      /\ \A e \in Entry : outbox[e] = "none"
  BY <1>1 DEF ProviderInv
<1>3. /\ k \in Key /\ k # Nothing /\ provider.ops[k] \in Contract
      /\ provider.ops[k].effect = "read" => provider.ops[k].strategy = "natural"
  BY <1>1, <1>2, Contracts, Shape
<1>4. outbox'["do"] = "queued" /\ outbox'["undo"] = "none"
  BY <1>1, <1>2 DEF Entry, TypeOK
<1>5. TypeOK'
  BY <1>1, <1>3 DEF TypeOK, Entry, Stages
<1>6. ProviderInv'
  BY <1>1, <1>2, <1>3, <1>4 DEF ProviderInv
<1>7. EntryOf("do")' /\ EntryOf("undo")'
  <2>1. Idle("do") /\ Idle("undo") /\ effects["do"] = 0 /\ effects["undo"] = 0
    BY <1>2 DEF EntryInv, EntryOf, Idle, Entry
  <2>2. Operation("do")' = provider.ops[k]
    BY <1>1 DEF Operation
  <2>3. Bound("do")'
    BY <1>1, <1>3, <2>2 DEF Bound
  <2> QED BY <1>1, <1>4, <2>1, <2>3 DEF EntryOf, Idle, Settled
<1>8. EntryInv'
  BY <1>7 DEF EntryInv, Entry
<1> QED BY <1>5, <1>6, <1>8

LEMMA CompensateInv == ASSUME IInv, Compensate PROVE IInv'
<1> USE DEF IInv
<1>1. /\ outbox["do"] = "accepted" /\ outbox["undo"] = "none"
      /\ provider.ops[main].compensation # "none"
      /\ outbox' = [outbox EXCEPT !["undo"] = "queued"]
      /\ UNCHANGED <<provider, main, calledOff, attempts, wire, window, verdict, remembered,
                     effects, outlived, faults>>
  BY DEF Compensate, Moved, hostVars, vendorVars
<1>2. main # Nothing /\ provider # Nothing /\ main \in DOMAIN provider.ops
      /\ provider \in [ops : Descriptors, reconciles : BOOLEAN] /\ DescriptorValid(provider.ops)
  BY <1>1 DEF ProviderInv, Entry
<1>3. /\ provider.ops[provider.ops[main].undo] \in Contract
      /\ provider.ops[provider.ops[main].undo].effect = "read" =>
           provider.ops[provider.ops[main].undo].strategy = "natural"
  <2>1. provider.ops[main].undo \in DOMAIN provider.ops
    BY <1>1, <1>2, Contracts
  <2> QED BY <1>2, <2>1, Contracts
<1>4. outbox'["undo"] = "queued" /\ outbox'["do"] = "accepted"
  BY <1>1 DEF TypeOK, Entry
<1>5. TypeOK'
  BY <1>1 DEF TypeOK, Entry, Stages
<1>6. ProviderInv'
  BY <1>1, <1>2, <1>4 DEF ProviderInv
<1>7. EntryOf("undo")'
  <2>1. Idle("undo") /\ effects["undo"] = 0
    BY <1>1 DEF EntryInv, EntryOf, Idle, Entry
  <2>2. Bound("undo")'
    BY <1>1, <1>2, <1>3 DEF Bound, Operation
  <2> QED BY <1>1, <1>4, <2>1, <2>2 DEF EntryOf, Idle, Settled
<1>8. EntryOf("do")'
  BY <1>1, <1>4, EntryFrame DEF EntryInv, Entry
<1> QED BY <1>5, <1>6, <1>7, <1>8 DEF EntryInv, Entry

\* The host moves an entry it is busy with; what it settles is true.
LEMMA MoveInv ==
  ASSUME IInv, NEW e \in Entry, NEW s \in Stages \ {"none"},
         outbox[e] \notin {"none", "accepted", "rejected"}, Moved(e, s),
         s \in Settled => s = verdict[e],
         UNCHANGED <<provider, main, calledOff, attempts, wire, window, vendorVars>>,
         faults' \in 0 .. MaxFaults,
         s = "queued" => Operation(e).strategy = "natural"
  PROVE  IInv'
<1> USE DEF IInv
<1>1. /\ outbox' = [outbox EXCEPT ![e] = s] /\ outbox'[e] = s
      /\ \A f \in Entry \ {e} : outbox'[f] = outbox[f]
      /\ UNCHANGED <<verdict, remembered, effects, outlived>>
  BY DEF Moved, TypeOK, vendorVars
<1>2. TypeOK'
  BY <1>1 DEF TypeOK
<1>3. ProviderInv'
  BY <1>1 DEF ProviderInv, Entry
<1>4. EntryOf(e)'
  <2>1. EntryOf(e)
    BY DEF EntryInv
  <2>2. outbox'[e] # "none" /\ outbox[e] # "none"
    BY <1>1
  <2>3. Operation(e)' = Operation(e)
    BY DEF Operation
  <2> QED BY <1>1, <2>1, <2>2, <2>3 DEF EntryOf, Bound, Known
<1>5. \A f \in Entry \ {e} : EntryOf(f)'
  BY <1>1, EntryFrame DEF EntryInv
<1> QED BY <1>2, <1>3, <1>4, <1>5 DEF EntryInv

LEMMA SendInv == ASSUME IInv, NEW e \in Entry, Send(e) PROVE IInv'
<1> USE DEF IInv
<1> DEFINE n == attempts[e] + 1
<1>1. /\ outbox[e] = "queued" \/ (outbox[e] = "retry" /\ MayRetry(e))
      /\ outbox' = [outbox EXCEPT ![e] = "sent"]
      /\ attempts' = [attempts EXCEPT ![e] = n]
      /\ wire' = [wire EXCEPT ![e] = @ \cup {n}]
      /\ window' = IF attempts[e] = 0 /\ Operation(e).retention > 0
                     THEN window \cup {e} ELSE window
      /\ UNCHANGED <<provider, main, calledOff, verdict, remembered, effects, outlived, faults>>
  BY DEF Send, Moved, hostVars, vendorVars
<1>2. attempts[e] \in Nat /\ n \in Nat /\ wire[e] \subseteq 1 .. attempts[e]
  BY DEF TypeOK
<1>3. /\ outbox'[e] = "sent" /\ attempts'[e] = n /\ wire'[e] = wire[e] \cup {n}
      /\ \A f \in Entry \ {e} : /\ outbox'[f] = outbox[f] /\ attempts'[f] = attempts[f]
                                /\ wire'[f] = wire[f] /\ (f \in window' <=> f \in window)
  BY <1>1 DEF TypeOK
<1>4. TypeOK'
  <2>1. wire'[e] \subseteq 1 .. attempts'[e]
    BY <1>2, <1>3
  <2>2. \A f \in Entry : wire'[f] \subseteq 1 .. attempts'[f]
    BY <1>3, <2>1 DEF TypeOK
  <2>3. attempts' \in [Entry -> Nat] /\ outbox' \in [Entry -> Stages] /\ window' \subseteq Entry
    BY <1>1, <1>2 DEF TypeOK, Stages
  <2> QED BY <1>1, <2>2, <2>3 DEF TypeOK
<1>5. ProviderInv'
  BY <1>1, <1>3 DEF ProviderInv, Entry
<1>6. EntryOf(e)'
  <2>1. EntryOf(e) /\ Operation(e)' = Operation(e)
    BY <1>1 DEF EntryInv, Operation
  <2>2. verdict[e] # "open" => Known(e)
    BY <1>1, <2>1 DEF EntryOf, MayRetry, Known
  <2>3. attempts'[e] # 0
    BY <1>2, <1>3
  <2>4. Bound(e)'
    BY <1>1, <2>1 DEF EntryOf, Bound
  <2>5. e \in window' => e \in window \/ verdict[e] = "open"
    BY <1>1, <2>1 DEF EntryOf
  <2>6. Operation(e).strategy = "none" => attempts[e] = 0
    BY <1>1, <2>1 DEF EntryOf, MayRetry
  <2>7. Operation(e)'.strategy = "none" => attempts'[e] <= 1
    BY <1>2, <1>3, <2>1, <2>6
  <2> QED
    BY <1>1, <1>3, <2>1, <2>2, <2>3, <2>4, <2>5, <2>7 DEF EntryOf, Known, Settled
<1>7. \A f \in Entry \ {e} : EntryOf(f)'
  BY <1>1, <1>3, EntryFrame DEF EntryInv
<1> QED BY <1>4, <1>5, <1>6, <1>7 DEF EntryInv

LEMMA CloseWindowInv == ASSUME IInv, NEW e \in Entry, CloseWindow(e) PROVE IInv'
<1> USE DEF IInv
<1>1. /\ e \in window /\ window' = window \ {e}
      /\ UNCHANGED <<provider, main, calledOff, outbox, attempts, wire, verdict, remembered,
                     effects, outlived, faults>>
  BY DEF CloseWindow, hostVars, vendorVars
<1>2. TypeOK' /\ ProviderInv'
  BY <1>1 DEF TypeOK, ProviderInv
<1>3. \A f \in Entry : EntryOf(f)'
  BY <1>1 DEF EntryInv, EntryOf, Idle, Bound, Known, Operation
<1> QED BY <1>2, <1>3 DEF EntryInv

LEMMA ForgetInv == ASSUME IInv, NEW e \in Entry, Forget(e) PROVE IInv'
<1> USE DEF IInv
<1>1. /\ e \in remembered /\ e \notin window /\ remembered' = remembered \ {e}
      /\ outlived' = (IF wire[e] = {} THEN outlived ELSE outlived \cup {e})
      /\ UNCHANGED <<provider, main, calledOff, outbox, attempts, wire, window, verdict,
                     effects, faults>>
  BY DEF Forget, hostVars
<1>2. TypeOK' /\ ProviderInv'
  BY <1>1 DEF TypeOK, ProviderInv
<1>3. EntryOf(e)'
  <2>1. EntryOf(e) /\ outbox[e] # "none" /\ Operation(e)' = Operation(e)
    BY <1>1 DEF EntryInv, EntryOf, Idle, Operation
  <2>2. e \notin outlived' => wire[e] = {} /\ e \notin outlived
    BY <1>1
  <2> QED BY <1>1, <2>1, <2>2 DEF EntryOf, Bound, Known
<1>4. \A f \in Entry \ {e} : EntryOf(f)'
  BY <1>1, EntryFrame DEF EntryInv
<1> QED BY <1>2, <1>3, <1>4 DEF EntryInv

\* A request is no longer on its way.
LEMMA Dropped ==
  ASSUME TypeOK, NEW e \in Entry, NEW n, wire' = [wire EXCEPT ![e] = @ \ {n}],
         UNCHANGED attempts
  PROVE  /\ wire' \in [Entry -> SUBSET Nat]
         /\ wire'[e] = wire[e] \ {n}
         /\ \A f \in Entry \ {e} : wire'[f] = wire[f]
         /\ \A f \in Entry : wire'[f] \subseteq 1 .. attempts'[f]
<1>1. /\ wire' \in [Entry -> SUBSET Nat] /\ wire'[e] = wire[e] \ {n}
      /\ \A f \in Entry \ {e} : wire'[f] = wire[f]
  BY DEF TypeOK
<1> QED BY <1>1 DEF TypeOK

\* A request is lost, or answered without being carried out.
LEMMA DropInv ==
  ASSUME IInv, NEW e \in Entry, NEW n \in wire[e],
         wire' = [wire EXCEPT ![e] = @ \ {n}], faults' \in 0 .. MaxFaults,
         UNCHANGED <<provider, main, calledOff, attempts, window, vendorVars>>,
         UNCHANGED outbox \/ (outbox[e] = "sent" /\ Moved(e, "retry"))
  PROVE  IInv'
<1> USE DEF IInv
<1>1. UNCHANGED <<verdict, remembered, effects, outlived>>
  BY DEF vendorVars
<1>2. /\ wire' \in [Entry -> SUBSET Nat] /\ wire'[e] = wire[e] \ {n}
      /\ \A f \in Entry \ {e} : wire'[f] = wire[f]
      /\ \A f \in Entry : wire'[f] \subseteq 1 .. attempts'[f]
  BY Dropped
<1>3. /\ outbox' \in [Entry -> Stages] /\ \A f \in Entry \ {e} : outbox'[f] = outbox[f]
      /\ outbox'[e] = outbox[e] \/ (outbox[e] = "sent" /\ outbox'[e] = "retry")
  BY DEF Moved, TypeOK, Stages
<1>4. TypeOK'
  BY <1>1, <1>2, <1>3 DEF TypeOK
<1>5. ProviderInv'
  <2>1. outbox'["undo"] # "none" => outbox["undo"] # "none"
    BY <1>3 DEF Entry
  <2>2. outbox["do"] = "accepted" => outbox'["do"] = "accepted"
    BY <1>3 DEF Entry
  <2>3. main = Nothing => \A f \in Entry : outbox'[f] = "none"
    BY <1>3 DEF ProviderInv
  <2> QED BY <2>1, <2>2, <2>3 DEF ProviderInv
<1>6. EntryOf(e)'
  <2>1. EntryOf(e) /\ Operation(e)' = Operation(e)
    BY DEF EntryInv, Operation
  <2> QED BY <1>1, <1>2, <1>3, <2>1 DEF EntryOf, Idle, Bound, Known, Settled
<1>7. \A f \in Entry \ {e} : EntryOf(f)'
  BY <1>1, <1>2, <1>3, EntryFrame DEF EntryInv
<1> QED BY <1>4, <1>5, <1>6, <1>7 DEF EntryInv

\* The vendor takes a request: it knows it, or decides on the entry.  Unless
\* the request outlived the vendor's memory it does so for the first time.
LEMMA Judged ==
  ASSUME IInv, NEW e \in Entry, wire[e] # {}, NEW v \in Settled, Judge(e, v)
  PROVE  /\ verdict' = [verdict EXCEPT ![e] = v]
         /\ remembered' = (IF Operation(e).strategy = "provider_key"
                             THEN remembered \cup {e} ELSE remembered)
         /\ outlived' = outlived
         /\ effects' \in [Entry -> Nat]
         /\ \A f \in Entry \ {e} : effects'[f] = effects[f]
         /\ e \notin outlived =>
              /\ verdict[e] \in {"open", v}
              /\ effects'[e] = (IF v = "accepted" THEN 1 ELSE 0)
<1> USE DEF IInv
<1>1. /\ EntryOf(e)
      /\ verdict \in [Entry -> {"open"} \cup Settled] /\ effects \in [Entry -> Nat]
  BY DEF EntryInv, TypeOK
<1>2. CASE ~Known(e)
  <2>1. /\ verdict' = [verdict EXCEPT ![e] = v]
        /\ effects' = (IF v = "accepted" THEN [effects EXCEPT ![e] = @ + 1] ELSE effects)
        /\ remembered' = (IF Operation(e).strategy = "provider_key"
                            THEN remembered \cup {e} ELSE remembered)
        /\ outlived' = outlived
    BY <1>2 DEF Judge
  <2>2. /\ effects' \in [Entry -> Nat]
        /\ \A f \in Entry \ {e} : effects'[f] = effects[f]
        /\ effects'[e] = (IF v = "accepted" THEN effects[e] + 1 ELSE effects[e])
    <3>1. CASE v = "accepted"
      BY <1>1, <2>1, <3>1
    <3>2. CASE v # "accepted"
      BY <1>1, <2>1, <3>2
    <3> QED BY <3>1, <3>2
  <2>3. e \notin outlived => verdict[e] = "open" /\ effects[e] = 0
    BY <1>1, <1>2 DEF EntryOf
  <2> QED BY <2>1, <2>2, <2>3
<1>3. CASE Known(e)
  <2>1. v = verdict[e] /\ UNCHANGED <<verdict, remembered, effects, outlived>>
    BY <1>3 DEF Judge, vendorVars
  <2>2. e \notin outlived => effects[e] = (IF v = "accepted" THEN 1 ELSE 0)
    BY <1>1, <2>1 DEF EntryOf
  <2>3. Operation(e).strategy = "provider_key" => e \in remembered
    BY <1>3 DEF Known
  <2> QED BY <1>1, <2>1, <2>2, <2>3
<1> QED BY <1>2, <1>3

\* The vendor decides on an entry and the host perhaps hears of it.
LEMMA JudgeInv ==
  ASSUME IInv, NEW e \in Entry, NEW n \in wire[e], NEW v \in Settled, Judge(e, v),
         wire' = [wire EXCEPT ![e] = @ \ {n}],
         UNCHANGED <<provider, main, calledOff, attempts, window>>, faults' \in 0 .. MaxFaults,
         UNCHANGED outbox \/ (outbox[e] = "sent" /\ Moved(e, v))
                          \/ (outbox[e] = "sent" /\ Moved(e, "retry"))
  PROVE  IInv'
<1> USE DEF IInv
<1>1. /\ verdict' = [verdict EXCEPT ![e] = v] /\ outlived' = outlived
      /\ effects' \in [Entry -> Nat] /\ \A f \in Entry \ {e} : effects'[f] = effects[f]
      /\ remembered' = (IF Operation(e).strategy = "provider_key"
                          THEN remembered \cup {e} ELSE remembered)
      /\ e \notin outlived =>
           verdict[e] \in {"open", v} /\ effects'[e] = (IF v = "accepted" THEN 1 ELSE 0)
  BY Judged
<1>2. /\ wire' \in [Entry -> SUBSET Nat] /\ wire'[e] = wire[e] \ {n}
      /\ \A f \in Entry \ {e} : wire'[f] = wire[f]
      /\ \A f \in Entry : wire'[f] \subseteq 1 .. attempts'[f]
  BY Dropped
<1>3. /\ outbox' \in [Entry -> Stages]
      /\ outbox'[e] \in {outbox[e], v, "retry"} /\ (outbox[e] = "none" => outbox'[e] = "none")
      /\ outbox[e] # "none" => outbox'[e] # "none"
      /\ outbox'[e] \in Settled => outbox'[e] = v \/ outbox[e] \in Settled
      /\ outbox'[e] = "queued" => outbox[e] = "queued"
      /\ outbox[e] = "accepted" => outbox'[e] = "accepted"
      /\ \A f \in Entry \ {e} : outbox'[f] = outbox[f]
  BY DEF Moved, TypeOK, Settled, Stages
<1>4. /\ verdict'[e] = v /\ outlived' = outlived
      /\ \A f \in Entry \ {e} : /\ verdict'[f] = verdict[f] /\ effects'[f] = effects[f]
                                /\ (f \in remembered' <=> f \in remembered)
  BY <1>1 DEF TypeOK
<1>5. TypeOK'
  <2>1. /\ verdict' \in [Entry -> {"open"} \cup Settled] /\ effects' \in [Entry -> Nat]
        /\ remembered' \subseteq Entry
    BY <1>1 DEF TypeOK
  <2> QED BY <1>2, <1>3, <1>4, <2>1 DEF TypeOK
<1>6. ProviderInv'
  <2>1. outbox'["undo"] # "none" => outbox["undo"] # "none"
    BY <1>3 DEF Entry
  <2>2. outbox["do"] = "accepted" => outbox'["do"] = "accepted"
    BY <1>3 DEF Entry
  <2>3. main = Nothing => \A f \in Entry : outbox'[f] = "none"
    BY <1>3 DEF ProviderInv
  <2> QED BY <2>1, <2>2, <2>3 DEF ProviderInv
<1>7. EntryOf(e)'
  <2>1. EntryOf(e) /\ Operation(e)' = Operation(e)
    BY DEF EntryInv, Operation
  <2>2. outbox[e] # "none" /\ attempts[e] # 0
    <3>1. attempts[e] # 0
      BY DEF TypeOK
    <3> QED BY <2>1, <3>1 DEF EntryOf, Idle
  <2>3. Bound(e)' /\ outbox'[e] # "none"
    BY <1>3, <2>1, <2>2 DEF EntryOf, Bound
  <2>4. wire'[e] # {} => Known(e)' \/ e \in outlived'
    <3>1. CASE verdict[e] # "open" /\ e \notin outlived
      <4>1. Known(e)
        BY <2>1, <3>1 DEF EntryOf
      <4> QED BY <1>1, <1>4, <2>1, <4>1 DEF Known, Settled
    <3>2. CASE Operation(e).strategy = "none"
      <4>1. attempts[e] <= 1 /\ wire[e] \subseteq 1 .. attempts[e] /\ attempts[e] \in Nat
        BY <2>1, <2>2, <3>2 DEF EntryOf, TypeOK
      <4>2. wire'[e] = {}
        BY <1>2, <4>1
      <4> QED BY <4>2
    <3>3. CASE Operation(e).strategy # "none"
      <4>1. Operation(e).strategy \in {"natural", "provider_key"}
        BY <2>1, <2>2, <3>3 DEF EntryOf, Bound, Contract, Strategies
      <4> QED BY <1>1, <1>4, <2>1, <4>1 DEF Known, Settled
    <3>4. CASE e \in outlived
      BY <1>1, <3>4
    <3> QED BY <3>1, <3>2, <3>3, <3>4
  <2>5. Operation(e)'.strategy = "provider_key" => e \in remembered'
    BY <1>1, <2>1
  <2>6. e \notin outlived' =>
          /\ effects'[e] = (IF verdict'[e] = "accepted" THEN 1 ELSE 0)
          /\ outbox'[e] \in Settled => outbox'[e] = verdict'[e]
    BY <1>1, <1>3, <1>4, <2>1 DEF EntryOf, Settled
  <2>7. outbox'[e] = "queued" => attempts'[e] = 0 \/ Operation(e)'.strategy = "natural"
    BY <1>3, <2>1 DEF EntryOf
  <2>8. Operation(e)'.strategy = "none" => attempts'[e] <= 1
    BY <2>1, <2>2 DEF EntryOf
  <2> QED BY <1>4, <2>2, <2>3, <2>4, <2>5, <2>6, <2>7, <2>8 DEF EntryOf
<1>8. \A f \in Entry \ {e} : EntryOf(f)'
  BY <1>2, <1>3, <1>4, EntryFrame DEF EntryInv
<1> QED BY <1>5, <1>6, <1>7, <1>8 DEF EntryInv

\* A crash leaves nothing settled that was not, and nothing to send anew.
LEMMA CrashInv == ASSUME IInv, Crash PROVE IInv'
<1> USE DEF IInv
<1>1. /\ faults < MaxFaults /\ faults' = faults + 1
      /\ UNCHANGED <<provider, main, calledOff, attempts, wire, window, verdict, remembered,
                     effects, outlived>>
  BY DEF Crash, Spent, hostVars, vendorVars
<1>2. /\ outbox' \in [Entry -> Stages]
      /\ \A e \in Entry :
           \/ outbox'[e] = outbox[e]
           \/ /\ outbox[e] \in {"queued", "sent", "retry", "doubt"}
              /\ outbox'[e] \in {"lost", "doubt"}
  BY DEF Crash, TypeOK, Stages
<1>3. TypeOK'
  BY <1>1, <1>2, Shape DEF TypeOK
<1>4. ProviderInv'
  <2>1. outbox'["undo"] # "none" => outbox["undo"] # "none"
    BY <1>2 DEF Entry
  <2>2. outbox["do"] = "accepted" => outbox'["do"] = "accepted"
    BY <1>2 DEF Entry
  <2>3. main = Nothing => \A e \in Entry : outbox'[e] = "none"
    BY <1>2 DEF ProviderInv
  <2> QED BY <1>1, <2>1, <2>2, <2>3 DEF ProviderInv
<1>5. ASSUME NEW e \in Entry PROVE EntryOf(e)'
  <2>1. EntryOf(e) /\ Operation(e)' = Operation(e)
    BY <1>1 DEF EntryInv, Operation
  <2> QED BY <1>1, <1>2, <2>1 DEF EntryOf, Idle, Bound, Known, Settled
<1> QED BY <1>3, <1>4, <1>5 DEF EntryInv

\* What a lookup tells that the host acts on is what the vendor decided.
LEMMA LookupTrue ==
  ASSUME IInv, NEW e \in Entry, NEW r \in LookupResults, Says(e, r), Concludes(r) \in Settled
  PROVE  Concludes(r) = verdict[e]
<1>1. r.outcome \in {"succeeded", "failed", "pending", "not_found", "unknown"}
  BY DEF LookupResults, Outcomes
<1>2. ~ResultValid(r) => Concludes(r) = "doubt"
  BY DEF Concludes
<1>3. r.outcome = "not_found" => Concludes(r) \in {"doubt", "retry"}
  BY DEF Concludes
<1>4. r.outcome \in {"pending", "unknown"} => Concludes(r) = "doubt"
  BY DEF Concludes
<1>5. /\ ResultValid(r)
      /\ \/ r.outcome = "succeeded" /\ Concludes(r) = "accepted"
         \/ r.outcome = "failed" /\ Concludes(r) = "rejected"
  <2>1. ResultValid(r) /\ r.outcome \in {"succeeded", "failed"}
    BY <1>1, <1>2, <1>3, <1>4 DEF Settled
  <2> QED BY <2>1 DEF Concludes
<1>6. (r.outcome = "succeeded" => ~r.code) /\ (r.outcome = "failed" => r.code)
  BY <1>5 DEF ResultValid
<1>7. /\ r.code <=> verdict[e] = "rejected"
      /\ r.outcome = "succeeded" => verdict[e] # "open"
  BY DEF Says, TrueOutcome
<1>8. verdict[e] \in {"open"} \cup Settled
  BY DEF IInv, TypeOK
<1>9. CASE r.outcome = "succeeded"
  BY <1>5, <1>6, <1>7, <1>8, <1>9 DEF Settled
<1>10. CASE r.outcome = "failed"
  BY <1>5, <1>6, <1>7, <1>10
<1> QED BY <1>5, <1>9, <1>10

LEMMA ReconcileInv == ASSUME IInv, NEW e \in Entry, Reconcile(e) PROVE IInv'
<1>1. PICK r \in LookupResults : Says(e, r) /\ Moved(e, Concludes(r))
  BY DEF Reconcile
<1>2. faults' \in 0 .. MaxFaults
  BY <1>1, Shape DEF Says, Spent, IInv, TypeOK
<1>3. Concludes(r) \in Stages \ {"none", "queued"}
  BY DEF Concludes, Stages, Settled
<1>4. Concludes(r) \in Settled => Concludes(r) = verdict[e]
  BY <1>1, LookupTrue
<1> QED BY <1>1, <1>2, <1>3, <1>4, MoveInv DEF Reconcile, hostVars

\* Every step of a delivery keeps the invariant.
LEMMA StepInv == ASSUME IInv, [Next]_vars PROVE IInv'
<1> USE DEF hostVars
<1>0. ASSUME NEW e \in Entry, outbox[e] # "none", Operation(e).effect = "read"
      PROVE  Operation(e).strategy = "natural"
  BY <1>0 DEF IInv, EntryInv, EntryOf, Bound
<1>1. CASE Register
  BY <1>1, RegisterInv
<1>2. CASE CallOff
  <2>1. TypeOK' /\ ProviderInv'
    BY <1>2 DEF CallOff, IInv, TypeOK, ProviderInv, vendorVars
  <2> QED BY <1>2, <2>1, EntriesFrame DEF CallOff, IInv
<1>3. CASE Compensate
  BY <1>3, CompensateInv
<1>4. ASSUME NEW k \in Key, Ask(k) PROVE IInv'
  BY <1>4, AskInv
<1>5. ASSUME NEW e \in Entry, Send(e) PROVE IInv'
  BY <1>5, SendInv
<1>6. ASSUME NEW e \in Entry, Refrain(e) PROVE IInv'
  BY <1>6, MoveInv DEF Refrain, Stages, Settled, IInv, TypeOK
<1>7. ASSUME NEW e \in Entry, CloseWindow(e) PROVE IInv'
  BY <1>7, CloseWindowInv
<1>8. ASSUME NEW e \in Entry, TimeOut(e) PROVE IInv'
  <2>1. faults' \in 0 .. MaxFaults
    BY <1>8, Shape DEF TimeOut, Spent, IInv, TypeOK
  <2> QED BY <1>8, <2>1, MoveInv DEF TimeOut, Stages, Settled
<1>9. ASSUME NEW e \in Entry, GiveUp(e) PROVE IInv'
  BY <1>0, <1>9, MoveInv DEF GiveUp, Stages, Settled, IInv, TypeOK
<1>10. ASSUME NEW e \in Entry, Reconcile(e) PROVE IInv'
  BY <1>10, ReconcileInv
<1>11. ASSUME NEW e \in Entry, Forget(e) PROVE IInv'
  BY <1>11, ForgetInv
<1>12. ASSUME NEW e \in Entry, NEW n \in wire[e], Arrive(e, n) PROVE IInv'
  <2>1. PICK v \in Settled : Judge(e, v) /\ IF Awaited(e, n) THEN Moved(e, v) ELSE UNCHANGED outbox
    BY <1>12 DEF Arrive
  <2> QED BY <1>12, <2>1, JudgeInv DEF Arrive, Awaited, IInv, TypeOK
<1>13. ASSUME NEW e \in Entry, NEW n \in wire[e], AnswerRetryable(e, n) PROVE IInv'
  <2>1. faults' \in 0 .. MaxFaults
    BY <1>13, Shape DEF AnswerRetryable, Spent, IInv, TypeOK
  <2>2. CASE UNCHANGED vendorVars
    BY <1>13, <2>1, <2>2, DropInv DEF AnswerRetryable, Awaited
  <2>3. ASSUME NEW v \in Settled, Judge(e, v) PROVE IInv'
    BY <1>13, <2>1, <2>3, JudgeInv DEF AnswerRetryable, Awaited
  <2> QED BY <1>13, <2>2, <2>3 DEF AnswerRetryable
<1>14. ASSUME NEW e \in Entry, NEW n \in wire[e], Lose(e, n) PROVE IInv'
  <2>1. faults' \in 0 .. MaxFaults
    BY <1>14, Shape DEF Lose, Spent, IInv, TypeOK
  <2> QED BY <1>14, <2>1, DropInv DEF Lose
<1>15. CASE Crash
  BY <1>15, CrashInv
<1>16. CASE UNCHANGED vars
  <2>1. TypeOK' /\ ProviderInv'
    BY <1>16 DEF vars, vendorVars, IInv, TypeOK, ProviderInv
  <2> QED BY <1>16, <2>1, EntriesFrame DEF vars, IInv
<1> QED
  BY <1>1, <1>2, <1>3, <1>4, <1>5, <1>6, <1>7, <1>8, <1>9, <1>10, <1>11, <1>12,
     <1>13, <1>14, <1>15, <1>16 DEF Next, Run, Step

-----------------------------------------------------------------------------
(* Deliveries take effect once. *)

Fated == [e \in Entry |-> Fate(e)]
Tales == [e \in Entry |-> Told(e)]

\* What became of an entry is what the vendor decided on it.
LEMMA FateOf ==
  ASSUME NEW e \in Entry
  PROVE  /\ IInv /\ e \notin outlived => Fate(e) = verdict[e]
         /\ IInv' /\ e \notin outlived' => Fate(e)' = verdict'[e]
BY DEF IInv, EntryInv, EntryOf, Fate, TypeOK, Settled

\* Only the entry a step works on changes its fate or its tale.
LEMMA Shown ==
  ASSUME NEW e \in Entry,
         \A f \in Entry \ {e} : /\ verdict'[f] = verdict[f] /\ outbox'[f] = outbox[f]
                                /\ effects'[f] = effects[f]
  PROVE  /\ Fated' = [Fated EXCEPT ![e] = Fate(e)']
         /\ Tales' = [Tales EXCEPT ![e] = Told(e)']
         /\ Fated[e] = Fate(e) /\ Tales[e] = Told(e)
         /\ Fate(e)' = Fate(e) => Fated' = Fated
         /\ Told(e)' = Told(e) => Tales' = Tales
<1>1. \A f \in Entry \ {e} : Fate(f)' = Fate(f) /\ Told(f)' = Told(f)
  BY DEF Fate, Told
<1> HIDE DEF Told, Fate
<1> QED BY <1>1 DEF Fated, Tales

LEMMA RefineInit == Init => Once!Init
BY DEF Init, Once!Init, Fate, Told, Entry, Settled

\* Of what a request outlived nothing is promised.
LEMMA RefineSlip ==
  ASSUME IInv', NEW e \in Entry, e \in outlived, outlived' = outlived,
         \A f \in Entry \ {e} : /\ verdict'[f] = verdict[f] /\ outbox'[f] = outbox[f]
                                /\ effects'[f] = effects[f]
  PROVE  [Once!Next]_(Once!vars)
<1>1. Fate(e)' \in Once!Fates /\ Told(e)' \in Once!Answers
  BY DEF Fate, Told, Settled, Once!Fates, Once!Answers
<1>2. Fated' = [Fated EXCEPT ![e] = Fate(e)'] /\ Tales' = [Tales EXCEPT ![e] = Told(e)']
  BY Shown
<1>3. Once!Slip(e)
  <2> HIDE DEF Fate, Told
  <2> QED BY <1>1, <1>2 DEF Once!Slip, Fated, Tales
<1> QED BY <1>3 DEF Once!Next, Entry

\* The vendor decides: that is decided for good.
LEMMA RefineJudge ==
  ASSUME IInv, IInv', NEW e \in Entry, NEW n \in wire[e], NEW v \in Settled, Judge(e, v),
         UNCHANGED outbox \/ (outbox[e] = "sent" /\ (Moved(e, v) \/ Moved(e, "retry")))
  PROVE  [Once!Next]_(Once!vars)
<1>1. /\ verdict' = [verdict EXCEPT ![e] = v] /\ outlived' = outlived
      /\ \A f \in Entry \ {e} : effects'[f] = effects[f]
      /\ e \notin outlived => verdict[e] \in {"open", v}
  BY Judged
<1>2. /\ verdict'[e] = v /\ \A f \in Entry \ {e} : verdict'[f] = verdict[f]
  BY <1>1 DEF IInv, TypeOK
<1>3. /\ \A f \in Entry \ {e} : outbox'[f] = outbox[f]
      /\ Told(e)' = Told(e) \/ (Told(e) = "open" /\ Told(e)' = v)
  BY DEF Moved, Told, IInv, TypeOK, Settled
<1>4. /\ Fated' = [Fated EXCEPT ![e] = Fate(e)'] /\ Fated[e] = Fate(e)
      /\ Tales' = [Tales EXCEPT ![e] = Told(e)'] /\ Tales[e] = Told(e)
      /\ Fate(e)' = Fate(e) => Fated' = Fated
      /\ Told(e)' = Told(e) => Tales' = Tales
  BY <1>1, <1>2, <1>3, Shown
<1>5. e = "undo" => Tales["do"] = "accepted"
  <2>1. attempts[e] # 0 /\ EntryOf(e)
    BY DEF IInv, EntryInv, TypeOK
  <2>2. outbox[e] # "none"
    BY <2>1 DEF EntryOf, Idle
  <2>3. e = "undo" => outbox["do"] = "accepted"
    BY <2>2 DEF IInv, ProviderInv
  <2> QED BY <2>3 DEF Tales, Told, Settled, Entry
<1>6. CASE e \in outlived
  BY <1>1, <1>2, <1>3, <1>6, RefineSlip
<1>7. CASE e \notin outlived /\ verdict[e] = "open"
  <2>1. Fate(e) = "open" /\ Fate(e)' = v
    BY <1>1, <1>2, <1>7, FateOf
  <2>2. Tales' = Tales \/ Tales' = [Tales EXCEPT ![e] = v]
    BY <1>3, <1>4
  <2>3. Once!Decide(e)
    <3> HIDE DEF Fate, Told
    <3> QED BY <1>1, <1>4, <1>5, <2>1, <2>2 DEF Once!Decide, Fated, Tales, Settled
  <2> QED BY <2>3 DEF Once!Next, Entry
<1>8. CASE e \notin outlived /\ verdict[e] = v
  <2>1. Fate(e) = v /\ Fate(e)' = v
    BY <1>1, <1>2, <1>8, FateOf
  <2> HIDE DEF Fate, Told
  <2>2. CASE Told(e)' = Told(e)
    BY <1>1, <1>4, <2>1, <2>2 DEF Once!vars, Fated, Tales
  <2>3. CASE Told(e) = "open" /\ Told(e)' = v
    <3>1. Once!Learn(e)
      BY <1>1, <1>4, <2>1, <2>3 DEF Once!Learn, Fated, Tales
    <3> QED BY <3>1 DEF Once!Next, Entry
  <2> QED BY <1>3, <2>2, <2>3
<1> QED BY <1>1, <1>6, <1>7, <1>8

\* What the vendor did not decide on is as it was; the host may learn.
LEMMA RefineRest ==
  ASSUME IInv, IInv', NEW e \in Entry, UNCHANGED <<verdict, effects, outlived>>,
         \A f \in Entry \ {e} : outbox'[f] = outbox[f],
         outbox'[e] = outbox[e] \/ outbox[e] \notin Settled
  PROVE  [Once!Next]_(Once!vars)
<1>1. /\ Fated' = Fated /\ Fated[e] = Fate(e)
      /\ Tales' = [Tales EXCEPT ![e] = Told(e)'] /\ Tales[e] = Told(e)
      /\ Told(e)' = Told(e) => Tales' = Tales
  <2>1. Fate(e)' = Fate(e)
    BY DEF Fate
  <2> QED BY <2>1, Shown
<1>2. CASE e \in outlived
  BY <1>2, RefineSlip
<1>3. CASE Told(e)' = Told(e)
  BY <1>1, <1>3 DEF Once!vars, Fated, Tales
<1>4. CASE e \notin outlived /\ Told(e)' # Told(e)
  <2>1. Told(e) = "open" /\ Told(e)' = Fate(e)
    <3>1. Fate(e) = verdict[e]
      BY <1>4, FateOf
    <3>2. Told(e) = "open" /\ Told(e)' = verdict'[e]
      BY <1>4 DEF Told, IInv, EntryInv, EntryOf
    <3> QED BY <3>1, <3>2
  <2>2. Once!Learn(e)
    <3> HIDE DEF Fate, Told
    <3> QED BY <1>1, <2>1 DEF Once!Learn, Fated, Tales
  <2> QED BY <2>2 DEF Once!Next, Entry
<1> QED BY <1>2, <1>3, <1>4

\* The vendor forgets the key of a request that is on its way.
LEMMA RefineForget ==
  ASSUME NEW e \in Entry, Forget(e)
  PROVE  [Once!Next]_(Once!vars)
<1>1. /\ \A f \in Entry : Fate(f)' = Fate(f) /\ Told(f)' = Told(f)
      /\ outlived' = outlived \/ outlived' = outlived \cup {e}
  BY DEF Forget, Fate, Told
<1> HIDE DEF Fate, Told
<1>2. CASE outlived' = outlived
  BY <1>1, <1>2 DEF Once!vars
<1>3. CASE outlived' = outlived \cup {e}
  <2>1. Once!Excuse(e)
    BY <1>1, <1>3 DEF Once!Excuse
  <2> QED BY <2>1 DEF Once!Next, Entry
<1> QED BY <1>1, <1>2, <1>3

\* Nobody outside the outbox sees the steps that settle nothing.
LEMMA RefineHidden ==
  ASSUME UNCHANGED <<verdict, effects, outlived>>, \A e \in Entry : Told(e)' = Told(e)
  PROVE  UNCHANGED Once!vars
<1>1. \A e \in Entry : Fate(e)' = Fate(e)
  BY DEF Fate
<1> HIDE DEF Fate, Told
<1> QED BY <1>1 DEF Once!vars

\* Every step of a delivery decides, tells, or shows to nobody.
LEMMA RefineStep ==
  ASSUME IInv, IInv', [Next]_vars
  PROVE  [Once!Next]_(Once!vars)
<1> USE DEF vendorVars
<1>0. outbox \in [Entry -> Stages]
  BY DEF IInv, TypeOK
<1>1. CASE Register
  BY <1>1, RefineHidden DEF Register, Told
<1>2. CASE CallOff
  BY <1>2, RefineHidden DEF CallOff, Told
<1>3. CASE Compensate
  <2>1. "undo" \in Entry
    BY DEF Entry
  <2> QED BY <1>0, <1>3, <2>1, RefineRest DEF Compensate, Moved, Settled
<1>4. ASSUME NEW k \in Key, Ask(k) PROVE [Once!Next]_(Once!vars)
  <2>1. "do" \in Entry /\ outbox["do"] = "none"
    BY <1>4 DEF Ask, Entry, IInv, ProviderInv
  <2> QED BY <1>0, <1>4, <2>1, RefineRest DEF Ask, Moved, Settled
<1>5. ASSUME NEW e \in Entry, Send(e) PROVE [Once!Next]_(Once!vars)
  BY <1>0, <1>5, RefineRest DEF Send, Moved, Settled
<1>6. ASSUME NEW e \in Entry, Refrain(e) PROVE [Once!Next]_(Once!vars)
  BY <1>0, <1>6, RefineRest DEF Refrain, Moved, Settled
<1>7. ASSUME NEW e \in Entry, CloseWindow(e) PROVE [Once!Next]_(Once!vars)
  BY <1>7, RefineRest DEF CloseWindow
<1>8. ASSUME NEW e \in Entry, TimeOut(e) PROVE [Once!Next]_(Once!vars)
  BY <1>0, <1>8, RefineRest DEF TimeOut, Moved, Settled
<1>9. ASSUME NEW e \in Entry, GiveUp(e) PROVE [Once!Next]_(Once!vars)
  BY <1>0, <1>9, RefineRest DEF GiveUp, Moved, Settled
<1>10. ASSUME NEW e \in Entry, Reconcile(e) PROVE [Once!Next]_(Once!vars)
  BY <1>0, <1>10, RefineRest DEF Reconcile, Moved, Settled
<1>11. ASSUME NEW e \in Entry, Forget(e) PROVE [Once!Next]_(Once!vars)
  BY <1>11, RefineForget
<1>12. ASSUME NEW e \in Entry, NEW n \in wire[e], Arrive(e, n) PROVE [Once!Next]_(Once!vars)
  <2>1. PICK v \in Settled : Judge(e, v) /\ IF Awaited(e, n) THEN Moved(e, v) ELSE UNCHANGED outbox
    BY <1>12 DEF Arrive
  <2> QED BY <2>1, RefineJudge DEF Awaited
<1>13. ASSUME NEW e \in Entry, NEW n \in wire[e], AnswerRetryable(e, n)
       PROVE  [Once!Next]_(Once!vars)
  <2>1. CASE UNCHANGED vendorVars
    BY <1>0, <1>13, <2>1, RefineRest DEF AnswerRetryable, Awaited, Moved, Settled
  <2>2. ASSUME NEW v \in Settled, Judge(e, v) PROVE [Once!Next]_(Once!vars)
    BY <1>13, <2>2, RefineJudge DEF AnswerRetryable, Awaited
  <2> QED BY <1>13, <2>1, <2>2 DEF AnswerRetryable
<1>14. ASSUME NEW e \in Entry, NEW n \in wire[e], Lose(e, n) PROVE [Once!Next]_(Once!vars)
  BY <1>14, RefineRest DEF Lose
<1>15. CASE Crash
  <2>1. \A e \in Entry : Told(e)' = Told(e)
    BY <1>15 DEF Crash, Told, Settled
  <2> QED BY <1>15, <2>1, RefineHidden DEF Crash
<1>16. CASE UNCHANGED vars
  BY <1>16, RefineHidden DEF vars, Told
<1> HIDE DEF vendorVars
<1> QED
  BY <1>1, <1>2, <1>3, <1>4, <1>5, <1>6, <1>7, <1>8, <1>9, <1>10, <1>11, <1>12,
     <1>13, <1>14, <1>15, <1>16 DEF Next, Run, Step

-----------------------------------------------------------------------------
(* Theorems. *)

\* The invariant holds throughout, whatever is lost, repeated, late or wrong.
THEOREM Invariant == Spec => []IInv
BY InitInv, StepInv, PTL DEF Spec

\* Every variable of a delivery has its type.
THEOREM TypeCorrect == Spec => []TypeOK
<1>1. IInv => TypeOK
  BY DEF IInv
<1> QED BY <1>1, Invariant, PTL

\* Under the contracts descriptors are checked for, an operation and its
\* compensation take effect at most once each and the outbox records only
\* what happened, through any number of crashes, losses and repetitions,
\* unless a request outlived the key it was sent with.
THEOREM EffectsOnce == Spec => ExactlyOnce
<1>1. IInv /\ IInv' /\ [Next]_vars => [Once!Next]_(Once!vars)
  BY RefineStep
<1> QED BY <1>1, RefineInit, Invariant, PTL DEF Spec, Once!Spec, ExactlyOnce

-----------------------------------------------------------------------------
(* What Settles rests on.  The liveness itself needs fairness and stays with *)
(* TLC; here is why no fair behaviour can get stuck or go round.             *)

\* The provider has the lookups its descriptor asks for, and what is undone
\* may be.
EquipInv ==
  /\ (provider # Nothing /\ RequiresReconciler(provider.ops)) => provider.reconciles
  /\ outbox["undo"] # "none" => provider.ops[main].compensation # "none"

\* How an entry came to its stage.
PathOf(e) ==
  /\ outbox[e] \in {"sent", "retry", "doubt"} => attempts[e] > 0
  /\ outbox[e] = "manual" => ~CanLookUp(e) /\ Operation(e).effect # "read"
  /\ outbox[e] = "lost" => ~InOutbox(e)

PathInv == \A e \in Entry : PathOf(e)

EndInv == IInv /\ EquipInv /\ PathInv

Open(e) == outbox[e] \notin {"none"} \cup Settled

\* A step of the host or the vendor that moves the entry is possible.
CanMove(e) ==
  \/ outbox[e] \in {"queued", "sent"}
  \/ outbox[e] = "retry" /\ MayRetry(e)
  \/ outbox[e] = "doubt" /\ (CanLookUp(e) \/ Operation(e).effect = "read")

NeedsNobody ==
  \A e \in Entry : (Open(e) /\ Unattended(e)) =>
    /\ outbox[e] \notin {"manual", "lost"}
    /\ CanMove(e) \/ Lapsed(e)

\* How far an entry is from its end when nothing goes wrong any more.
Distance(e) ==
  CASE outbox[e] \in {"queued", "retry"} -> 2
    [] outbox[e] = "doubt" -> 3
    [] outbox[e] = "sent" -> IF attempts[e] \in wire[e] THEN 1 ELSE 4
    [] OTHER -> 0

ComesCloser ==
  [][faults = MaxFaults =>
       \A e \in Entry : (Open(e) /\ Unattended(e) /\ ~Lapsed(e)) =>
         Distance(e)' < Distance(e)
           \/ (outbox'[e] = outbox[e] /\ Distance(e)' = Distance(e))]_vars

\* The operation that undoes another can be looked up and repeated.
LEMMA UndoOperation ==
  ASSUME IInv, EquipInv, outbox["undo"] # "none"
  PROVE  /\ Operation("undo").mode = "enqueue" /\ Operation("undo").strategy # "none"
         /\ CanLookUp("undo")
<1>1. /\ main # Nothing /\ provider # Nothing /\ main \in DOMAIN provider.ops
      /\ DescriptorValid(provider.ops) /\ provider.ops[main].compensation # "none"
  BY DEF IInv, ProviderInv, EquipInv, Entry
<1>2. UndoTarget(provider.ops, provider.ops[main].undo)
  BY <1>1 DEF DescriptorValid
<1>3. provider.reconciles
  BY <1>1, <1>2 DEF EquipInv, RequiresReconciler, UndoTarget
<1> QED BY <1>2, <1>3 DEF UndoTarget, Operation, CanLookUp

LEMMA EquipStep == ASSUME IInv, EquipInv, [Next]_vars PROVE EquipInv'
<1> USE DEF vendorVars, hostVars
<1>1. CASE Register
  BY <1>1 DEF Register, EquipInv, IInv, ProviderInv, Entry
<1>2. CASE Compensate
  BY <1>2 DEF Compensate, Moved, EquipInv
<1>3. ASSUME NEW k \in Key, Ask(k) PROVE EquipInv'
  BY <1>3 DEF Ask, Moved, EquipInv, IInv, ProviderInv, TypeOK, Entry
<1>4. ASSUME UNCHANGED <<provider, main>>,
             outbox'["undo"] # "none" => outbox["undo"] # "none"
      PROVE  EquipInv'
  BY <1>4 DEF EquipInv, RequiresReconciler
<1>5. ASSUME NEW e \in Entry, NEW s, outbox[e] # "none", Moved(e, s)
      PROVE  outbox'["undo"] # "none" => outbox["undo"] # "none"
  BY <1>5 DEF Moved, IInv, TypeOK, Entry
<1>6. CASE CallOff
  BY <1>4, <1>6 DEF CallOff
<1>7. CASE Crash
  BY <1>4, <1>7 DEF Crash, Entry
<1>8. ASSUME NEW e \in Entry, Step(e) PROVE EquipInv'
  <2>1. UNCHANGED <<provider, main>>
    BY <1>8 DEF Step, Send, Refrain, CloseWindow, TimeOut, GiveUp, Reconcile, Forget,
                Arrive, AnswerRetryable, Lose
  <2>2. outbox'["undo"] # "none" => outbox["undo"] # "none"
    BY <1>5, <1>8 DEF Step, Send, Refrain, CloseWindow, TimeOut, GiveUp, Reconcile,
                      Forget, Arrive, AnswerRetryable, Lose, Awaited
  <2> QED BY <1>4, <2>1, <2>2
<1>9. CASE UNCHANGED vars
  BY <1>4, <1>9 DEF vars
<1> QED BY <1>1, <1>2, <1>3, <1>6, <1>7, <1>8, <1>9 DEF Next, Run

\* The stages an entry goes through.
LEMMA PathStep == ASSUME IInv, PathInv, [Next]_vars PROVE PathInv'
<1> USE DEF vendorVars, hostVars
<1>0. /\ outbox \in [Entry -> Stages] /\ attempts \in [Entry -> Nat]
      /\ main = Nothing => \A e \in Entry : outbox[e] = "none"
      /\ provider = Nothing => main = Nothing
  BY DEF IInv, TypeOK, ProviderInv
<1>1. ASSUME NEW e \in Entry, UNCHANGED <<provider, main>>, outbox'[e] = outbox[e],
             attempts'[e] = attempts[e]
      PROVE  PathOf(e)'
  BY <1>1 DEF PathInv, PathOf, CanLookUp, InOutbox, Operation
<1>2. ASSUME NEW e \in Entry, NEW s \in {"queued", "accepted", "rejected"}, Moved(e, s),
             UNCHANGED <<provider, main, attempts>>
      PROVE  PathInv'
  <2>1. PathOf(e)'
    BY <1>0, <1>2 DEF Moved, PathOf
  <2>2. \A f \in Entry \ {e} : PathOf(f)'
    BY <1>0, <1>1, <1>2 DEF Moved
  <2> QED BY <2>1, <2>2 DEF PathInv
<1>3. ASSUME NEW e \in Entry, NEW s \in {"retry", "doubt"}, Moved(e, s), attempts[e] > 0,
             UNCHANGED <<provider, main, attempts>>
      PROVE  PathInv'
  <2>1. PathOf(e)'
    BY <1>0, <1>3 DEF Moved, PathOf
  <2>2. \A f \in Entry \ {e} : PathOf(f)'
    BY <1>0, <1>1, <1>3 DEF Moved
  <2> QED BY <2>1, <2>2 DEF PathInv
<1>4. CASE Register
  <2>1. \A e \in Entry : outbox'[e] = "none"
    BY <1>0, <1>4 DEF Register
  <2> QED BY <2>1 DEF PathInv, PathOf
<1>5. ASSUME NEW k \in Key, Ask(k) PROVE PathInv'
  <2>1. \A e \in Entry : outbox'[e] \in {"none", "queued"}
    BY <1>0, <1>5 DEF Ask, Moved, Entry
  <2> QED BY <2>1 DEF PathInv, PathOf
<1>6. CASE Compensate
  BY <1>2, <1>6 DEF Compensate, Entry
<1>7. CASE CallOff
  BY <1>1, <1>7 DEF CallOff, PathInv
<1>8. CASE Crash
  <2>1. ASSUME NEW e \in Entry PROVE PathOf(e)'
    <3>1. /\ UNCHANGED <<provider, main, attempts>>
          /\ \/ outbox'[e] = outbox[e]
             \/ outbox'[e] = "lost" /\ ~InOutbox(e)
             \/ outbox[e] = "sent" /\ outbox'[e] = "doubt"
      BY <1>8 DEF Crash
    <3>2. CASE outbox'[e] = outbox[e]
      BY <1>1, <3>1, <3>2
    <3>3. CASE outbox'[e] = "lost" /\ ~InOutbox(e)
      BY <3>1, <3>3 DEF PathOf, InOutbox, Operation
    <3>4. CASE outbox[e] = "sent" /\ outbox'[e] = "doubt"
      BY <3>1, <3>4 DEF PathInv, PathOf
    <3> QED BY <3>1, <3>2, <3>3, <3>4
  <2> QED BY <2>1 DEF PathInv
<1>9. ASSUME NEW e \in Entry, Send(e) PROVE PathInv'
  <2>1. PathOf(e)'
    BY <1>0, <1>9 DEF Send, Moved, PathOf
  <2>2. \A f \in Entry \ {e} : PathOf(f)'
    BY <1>0, <1>1, <1>9 DEF Send, Moved
  <2> QED BY <2>1, <2>2 DEF PathInv
<1>10. ASSUME NEW e \in Entry, GiveUp(e) PROVE PathInv'
  <2>1. CASE Operation(e).effect = "read"
    BY <1>2, <1>10, <2>1 DEF GiveUp
  <2>2. CASE Operation(e).effect # "read"
    <3>1. PathOf(e)'
      BY <1>0, <1>10, <2>2 DEF GiveUp, Moved, PathOf, CanLookUp, Operation
    <3>2. \A f \in Entry \ {e} : PathOf(f)'
      BY <1>0, <1>1, <1>10 DEF GiveUp, Moved
    <3> QED BY <3>1, <3>2 DEF PathInv
  <2> QED BY <2>1, <2>2
<1>11. ASSUME NEW e \in Entry, Refrain(e) \/ TimeOut(e) PROVE PathInv'
  <2>1. attempts[e] > 0
    BY <1>11 DEF Refrain, TimeOut, PathInv, PathOf
  <2> QED BY <1>3, <1>11, <2>1 DEF Refrain, TimeOut
<1>12. ASSUME NEW e \in Entry, CloseWindow(e) \/ Forget(e) PROVE PathInv'
  BY <1>1, <1>12 DEF CloseWindow, Forget, PathInv
<1>13. ASSUME NEW e \in Entry, Reconcile(e) PROVE PathInv'
  <2>1. PICK r \in LookupResults : Moved(e, Concludes(r))
    BY <1>13 DEF Reconcile
  <2>2. Concludes(r) \in {"accepted", "rejected", "retry", "doubt"}
    BY DEF Concludes
  <2>3. attempts[e] > 0 /\ UNCHANGED <<provider, main, attempts>>
    BY <1>13 DEF Reconcile, PathInv, PathOf
  <2> QED BY <1>2, <1>3, <2>1, <2>2, <2>3
<1>14. ASSUME NEW e \in Entry, NEW n \in wire[e],
              Arrive(e, n) \/ AnswerRetryable(e, n) \/ Lose(e, n)
       PROVE  PathInv'
  <2>1. UNCHANGED <<provider, main, attempts>>
    BY <1>14 DEF Arrive, AnswerRetryable, Lose
  <2>2. \/ UNCHANGED outbox
        \/ \E v \in Settled : Moved(e, v)
        \/ outbox[e] = "sent" /\ Moved(e, "retry")
    BY <1>14 DEF Arrive, AnswerRetryable, Lose, Awaited
  <2>3. CASE UNCHANGED outbox
    BY <1>1, <2>1, <2>3 DEF PathInv
  <2>4. ASSUME NEW v \in Settled, Moved(e, v) PROVE PathInv'
    BY <1>2, <2>1, <2>4 DEF Settled
  <2>5. CASE outbox[e] = "sent" /\ Moved(e, "retry")
    BY <1>3, <2>1, <2>5 DEF PathInv, PathOf
  <2> QED BY <2>2, <2>3, <2>4, <2>5
<1>15. CASE UNCHANGED vars
  BY <1>1, <1>15 DEF vars, PathInv
<1> QED
  BY <1>4, <1>5, <1>6, <1>7, <1>8, <1>9, <1>10, <1>11, <1>12, <1>13, <1>14, <1>15
     DEF Next, Run, Step

LEMMA EndInvariant == Spec => []EndInv
<1>1. Init => EndInv
  BY InitInv DEF EndInv, Init, EquipInv, PathInv, PathOf, Entry
<1>2. EndInv /\ [Next]_vars => EndInv'
  BY StepInv, EquipStep, PathStep DEF EndInv
<1> QED BY <1>1, <1>2, PTL DEF Spec

\* What the invariant says of an entry that is to end without a person.
LEMMA NobodyNeeded == EndInv => NeedsNobody
<1> SUFFICES ASSUME EndInv, NEW e \in Entry, Open(e), Unattended(e)
             PROVE  /\ outbox[e] \notin {"manual", "lost"}
                    /\ CanMove(e) \/ Lapsed(e)
  BY DEF NeedsNobody
<1> USE DEF EndInv
<1>1. /\ InOutbox(e) /\ Operation(e).strategy \in {"natural", "provider_key"}
      /\ Operation(e).effect = "read" \/ CanLookUp(e)
  <2>1. Operation(e) \in Contract
    BY DEF IInv, EntryInv, EntryOf, Bound, Open
  <2>2. CASE e = "undo"
    BY <2>1, <2>2, UndoOperation DEF Open, InOutbox, Contract, Strategies
  <2>3. CASE e # "undo"
    BY <2>1, <2>3 DEF Unattended, Contract, Strategies
  <2> QED BY <2>2, <2>3
<1>2. PathOf(e) /\ outbox[e] \in Stages
  BY DEF PathInv, IInv, TypeOK
<1>3. outbox[e] \notin {"manual", "lost"}
  BY <1>1, <1>2 DEF PathOf
<1>4. outbox[e] \in {"queued", "sent", "retry", "doubt"}
  BY <1>2, <1>3 DEF Open, Stages
<1>5. (outbox[e] = "retry" /\ ~MayRetry(e)) => Lapsed(e)
  BY <1>1, <1>2 DEF MayRetry, Lapsed, PathOf
<1> QED BY <1>1, <1>3, <1>4, <1>5 DEF CanMove

\* An outbox entry that is a read, undoes another or is idempotent with
\* lookups never becomes a matter for a person and is never lost, and at
\* every stage there is something to do for it, unless it outlived the
\* vendor's memory of its key: this is what the rules of
\* ReliabilityContract.Validate and the checks of compensation targets buy.
THEOREM NobodyIsNeeded == Spec => []NeedsNobody
BY EndInvariant, NobodyNeeded, PTL

\* What no step touches stays as far from its end.
LEMMA DistanceFrame ==
  ASSUME NEW e \in Entry, outbox'[e] = outbox[e], attempts'[e] = attempts[e],
         attempts[e] \in wire'[e] <=> attempts[e] \in wire[e]
  PROVE  outbox'[e] = outbox[e] /\ Distance(e)' = Distance(e)
BY DEF Distance

Closer(e) ==
  \/ Distance(e)' < Distance(e)
  \/ outbox'[e] = outbox[e] /\ Distance(e)' = Distance(e)

\* A lookup that is not faulty tells what became of the entry, or that it may
\* be sent again.
LEMMA LookupTells ==
  ASSUME IInv, NEW e \in Entry, NEW r \in LookupResults, Says(e, r), faults = MaxFaults
  PROVE  Concludes(r) \in Settled \cup {"retry"}
<1>1. /\ r.code <=> verdict[e] = "rejected"
      /\ r.outcome = TrueOutcome(e) /\ ~r.after /\ (r.result => verdict[e] # "open")
      /\ verdict[e] \in {"open"} \cup Settled
  BY Shape DEF Says, Spent, IInv, TypeOK
<1>2. CASE verdict[e] = "open"
  BY <1>1, <1>2 DEF TrueOutcome, Concludes, ResultValid, Settled
<1>3. CASE verdict[e] = "accepted"
  BY <1>1, <1>3 DEF TrueOutcome, Concludes, ResultValid, Settled
<1>4. CASE verdict[e] = "rejected"
  BY <1>1, <1>4 DEF TrueOutcome, Concludes, ResultValid, Settled
<1> QED BY <1>1, <1>2, <1>3, <1>4 DEF Settled

\* A step of the entry itself, when nothing goes wrong.
LEMMA OwnDistance ==
  ASSUME EndInv, NEW e \in Entry, Step(e), faults = MaxFaults,
         Open(e), Unattended(e), ~Lapsed(e)
  PROVE  Closer(e)
<1>0. /\ outbox \in [Entry -> Stages] /\ attempts \in [Entry -> Nat]
      /\ wire \in [Entry -> SUBSET Nat] /\ ~Spent
      /\ outbox[e] \notin {"manual", "lost"} /\ (CanMove(e) \/ Lapsed(e))
  BY NobodyNeeded, Shape DEF EndInv, IInv, TypeOK, Spent, NeedsNobody
<1> USE DEF Closer
<1>1. CASE Send(e)
  <2>1. /\ outbox'[e] = "sent" /\ attempts'[e] \in wire'[e]
        /\ outbox[e] \in {"queued", "retry"}
    BY <1>0, <1>1 DEF Send, Moved
  <2> QED BY <2>1 DEF Distance
<1>2. ~Refrain(e)
  BY <1>0 DEF Refrain, CanMove
<1>3. CASE CloseWindow(e) \/ Forget(e)
  BY <1>3, DistanceFrame DEF CloseWindow, Forget
<1>4. CASE TimeOut(e)
  <2>1. outbox[e] = "sent" /\ attempts[e] \notin wire[e] /\ outbox'[e] = "doubt"
    BY <1>0, <1>4 DEF TimeOut, Moved
  <2> QED BY <2>1 DEF Distance
<1>5. CASE GiveUp(e)
  <2>1. outbox[e] = "doubt" /\ outbox'[e] = "queued"
    BY <1>0, <1>5 DEF GiveUp, Moved, CanMove, Lapsed, MayRetry
  <2> QED BY <2>1 DEF Distance
<1>6. CASE Reconcile(e)
  <2>1. PICK r \in LookupResults : Says(e, r) /\ Moved(e, Concludes(r))
    BY <1>6 DEF Reconcile
  <2>2. outbox[e] = "doubt" /\ outbox'[e] \in Settled \cup {"retry"}
    BY <1>0, <1>6, <2>1, LookupTells DEF Reconcile, Moved, EndInv
  <2> QED BY <2>2 DEF Distance, Settled
<1>7. ASSUME NEW n \in wire[e], Arrive(e, n) PROVE Closer(e)
  <2>1. CASE Awaited(e, n)
    <3>1. outbox[e] = "sent" /\ attempts[e] \in wire[e] /\ outbox'[e] \in Settled
      BY <1>0, <1>7, <2>1 DEF Arrive, Awaited, Moved
    <3> QED BY <3>1 DEF Distance, Settled
  <2>2. CASE ~Awaited(e, n)
    <3>1. /\ outbox' = outbox /\ attempts' = attempts /\ wire'[e] = wire[e] \ {n}
          /\ outbox[e] # "sent" \/ n # attempts[e]
      BY <1>0, <1>7, <2>2 DEF Arrive, Awaited
    <3> QED BY <3>1 DEF Distance
  <2> QED BY <2>1, <2>2
<1>8. ASSUME NEW n \in wire[e] PROVE ~AnswerRetryable(e, n) /\ ~Lose(e, n)
  BY <1>0 DEF AnswerRetryable, Lose
<1> QED BY <1>1, <1>2, <1>3, <1>4, <1>5, <1>6, <1>7, <1>8 DEF Step

\* Every step, when nothing goes wrong.
LEMMA DistanceStep ==
  ASSUME EndInv, [Next]_vars, faults = MaxFaults, NEW e \in Entry,
         Open(e), Unattended(e), ~Lapsed(e)
  PROVE  Closer(e)
<1>0. outbox \in [Entry -> Stages] /\ attempts \in [Entry -> Nat]
        /\ wire \in [Entry -> SUBSET Nat] /\ ~Spent
        /\ main # Nothing /\ outbox[e] # "none"
  BY Shape DEF EndInv, IInv, TypeOK, Spent, ProviderInv, Open
<1>1. ASSUME outbox'[e] = outbox[e], attempts'[e] = attempts[e], wire'[e] = wire[e]
      PROVE  Closer(e)
  BY <1>1, DistanceFrame DEF Closer
<1>2. CASE Register
  BY <1>1, <1>2 DEF Register
<1>3. CASE CallOff
  BY <1>1, <1>3 DEF CallOff
<1>4. CASE Compensate
  BY <1>0, <1>1, <1>4 DEF Compensate, Moved
<1>5. ASSUME NEW k \in Key, Ask(k) PROVE Closer(e)
  BY <1>0, <1>5 DEF Ask
<1>6. ASSUME NEW f \in Entry, Step(f) PROVE Closer(e)
  <2>1. CASE f = e
    BY <1>6, <2>1, OwnDistance
  <2>2. CASE f # e
    <3>1. outbox'[e] = outbox[e] /\ attempts'[e] = attempts[e] /\ wire'[e] = wire[e]
      BY <1>0, <1>6, <2>2
         DEF Step, Send, Refrain, CloseWindow, TimeOut, GiveUp, Reconcile, Forget,
             Arrive, AnswerRetryable, Lose, Moved
    <3> QED BY <1>1, <3>1
  <2> QED BY <2>1, <2>2
<1>7. ~Crash
  BY <1>0 DEF Crash
<1>8. CASE UNCHANGED vars
  BY <1>1, <1>8 DEF vars
<1> QED BY <1>2, <1>3, <1>4, <1>5, <1>6, <1>7, <1>8 DEF Next, Run

\* Once nothing goes wrong any more, every step that moves such an entry moves
\* it closer to its outcome: there is no cycle of sending, doubting and
\* looking up.  With NobodyIsNeeded only fairness is left for Settles.
THEOREM NoRunaround == Spec => ComesCloser
<1> DEFINE Steps ==
      faults = MaxFaults =>
        \A e \in Entry : (Open(e) /\ Unattended(e) /\ ~Lapsed(e)) =>
          Distance(e)' < Distance(e)
            \/ (outbox'[e] = outbox[e] /\ Distance(e)' = Distance(e))
<1>1. EndInv /\ [Next]_vars => Steps
  BY DistanceStep DEF Closer
<1>2. EndInv /\ [Next]_vars => [Steps]_vars
  BY <1>1
<1> QED BY <1>2, EndInvariant, PTL DEF Spec, ComesCloser
===============================================================================
