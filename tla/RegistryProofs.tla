---------------------------- MODULE RegistryProofs ----------------------------
(***************************************************************************)
(* Theorems about the registry, for any number of callers, adapters and    *)
(* identities.  The inductive invariant has three parts: who holds the     *)
(* lock (LockInv), what a caller has in hand at each stage (StageInv), and *)
(* which of it is still as it was checked (FreshInv, for quiet adapters).  *)
(* That the registry implements its contract needs two more: the requests  *)
(* and frozen adapters of the calls (CallInv), what reads saw (SeenInv).   *)
(***************************************************************************)
EXTENDS RegistryRefinement, SequenceTheorems, FiniteSetTheorems, TLAPS

\* The caller announced itself as writer and did not unlock yet.
Writing(c) ==
  \/ pc[c] \in {"drain", "decide", "publish"}
  \/ Single(c) /\ pc[c] \in {"snapshot", "scopes"}

LockInv ==
  \A c \in Caller :
    /\ Writing(c) <=> writer = c
    /\ c \in readers <=> pc[c] = "read"
    /\ Writing(c) /\ pc[c] # "drain" => readers = {}

\* The caller has an adapter in hand, and it is not nil.
Holding(c) ==
  \/ pc[c] \in {"snapshot", "scopes"}
  \/ Single(c) /\ pc[c] \in {"lock", "drain", "decide"}

StageOf(c) ==
  /\ pc[c] \in {"check", "snapshot", "scopes", "publish"} =>
       call[c].kind \in Registrations
  /\ pc[c] = "check" => todo[c] # <<>>
  /\ Holding(c) => todo[c] # <<>> /\ Current(c) \in Adapter
  /\ pc[c] = "scopes" =>
       /\ staged[c][Ident[Current(c)]] \in Entry
       /\ staged[c][Ident[Current(c)]].of = Current(c)
  /\ pc[c] = "idle" => staged[c] = Absent
  /\ (Single(c) /\ pc[c] = "check") => staged[c] = Absent
  /\ (Holding(c) /\ Single(c)) =>
       \A k \in Key : staged[c][k] # NoEntry => k = Ident[Current(c)]

StageInv == \A c \in Caller : StageOf(c)

\* A quiet adapter in hand is still as it was checked, its clone is of that
\* content, and the adapters frozen before it passed as well.
FreshOf(c) ==
  /\ (Holding(c) /\ pc[c] # "scopes" /\ Current(c) \in Quiet) =>
       /\ meta[Current(c)].sound
       /\ meta[Current(c)].lookup => Current(c) \in Reconciles
  /\ (pc[c] = "scopes" /\ Current(c) \in Quiet) =>
       staged[c][Ident[Current(c)]].meta = meta[Current(c)]
  /\ \A k \in Key : (staged[c][k] # NoEntry /\ staged[c][k].of \in Quiet) =>
                      Checked(k, staged[c][k])

FreshInv == \A c \in Caller : FreshOf(c)

IInv == TypeOK /\ LockInv /\ StageInv /\ DecisionStands

-----------------------------------------------------------------------------
(* Helpers. *)

TypedRequest == [kind : Kinds, args : Seq(Offered), keys : SUBSET Key]

\* What a call is when it begins.
LEMMA BeginRequest ==
  ASSUME NEW c \in Caller, Calls(c)
  PROVE  \E q \in Requests, s \in {"check", "lock", "rlock"} :
           /\ Begin(c, q, s)
           /\ q \in TypedRequest /\ q # NoCall
           /\ s = "rlock" => q.kind \in Readings
           /\ s = "check" => q.kind \in Registrations /\ q.args # <<>>
           /\ q.kind \in Registrations =>
                (s = "check" /\ q.args # <<>>) \/ (s = "lock" /\ q.kind = "set" /\ q.args = <<>>)
<1> USE DEF TypedRequest, Request, Requests, Kinds, Registrations, Readings, NoCall
<1>1. CASE CallRegister(c)
  <2>1. PICK a \in Singles : Begin(c, Request("register", <<a>>, {}), "check")
    BY <1>1 DEF CallRegister
  <2>2. <<a>> \in Seq(Offered) /\ <<a>> # <<>>
    BY Tables
  <2>3. Request("register", <<a>>, {}) \in Requests \cap TypedRequest
    BY <2>2
  <2> QED BY <2>1, <2>2, <2>3
<1>2. CASE CallRegisterProviderSet(c)
  <2>1. PICK batch \in Batches :
          Begin(c, Request("set", batch, {}), IF batch = <<>> THEN "lock" ELSE "check")
    BY <1>2 DEF CallRegisterProviderSet
  <2>2. Request("set", batch, {}) \in Requests \cap TypedRequest
    BY Tables
  <2>3. CASE batch = <<>>
    BY <2>1, <2>2, <2>3
  <2>4. CASE batch # <<>>
    BY <2>1, <2>2, <2>4
  <2> QED BY <2>3, <2>4
<1>3. CASE CallFreeze(c)
  <2>1. Request("freeze", <<>>, {}) \in Requests \cap TypedRequest
    OBVIOUS
  <2> QED BY <1>3, <2>1 DEF CallFreeze
<1>4. CASE CallFrozen(c)
  <2>1. Request("frozen", <<>>, {}) \in Requests \cap TypedRequest
    OBVIOUS
  <2> QED BY <1>4, <2>1 DEF CallFrozen
<1>5. CASE CallProvider(c)
  <2>1. PICK k \in Key : Begin(c, Request("provider", <<>>, {k}), "rlock")
    BY <1>5 DEF CallProvider
  <2>2. Request("provider", <<>>, {k}) \in Requests
    OBVIOUS
  <2>3. Request("provider", <<>>, {k}) \in TypedRequest
    OBVIOUS
  <2> QED BY <2>1, <2>2, <2>3
<1>6. CASE CallList(c)
  <2>1. Request("list", <<>>, Key) \in Requests
    OBVIOUS
  <2>2. Request("list", <<>>, Key) \in TypedRequest
    <3>1. Key \in SUBSET Key /\ <<>> \in Seq(Offered)
      OBVIOUS
    <3> QED BY <3>1
  <2> QED BY <1>6, <2>1, <2>2 DEF CallList
<1> QED BY <1>1, <1>2, <1>3, <1>4, <1>5, <1>6 DEF Calls

\* How calls begin: registrations that have an adapter check it first,
\* everything else goes for the lock.
LEMMA BeginShape ==
  ASSUME NEW c \in Caller, Calls(c)
  PROVE  \E q \in TypedRequest, s \in {"check", "lock", "rlock"} :
           /\ Begin(c, q, s)
           /\ q.kind = "register" => s = "check"
           /\ s = "check" => q.kind \in Registrations /\ q.args # <<>>
<1>1. PICK q \in Requests, s \in {"check", "lock", "rlock"} :
           /\ Begin(c, q, s)
           /\ q \in TypedRequest
           /\ s = "check" => q.kind \in Registrations /\ q.args # <<>>
           /\ q.kind \in Registrations =>
                (s = "check" /\ q.args # <<>>) \/ (s = "lock" /\ q.kind = "set" /\ q.args = <<>>)
  BY BeginRequest
<1> QED BY <1>1 DEF Registrations

\* An adapter that passed its checks is not nil.
LEMMA PassedAdapter ==
  ASSUME TypeOK, NEW c \in Caller, todo[c] # <<>>, Fault(c) = "none"
  PROVE  /\ Current(c) \in Adapter
         /\ meta[Current(c)].sound
         /\ meta[Current(c)].lookup => Current(c) \in Reconciles
<1>1. Current(c) \in Offered
  BY HeadTailProperties DEF TypeOK, Current
<1> QED BY <1>1 DEF Fault, Offered
-----------------------------------------------------------------------------
(* Type correctness. *)

\* Every step keeps the type of every variable.
LEMMA TypeStep ==
  ASSUME TypeOK, StageInv, [Next]_vars
  PROVE  TypeOK'
<1> USE DEF TypeOK, tabVars, lockVars, ctlVars, readVars, Goto, Answer, Slot
<1>1. ASSUME NEW c \in Caller, Calls(c) PROVE TypeOK'
  <2>1. PICK q \in TypedRequest, s \in {"check", "lock", "rlock"} : Begin(c, q, s)
    BY <1>1, BeginShape
  <2> QED BY <2>1 DEF Begin, TypedRequest, Stages
<1>2. ASSUME NEW c \in Caller, CheckFails(c) PROVE TypeOK'
  BY <1>2 DEF CheckFails, Fault, Stages, Replies, Refusals
<1>3. ASSUME NEW c \in Caller, CheckPasses(c) PROVE TypeOK'
  BY <1>3 DEF CheckPasses, Stages
<1>4. ASSUME NEW c \in Caller, Snapshot(c) PROVE TypeOK'
  <2>1. [of |-> Current(c), meta |-> meta[Current(c)], scopes |-> {}] \in Entry
    BY <1>4 DEF Snapshot, StageInv, StageOf, Holding, Entry
  <2> QED BY <1>4, <2>1 DEF Snapshot, Stages
<1>5. ASSUME NEW c \in Caller, CaptureScopes(c) PROVE TypeOK'
  <2> DEFINE a == Current(c)
             e == staged[c][Ident[a]]
  <2>1. a \in Adapter /\ todo[c] # <<>> /\ e \in Entry
    BY <1>5 DEF CaptureScopes, StageInv, StageOf, Holding
  <2>2. ScopesOf(a) \in SUBSET Operation
    BY <2>1, Tables DEF ScopesOf, Content
  <2>3. [e EXCEPT !.scopes = ScopesOf(a)] \in Entry
    BY <2>1, <2>2 DEF Entry
  <2>4. staged' \in [Caller -> [Key -> Slot]]
    BY <1>5, <2>3 DEF CaptureScopes
  <2>5. Tail(todo[c]) \in Seq(Offered)
    BY <2>1, HeadTailProperties
  <2>6. todo' \in [Caller -> Seq(Offered)] /\ pc' \in [Caller -> Stages]
    BY <1>5, <2>5 DEF CaptureScopes, Stages
  <2> QED BY <1>5, <2>4, <2>6 DEF CaptureScopes
<1>6. ASSUME NEW c \in Caller, Lock(c) PROVE TypeOK'
  BY <1>6 DEF Lock, Stages
<1>7. ASSUME NEW c \in Caller, Drain(c) PROVE TypeOK'
  BY <1>7 DEF Drain, Stages
<1>8. ASSUME NEW c \in Caller, Refuse(c) PROVE TypeOK'
  BY <1>8 DEF Refuse, Stages, Replies, Refusals
<1>9. ASSUME NEW c \in Caller, Admit(c) PROVE TypeOK'
  BY <1>9 DEF Admit, Stages
<1>10. ASSUME NEW c \in Caller, Publish(c) PROVE TypeOK'
  BY <1>10 DEF Publish, Stages
<1>11. ASSUME NEW c \in Caller, Published(c) PROVE TypeOK'
  BY <1>11 DEF Published, Stages, Replies
<1>12. ASSUME NEW c \in Caller, SetFrozen(c) PROVE TypeOK'
  BY <1>12 DEF SetFrozen, Stages, Replies
<1>13. ASSUME NEW c \in Caller, RLock(c) PROVE TypeOK'
  BY <1>13 DEF RLock, Stages
<1>14. ASSUME NEW c \in Caller, ReadEntry(c) PROVE TypeOK'
  BY <1>14 DEF ReadEntry
<1>15. ASSUME NEW c \in Caller, RUnlock(c) PROVE TypeOK'
  BY <1>15 DEF RUnlock, Stages, Replies
<1>16. ASSUME NEW c \in Caller, Return(c) PROVE TypeOK'
  BY <1>16 DEF Return, Stages, Replies, Absent, NoCall, Request, Kinds
<1>17. ASSUME NEW a \in Adapter, Mutate(a) PROVE TypeOK'
  <2>1. PICK m \in Edits[a] : meta' = [meta EXCEPT ![a] = m]
    BY <1>17 DEF Mutate
  <2>2. m \in Content
    BY <2>1, Tables
  <2>3. meta' \in [Adapter -> Content]
    BY <2>1, <2>2
  <2> QED BY <1>17, <2>3 DEF Mutate
<1>18. CASE UNCHANGED vars
  BY <1>18 DEF vars
<1> QED
  BY <1>1, <1>2, <1>3, <1>4, <1>5, <1>6, <1>7, <1>8, <1>9, <1>10, <1>11,
     <1>12, <1>13, <1>14, <1>15, <1>16, <1>17, <1>18
     DEF Next, Acquire, Work

-----------------------------------------------------------------------------
(* The lock. *)

\* Every step keeps who is inside the lock in line with who holds it.
LEMMA LockStep ==
  ASSUME TypeOK, StageInv, LockInv, [Next]_vars
  PROVE  LockInv'
<1> USE DEF TypeOK, tabVars, lockVars, ctlVars, readVars, Goto, Answer,
            LockInv, Writing, Single
<1>1. ASSUME NEW c \in Caller, Calls(c) PROVE LockInv'
  <2>1. PICK q \in TypedRequest, s \in {"check", "lock", "rlock"} : Begin(c, q, s)
    BY <1>1, BeginShape
  <2> QED BY <2>1 DEF Begin
<1>2. ASSUME NEW c \in Caller, CheckFails(c) PROVE LockInv'
  BY <1>2 DEF CheckFails
<1>3. ASSUME NEW c \in Caller, CheckPasses(c) PROVE LockInv'
  BY <1>3 DEF CheckPasses
<1>4. ASSUME NEW c \in Caller, Snapshot(c) PROVE LockInv'
  BY <1>4 DEF Snapshot
<1>5. ASSUME NEW c \in Caller, CaptureScopes(c) PROVE LockInv'
  BY <1>5 DEF CaptureScopes
<1>6. ASSUME NEW c \in Caller, Lock(c) PROVE LockInv'
  BY <1>6, Sorts DEF Lock
<1>7. ASSUME NEW c \in Caller, Drain(c) PROVE LockInv'
  BY <1>7 DEF Drain, Drained
<1>8. ASSUME NEW c \in Caller, Refuse(c) PROVE LockInv'
  BY <1>8, Sorts DEF Refuse, Deciding
<1>9. ASSUME NEW c \in Caller, Admit(c) PROVE LockInv'
  BY <1>9 DEF Admit, Deciding
<1>10. ASSUME NEW c \in Caller, Publish(c) PROVE LockInv'
  BY <1>10 DEF Publish
<1>11. ASSUME NEW c \in Caller, Published(c) PROVE LockInv'
  BY <1>11, Sorts DEF Published
<1>12. ASSUME NEW c \in Caller, SetFrozen(c) PROVE LockInv'
  BY <1>12, Sorts DEF SetFrozen
<1>13. ASSUME NEW c \in Caller, RLock(c) PROVE LockInv'
  BY <1>13, Sorts DEF RLock
<1>14. ASSUME NEW c \in Caller, ReadEntry(c) PROVE LockInv'
  BY <1>14 DEF ReadEntry
<1>15. ASSUME NEW c \in Caller, RUnlock(c) PROVE LockInv'
  BY <1>15 DEF RUnlock
<1>16. ASSUME NEW c \in Caller, Return(c) PROVE LockInv'
  BY <1>16 DEF Return, NoCall, Request
<1>17. ASSUME NEW a \in Adapter, Mutate(a) PROVE LockInv'
  BY <1>17 DEF Mutate
<1>18. CASE UNCHANGED vars
  BY <1>18 DEF vars
<1> QED
  BY <1>1, <1>2, <1>3, <1>4, <1>5, <1>6, <1>7, <1>8, <1>9, <1>10, <1>11,
     <1>12, <1>13, <1>14, <1>15, <1>16, <1>17, <1>18
     DEF Next, Acquire, Work
-----------------------------------------------------------------------------
(* What callers have in hand. *)

\* Every step leaves each caller with what its next stage works on.
LEMMA StageStep ==
  ASSUME TypeOK, StageInv, [Next]_vars
  PROVE  StageInv'
<1> USE DEF TypeOK, tabVars, lockVars, ctlVars, readVars, Goto, Answer
<1>1. ASSUME NEW c \in Caller, Calls(c) PROVE StageInv'
  <2>1. PICK q \in TypedRequest, s \in {"check", "lock", "rlock"} :
          /\ Begin(c, q, s)
          /\ q.kind = "register" => s = "check"
          /\ s = "check" => q.kind \in Registrations /\ q.args # <<>>
    BY <1>1, BeginShape
  <2>2. /\ pc'[c] = s /\ call'[c] = q /\ todo'[c] = q.args
        /\ \A d \in Caller \ {c} :
             pc'[d] = pc[d] /\ call'[d] = call[d] /\ todo'[d] = todo[d]
    BY <2>1 DEF Begin
  <2>3. staged' = staged /\ staged[c] = Absent
    BY <2>1 DEF Begin, StageInv, StageOf
  <2>4. StageOf(c)'
    BY <2>1, <2>2, <2>3 DEF StageOf, Holding, Single
  <2>5. \A d \in Caller \ {c} : StageOf(d)'
    BY <2>2, <2>3 DEF StageInv, StageOf, Holding, Single, Current
  <2> QED BY <2>4, <2>5 DEF StageInv
<1>2. ASSUME NEW c \in Caller, CheckFails(c) PROVE StageInv'
  BY <1>2 DEF CheckFails, StageInv, StageOf, Holding, Single, Current
<1>3. ASSUME NEW c \in Caller, CheckPasses(c) PROVE StageInv'
  <2>1. todo[c] # <<>>
    BY <1>3 DEF CheckPasses, StageInv, StageOf, Holding, Single, Current
  <2>2. Head(todo[c]) \in Adapter
    BY <1>3, <2>1, PassedAdapter DEF CheckPasses,
               StageInv, StageOf, Holding, Single, Current
  <2> QED BY <1>3, <2>1, <2>2 DEF CheckPasses, Absent,
               StageInv, StageOf, Holding, Single, Current
<1>4. ASSUME NEW c \in Caller, Snapshot(c) PROVE StageInv'
  <2>1. Current(c) \in Adapter /\ Ident[Current(c)] \in Key
    BY <1>4, Tables DEF Snapshot, StageInv, StageOf, Holding, Single, Current
  <2>2. [of |-> Current(c), meta |-> meta[Current(c)], scopes |-> {}] \in Entry
    BY <2>1 DEF Entry
  <2> QED BY <1>4, <2>1, <2>2 DEF Snapshot,
               StageInv, StageOf, Holding, Single, Current
<1>5. ASSUME NEW c \in Caller, CaptureScopes(c) PROVE StageInv'
  BY <1>5 DEF CaptureScopes, Registrations,
               StageInv, StageOf, Holding, Single, Current
<1>6. ASSUME NEW c \in Caller, Lock(c) PROVE StageInv'
  BY <1>6 DEF Lock, StageInv, StageOf, Holding, Single, Current
<1>7. ASSUME NEW c \in Caller, Drain(c) PROVE StageInv'
  BY <1>7 DEF Drain, StageInv, StageOf, Holding, Single, Current
<1>8. ASSUME NEW c \in Caller, Refuse(c) PROVE StageInv'
  BY <1>8 DEF Refuse, StageInv, StageOf, Holding, Single, Current
<1>9. ASSUME NEW c \in Caller, Admit(c) PROVE StageInv'
  BY <1>9 DEF Admit, Deciding, StageInv, StageOf, Holding, Single, Current
<1>10. ASSUME NEW c \in Caller, Publish(c) PROVE StageInv'
  BY <1>10 DEF Publish, StageInv, StageOf, Holding, Single, Current
<1>11. ASSUME NEW c \in Caller, Published(c) PROVE StageInv'
  BY <1>11 DEF Published, StageInv, StageOf, Holding, Single, Current
<1>12. ASSUME NEW c \in Caller, SetFrozen(c) PROVE StageInv'
  BY <1>12 DEF SetFrozen, StageInv, StageOf, Holding, Single, Current
<1>13. ASSUME NEW c \in Caller, RLock(c) PROVE StageInv'
  BY <1>13 DEF RLock, StageInv, StageOf, Holding, Single, Current
<1>14. ASSUME NEW c \in Caller, ReadEntry(c) PROVE StageInv'
  BY <1>14 DEF ReadEntry, StageInv, StageOf, Holding, Single, Current
<1>15. ASSUME NEW c \in Caller, RUnlock(c) PROVE StageInv'
  BY <1>15 DEF RUnlock, StageInv, StageOf, Holding, Single, Current
<1>16. ASSUME NEW c \in Caller, Return(c) PROVE StageInv'
  BY <1>16 DEF Return, NoCall, Request,
               StageInv, StageOf, Holding, Single, Current
<1>17. ASSUME NEW a \in Adapter, Mutate(a) PROVE StageInv'
  BY <1>17 DEF Mutate, StageInv, StageOf, Holding, Single, Current
<1>18. CASE UNCHANGED vars
  BY <1>18 DEF vars, StageInv, StageOf, Holding, Single, Current
<1> QED
  BY <1>1, <1>2, <1>3, <1>4, <1>5, <1>6, <1>7, <1>8, <1>9, <1>10, <1>11,
     <1>12, <1>13, <1>14, <1>15, <1>16, <1>17, <1>18
     DEF Next, Acquire, Work

-----------------------------------------------------------------------------
(* Decisions. *)

\* Every step leaves standing what a registration decided under the lock.
LEMMA DecisionStep ==
  ASSUME TypeOK, StageInv, LockInv, DecisionStands, [Next]_vars
  PROVE  DecisionStands'
<1> USE DEF TypeOK, tabVars, lockVars, ctlVars, readVars, Goto, Answer,
            DecisionStands, Admitted, Claimed, Single
<1>1. ASSUME NEW c \in Caller, Calls(c) PROVE DecisionStands'
  <2>1. PICK q \in TypedRequest, s \in {"check", "lock", "rlock"} : Begin(c, q, s)
    BY <1>1, BeginShape
  <2> QED BY <2>1 DEF Begin, Current
<1>2. ASSUME NEW c \in Caller, CheckFails(c) PROVE DecisionStands'
  BY <1>2 DEF CheckFails, Current
<1>3. ASSUME NEW c \in Caller, CheckPasses(c) PROVE DecisionStands'
  BY <1>3 DEF CheckPasses, Current
<1>4. ASSUME NEW c \in Caller, Snapshot(c) PROVE DecisionStands'
  BY <1>4 DEF Snapshot, Current
<1>5. ASSUME NEW c \in Caller, CaptureScopes(c) PROVE DecisionStands'
  <2>1. \A k \in Key : staged'[c][k] # NoEntry /\ Single(c) => k = Ident[Current(c)]
    BY <1>5 DEF CaptureScopes, StageInv, StageOf, Holding
  <2>2. Single(c) => Claimed(c) = {Ident[Current(c)]} /\ Admitted(c)
    BY <1>5 DEF CaptureScopes
  <2>3. Admitted(c)' => ~frozen' /\ \A k \in Claimed(c)' : providers'[k] = NoEntry
    BY <1>5, <2>1, <2>2 DEF CaptureScopes
  <2>4. \A d \in Caller \ {c} :
          /\ Admitted(d)' = Admitted(d)
          /\ Claimed(d)' = Claimed(d)
    BY <1>5 DEF CaptureScopes, Current
  <2>5. UNCHANGED <<frozen, providers>>
    BY <1>5 DEF CaptureScopes
  <2> HIDE DEF TypeOK, Admitted, Claimed
  <2> QED BY <2>3, <2>4, <2>5
<1>6. ASSUME NEW c \in Caller, Lock(c) PROVE DecisionStands'
  BY <1>6 DEF Lock, Current
<1>7. ASSUME NEW c \in Caller, Drain(c) PROVE DecisionStands'
  BY <1>7 DEF Drain, Current
<1>8. ASSUME NEW c \in Caller, Refuse(c) PROVE DecisionStands'
  BY <1>8 DEF Refuse, Current
<1>9. ASSUME NEW c \in Caller, Admit(c) PROVE DecisionStands'
  <2>1. ~frozen' /\ \A k \in Claimed(c) : providers'[k] = NoEntry
    BY <1>9 DEF Admit, Taken
  <2>2. Claimed(c)' = Claimed(c)
    BY <1>9 DEF Admit, Deciding, Current
  <2>3. \A d \in Caller \ {c} :
          /\ Admitted(d)' = Admitted(d)
          /\ Claimed(d)' = Claimed(d)
    BY <1>9 DEF Admit, Current
  <2>4. UNCHANGED <<frozen, providers>>
    BY <1>9 DEF Admit
  <2> HIDE DEF TypeOK, Admitted, Claimed
  <2> QED BY <2>1, <2>2, <2>3, <2>4
<1>10. ASSUME NEW c \in Caller, Publish(c) PROVE DecisionStands'
  <2>1. PICK k \in Key :
          /\ staged[c][k] # NoEntry
          /\ providers' = [providers EXCEPT ![k] = staged[c][k]]
          /\ staged' = [staged EXCEPT ![c][k] = NoEntry]
    BY <1>10 DEF Publish
  <2>2. UNCHANGED <<frozen, pc, call, todo>> /\ pc[c] = "publish"
    BY <1>10 DEF Publish
  <2>3. \A d \in Caller \ {c} : ~Admitted(d)'
    BY <2>2 DEF LockInv, Writing
  <2>4. \A j \in Claimed(c)' : j # k /\ j \in Claimed(c)
    BY <2>1, <2>2
  <2> QED BY <2>1, <2>2, <2>3, <2>4
<1>11. ASSUME NEW c \in Caller, Published(c) PROVE DecisionStands'
  BY <1>11 DEF Published, Current
<1>12. ASSUME NEW c \in Caller, SetFrozen(c) PROVE DecisionStands'
  BY <1>12 DEF SetFrozen, LockInv, Writing, Current
<1>13. ASSUME NEW c \in Caller, RLock(c) PROVE DecisionStands'
  BY <1>13 DEF RLock, Current
<1>14. ASSUME NEW c \in Caller, ReadEntry(c) PROVE DecisionStands'
  BY <1>14 DEF ReadEntry, Current
<1>15. ASSUME NEW c \in Caller, RUnlock(c) PROVE DecisionStands'
  BY <1>15 DEF RUnlock, Current
<1>16. ASSUME NEW c \in Caller, Return(c) PROVE DecisionStands'
  BY <1>16 DEF Return, Current
<1>17. ASSUME NEW a \in Adapter, Mutate(a) PROVE DecisionStands'
  BY <1>17 DEF Mutate, Current
<1>18. CASE UNCHANGED vars
  BY <1>18 DEF vars, Current
<1> QED
  BY <1>1, <1>2, <1>3, <1>4, <1>5, <1>6, <1>7, <1>8, <1>9, <1>10, <1>11,
     <1>12, <1>13, <1>14, <1>15, <1>16, <1>17, <1>18
     DEF Next, Acquire, Work
-----------------------------------------------------------------------------
(* Fresh snapshots. *)

\* Every step keeps what callers staged of quiet adapters as it was checked.
LEMMA FreshStep ==
  ASSUME TypeOK, StageInv, FreshInv, [Next]_vars
  PROVE  FreshInv'
<1> USE DEF TypeOK, tabVars, lockVars, ctlVars, readVars, Goto, Answer
<1> USE DEF FreshInv, FreshOf, Holding, Single, Current, Checked, DescriptorOf
<1>1. ASSUME NEW c \in Caller, Calls(c) PROVE FreshInv'
  <2>1. PICK q \in TypedRequest, s \in {"check", "lock", "rlock"} :
          /\ Begin(c, q, s)
          /\ q.kind = "register" => s = "check"
    BY <1>1, BeginShape
  <2> QED BY <2>1 DEF Begin
<1>2. ASSUME NEW c \in Caller, CheckFails(c) PROVE FreshInv'
  BY <1>2 DEF CheckFails
<1>3. ASSUME NEW c \in Caller, CheckPasses(c) PROVE FreshInv'
  <2>1. /\ meta[Head(todo[c])].sound
        /\ meta[Head(todo[c])].lookup => Head(todo[c]) \in Reconciles
    BY <1>3, PassedAdapter DEF CheckPasses, StageInv, StageOf
  <2> QED BY <1>3, <2>1 DEF CheckPasses
<1>4. ASSUME NEW c \in Caller, Snapshot(c) PROVE FreshInv'
  BY <1>4, Tables DEF Snapshot, StageInv, StageOf
<1>5. ASSUME NEW c \in Caller, CaptureScopes(c) PROVE FreshInv'
  <2> DEFINE a == Current(c)
             e == staged[c][Ident[a]]
  <2>1. /\ e \in Entry /\ e.of = a
        /\ a \in Adapter /\ Ident[a] \in Key
        /\ a \in Quiet => e.meta = meta[a] /\ Checked(Ident[a], e)
    <3>1. pc[c] = "scopes"
      BY <1>5 DEF CaptureScopes
    <3>2. a \in Adapter /\ Ident[a] \in Key
      BY <3>1, Tables DEF StageInv, StageOf
    <3>3. e \in Entry /\ e.of = a /\ (a \in Quiet => e.meta = meta[a])
      BY <3>1 DEF StageInv, StageOf
    <3>4. a \in Quiet => Checked(Ident[a], e)
      <4>1. \A k \in Key : (staged[c][k] # NoEntry /\ staged[c][k].of \in Quiet) =>
                             Checked(k, staged[c][k])
        OBVIOUS
      <4> HIDE DEF a, Checked
      <4> QED BY <3>2, <3>3, <4>1, Sorts
    <3> HIDE DEF a, e, Checked
    <3> QED BY <3>2, <3>3, <3>4
  <2>2. /\ [e EXCEPT !.scopes = ScopesOf(a)].of = a
        /\ a \in Quiet => Checked(Ident[a], [e EXCEPT !.scopes = ScopesOf(a)])
    BY <2>1 DEF Entry, ScopesOf
  <2>3. staged' = [staged EXCEPT ![c][Ident[a]] = [e EXCEPT !.scopes = ScopesOf(a)]]
    BY <1>5 DEF CaptureScopes
  <2>4. ASSUME NEW k \in Key, staged'[c][k] # NoEntry, staged'[c][k].of \in Quiet
        PROVE  Checked(k, staged'[c][k])
    <3>1. CASE k = Ident[a]
      <4>1. staged'[c][k] = [e EXCEPT !.scopes = ScopesOf(a)]
        BY <2>1, <2>3, <3>1
      <4> HIDE DEF a, e, Checked
      <4> QED BY <4>1, <2>2, <2>4, <3>1
    <3>2. CASE k # Ident[a]
      <4>1. staged'[c][k] = staged[c][k]
        BY <2>1, <2>3, <3>2
      <4>2. Checked(k, staged[c][k])
        BY <2>4, <4>1
      <4> HIDE DEF Checked
      <4> QED BY <4>1, <4>2
    <3> QED BY <3>1, <3>2
  <2>5. pc'[c] \in {"publish", "lock", "check"} /\ UNCHANGED <<meta, call>>
    BY <1>5 DEF CaptureScopes
  <2>6. Single(c) => pc'[c] = "publish"
    BY <1>5 DEF CaptureScopes
  <2>7. \A d \in Caller \ {c} :
          pc'[d] = pc[d] /\ todo'[d] = todo[d] /\ staged'[d] = staged[d]
    BY <1>5 DEF CaptureScopes
  <2> HIDE DEF a, e
  <2>8. FreshOf(c)'
    BY <2>4, <2>5, <2>6
  <2>9. \A d \in Caller \ {c} : FreshOf(d)'
    BY <2>5, <2>7
  <2> QED BY <2>8, <2>9
<1>6. ASSUME NEW c \in Caller, Lock(c) PROVE FreshInv'
  BY <1>6 DEF Lock
<1>7. ASSUME NEW c \in Caller, Drain(c) PROVE FreshInv'
  BY <1>7 DEF Drain
<1>8. ASSUME NEW c \in Caller, Refuse(c) PROVE FreshInv'
  BY <1>8 DEF Refuse
<1>9. ASSUME NEW c \in Caller, Admit(c) PROVE FreshInv'
  BY <1>9 DEF Admit, Deciding
<1>10. ASSUME NEW c \in Caller, Publish(c) PROVE FreshInv'
  BY <1>10 DEF Publish
<1>11. ASSUME NEW c \in Caller, Published(c) PROVE FreshInv'
  BY <1>11 DEF Published
<1>12. ASSUME NEW c \in Caller, SetFrozen(c) PROVE FreshInv'
  BY <1>12 DEF SetFrozen
<1>13. ASSUME NEW c \in Caller, RLock(c) PROVE FreshInv'
  BY <1>13 DEF RLock
<1>14. ASSUME NEW c \in Caller, ReadEntry(c) PROVE FreshInv'
  BY <1>14 DEF ReadEntry
<1>15. ASSUME NEW c \in Caller, RUnlock(c) PROVE FreshInv'
  BY <1>15 DEF RUnlock
<1>16. ASSUME NEW c \in Caller, Return(c) PROVE FreshInv'
  BY <1>16 DEF Return, Absent
<1>17. ASSUME NEW a \in Adapter, Mutate(a) PROVE FreshInv'
  BY <1>17 DEF Mutate, InHand, StageInv, StageOf
<1>18. CASE UNCHANGED vars
  BY <1>18 DEF vars
<1> QED
  BY <1>1, <1>2, <1>3, <1>4, <1>5, <1>6, <1>7, <1>8, <1>9, <1>10, <1>11,
     <1>12, <1>13, <1>14, <1>15, <1>16, <1>17, <1>18
     DEF Next, Acquire, Work

\* Only Publish writes the map.
LEMMA OnlyPublishWrites ==
  ASSUME [Next]_vars, ~ \E c \in Caller : Publish(c)
  PROVE  providers' = providers
BY DEF Next, vars, Calls, Acquire, Work, Mutate, tabVars, Begin,
       CallRegister, CallRegisterProviderSet, CallFreeze, CallFrozen,
       CallProvider, CallList, CheckFails, CheckPasses, Snapshot,
       CaptureScopes, Lock, Drain, Refuse, Admit, Published, SetFrozen,
       RLock, ReadEntry, RUnlock, Return

\* Nothing lowers the flag.
LEMMA FlagStaysUp ==
  ASSUME [Next]_vars, frozen
  PROVE  frozen'
BY DEF Next, vars, Calls, Acquire, Work, Mutate, tabVars, Begin,
       CallRegister, CallRegisterProviderSet, CallFreeze, CallFrozen,
       CallProvider, CallList, CheckFails, CheckPasses, Snapshot,
       CaptureScopes, Lock, Drain, Refuse, Admit, Publish, Published,
       SetFrozen, RLock, ReadEntry, RUnlock, Return

-----------------------------------------------------------------------------
(* Theorems. *)

\* The registry starts in the invariant.
LEMMA InitInv == Init => IInv /\ PublishedChecked /\ FreshInv
<1> SUFFICES ASSUME Init PROVE IInv /\ PublishedChecked /\ FreshInv
  OBVIOUS
<1> USE DEF Init, Absent, NoCall, Request
<1>1. TypeOK
  <2>1. <<>> \in Seq(Offered)
    OBVIOUS
  <2>2. /\ meta \in [Adapter -> Content] /\ providers \in [Key -> Slot]
        /\ pc \in [Caller -> Stages] /\ reply \in [Caller -> Replies]
        /\ staged \in [Caller -> [Key -> Slot]]
        /\ seen \in [Caller -> [Key -> Slot]]
    BY Tables DEF Slot, Stages, Replies
  <2>3. call \in [Caller -> [kind : Kinds, args : Seq(Offered), keys : SUBSET Key]]
    BY <2>1 DEF Kinds
  <2> QED BY <2>1, <2>2, <2>3 DEF TypeOK
<1>2. LockInv
  BY Sorts DEF LockInv, Writing, Single
<1>3. StageInv
  BY DEF StageInv, StageOf, Holding, Single
<1>4. DecisionStands
  BY DEF DecisionStands, Admitted, Single
<1>5. PublishedChecked /\ FreshInv
  BY DEF PublishedChecked, FreshInv, FreshOf, Holding, Single
<1> QED BY <1>1, <1>2, <1>3, <1>4, <1>5 DEF IInv

\* The invariant holds throughout, owners quiet or not.
THEOREM Invariant == Spec => []IInv
<1>1. Init => IInv
  BY InitInv
<1>2. IInv /\ [Next]_vars => IInv'
  BY TypeStep, LockStep, StageStep, DecisionStep DEF IInv
<1> QED BY <1>1, <1>2, PTL DEF Spec

\* Every variable of the registry has its type in every reachable state.
THEOREM TypeCorrect == Spec => []TypeOK
<1>1. IInv => TypeOK
  BY DEF IInv
<1> QED BY <1>1, Invariant, PTL

\* What Register or RegisterProviderSet decided under the lock (not frozen,
\* no identity taken) holds until its last write of the map.
THEOREM DecisionsStand == Spec => []DecisionStands
<1>1. IInv => DecisionStands
  BY DEF IInv
<1> QED BY <1>1, Invariant, PTL

\* After Freeze neither the flag nor the map changes, whatever registrations
\* were under way.
THEOREM FreezeIsFinal == Spec => FrozenForever
<1>1. IInv /\ [Next]_vars => (frozen => frozen' /\ providers' = providers)
  <2> SUFFICES ASSUME IInv, [Next]_vars, frozen
               PROVE  frozen' /\ providers' = providers
    OBVIOUS
  <2>1. ~ \E c \in Caller : Publish(c)
    BY DEF IInv, DecisionStands, Admitted, Publish
  <2> QED BY <2>1, OnlyPublishWrites, FlagStaysUp
<1>2. IInv /\ [Next]_vars => [frozen => frozen' /\ providers' = providers]_vars
  BY <1>1
<1> QED BY <1>2, Invariant, PTL DEF Spec, FrozenForever

\* No registration replaces or drops a provider that was published, and no
\* edit of its owner shows in its descriptor.
THEOREM NoReplacement == Spec => NeverReplaced
<1> DEFINE Keeps == \A k \in Key :
             providers[k] # NoEntry =>
               /\ providers'[k] = providers[k]
               /\ DescriptorOf(providers[k])' = DescriptorOf(providers[k])
<1>1. IInv /\ [Next]_vars => Keeps
  <2> SUFFICES ASSUME IInv, [Next]_vars, NEW k \in Key, providers[k] # NoEntry
               PROVE  providers'[k] = providers[k]
    BY DEF DescriptorOf
  <2>1. CASE ~ \E c \in Caller : Publish(c)
    BY <2>1, OnlyPublishWrites
  <2>2. ASSUME NEW c \in Caller, Publish(c)
        PROVE  providers'[k] = providers[k]
    <3>1. PICK j \in Key : /\ staged[c][j] # NoEntry
                           /\ providers' = [providers EXCEPT ![j] = staged[c][j]]
      BY <2>2 DEF Publish
    <3>2. providers[j] = NoEntry
      BY <2>2, <3>1 DEF Publish, IInv, DecisionStands, Admitted, Claimed
    <3> QED BY <3>1, <3>2 DEF IInv, TypeOK
  <2> QED BY <2>1, <2>2
<1>2. IInv /\ [Next]_vars => [Keeps]_vars
  BY <1>1
<1> QED BY <1>2, Invariant, PTL DEF Spec, NeverReplaced

\* If its owner leaves an adapter alone during registrations, every entry of it
\* a lookup can return is a validated snapshot: under its own identity, with
\* a valid descriptor, a Reconciler where the descriptor asks for one, and
\* scopes for operations of the descriptor only.
THEOREM SnapshotsChecked == Spec => []PublishedChecked
<1>1. PublishedChecked /\ FreshInv /\ IInv /\ [Next]_vars => PublishedChecked'
  <2> SUFFICES ASSUME PublishedChecked, FreshInv, IInv, [Next]_vars
               PROVE  PublishedChecked'
    OBVIOUS
  <2>1. CASE ~ \E c \in Caller : Publish(c)
    BY <2>1, OnlyPublishWrites DEF PublishedChecked, Checked, DescriptorOf
  <2>2. ASSUME NEW c \in Caller, Publish(c) PROVE PublishedChecked'
    BY <2>2 DEF Publish, PublishedChecked, FreshInv, FreshOf, IInv, TypeOK,
                Checked, DescriptorOf
  <2> QED BY <2>1, <2>2
<1>2. FreshInv /\ IInv /\ [Next]_vars => FreshInv'
  BY FreshStep DEF IInv
<1>3. Init => PublishedChecked /\ FreshInv
  BY InitInv
<1> QED BY <1>1, <1>2, <1>3, Invariant, PTL DEF Spec

-----------------------------------------------------------------------------
(* The registry implements its contract. *)

\* How many adapters of its call c has frozen.
Behind(c) == Len(call[c].args) - Len(todo[c])

\* The adapters still to freeze are the last ones of the call.
Suffix(args, rest) ==
  /\ Len(rest) <= Len(args)
  /\ \A i \in 1 .. Len(rest) : rest[i] = args[Len(args) - Len(rest) + i]

\* None of the first n adapters of the call has this one's identity.
Apart(args, n, a) == \A i \in 1 .. n : Ident[args[i]] # Ident[a]

\* The first n adapters of the call are frozen, each in a place of its own.
FrozenFirst(args, n, places) ==
  \A i \in 1 .. n :
    /\ args[i] \in Adapter
    /\ places[Ident[args[i]]] # NoEntry
    /\ Apart(args, i - 1, args[i])

\* Nothing else is frozen but perhaps the adapters in more.
NothingElse(args, n, places, more) ==
  \A k \in Key : places[k] # NoEntry =>
    /\ Ident[places[k].of] = k
    /\ places[k].of \in more \/ \E i \in 1 .. n : places[k].of = args[i]

\* A registration under way: the adapters before the one in hand are frozen.
ProgressOf(c) ==
  /\ Suffix(call[c].args, todo[c])
  /\ FrozenFirst(call[c].args, Behind(c), staged[c])
  /\ NothingElse(call[c].args, Behind(c), staged[c],
                 IF pc[c] = "scopes" THEN {Current(c)} ELSE {})
  /\ (pc[c] = "snapshot" /\ ~Single(c)) => staged[c][Ident[Current(c)]] = NoEntry
  /\ pc[c] = "scopes" => Apart(call[c].args, Behind(c), Current(c))
  /\ (pc[c] \in {"lock", "drain", "decide"} /\ ~Single(c)) => todo[c] = <<>>

\* What a read has seen is what the map holds, for no writer is in.
SeenOf(c) ==
  /\ pc[c] \notin {"read", "done"} => seen[c] = Absent
  /\ pc[c] = "rlock" => want[c] = call[c].keys
  /\ pc[c] = "read" => want[c] \subseteq call[c].keys
  /\ pc[c] = "read" =>
       seen[c] = [k \in Key |-> IF k \in call[c].keys \ want[c] THEN providers[k]
                                                                ELSE NoEntry]

CallOf(c) ==
  /\ call[c] \in Requests \cup {NoCall}
  /\ pc[c] = "idle" <=> call[c] = NoCall
  /\ reply[c] = "none" <=> pc[c] # "done"
  /\ pc[c] \in {"rlock", "read"} => call[c].kind \in Readings
  /\ (call[c].kind \in Registrations /\ pc[c] \notin {"publish", "done"}) =>
       ProgressOf(c)

CallInv == \A c \in Caller : CallOf(c)
SeenInv == \A c \in Caller : SeenOf(c)

LEMMA SeenStep ==
  ASSUME TypeOK, LockInv, SeenInv, [Next]_vars
  PROVE  SeenInv'
<1> USE DEF TypeOK, tabVars, lockVars, ctlVars, readVars, Goto, Answer, SeenInv, SeenOf
<1>1. ASSUME NEW c \in Caller, Calls(c) PROVE SeenInv'
  <2>1. PICK q \in TypedRequest, s \in {"check", "lock", "rlock"} : Begin(c, q, s)
    BY <1>1, BeginShape
  <2> QED BY <2>1 DEF Begin
<1>2. ASSUME NEW c \in Caller, CheckFails(c) PROVE SeenInv'
  BY <1>2 DEF CheckFails
<1>3. ASSUME NEW c \in Caller, CheckPasses(c) PROVE SeenInv'
  BY <1>3 DEF CheckPasses
<1>4. ASSUME NEW c \in Caller, Snapshot(c) PROVE SeenInv'
  BY <1>4 DEF Snapshot
<1>5. ASSUME NEW c \in Caller, CaptureScopes(c) PROVE SeenInv'
  BY <1>5 DEF CaptureScopes
<1>6. ASSUME NEW c \in Caller, Lock(c) PROVE SeenInv'
  BY <1>6 DEF Lock
<1>7. ASSUME NEW c \in Caller, Drain(c) PROVE SeenInv'
  BY <1>7 DEF Drain
<1>8. ASSUME NEW c \in Caller, Refuse(c) PROVE SeenInv'
  BY <1>8 DEF Refuse
<1>9. ASSUME NEW c \in Caller, Admit(c) PROVE SeenInv'
  BY <1>9 DEF Admit, Deciding
<1>10. ASSUME NEW c \in Caller, Publish(c) PROVE SeenInv'
  <2>1. \A d \in Caller : pc[d] # "read"
    BY <1>10 DEF Publish, LockInv, Writing
  <2>2. UNCHANGED <<pc, seen, want, call>>
    BY <1>10 DEF Publish
  <2> QED BY <2>1, <2>2
<1>11. ASSUME NEW c \in Caller, Published(c) PROVE SeenInv'
  BY <1>11 DEF Published
<1>12. ASSUME NEW c \in Caller, SetFrozen(c) PROVE SeenInv'
  BY <1>12 DEF SetFrozen
<1>13. ASSUME NEW c \in Caller, RLock(c) PROVE SeenInv'
  BY <1>13 DEF RLock, Absent
<1>14. ASSUME NEW c \in Caller, ReadEntry(c) PROVE SeenInv'
  <2>1. PICK k \in want[c] : /\ seen' = [seen EXCEPT ![c][k] = providers[k]]
                             /\ want' = [want EXCEPT ![c] = @ \ {k}]
    BY <1>14 DEF ReadEntry
  <2>2. UNCHANGED <<pc, call, providers>> /\ pc[c] = "read"
    BY <1>14 DEF ReadEntry
  <2>3. SeenOf(c)'
    <3>1. want'[c] = want[c] \ {k} /\ seen'[c] = [seen[c] EXCEPT ![k] = providers[k]]
      BY <2>1
    <3>2. k \in call[c].keys /\ k \in Key
      BY <2>2
    <3>3. want'[c] \subseteq call'[c].keys
      BY <2>2, <3>1
    <3>4. seen'[c] = [j \in Key |-> IF j \in call'[c].keys \ want'[c] THEN providers'[j]
                                                                 ELSE NoEntry]
      <4>1. seen[c] = [j \in Key |-> IF j \in call[c].keys \ want[c] THEN providers[j]
                                                                  ELSE NoEntry]
        BY <2>2
      <4> HIDE DEF SeenInv, TypeOK
      <4> QED BY <2>2, <3>1, <3>2, <4>1
    <3> QED BY <2>2, <3>3, <3>4
  <2>4. \A d \in Caller \ {c} : SeenOf(d)'
    BY <2>1, <2>2
  <2> QED BY <2>3, <2>4
<1>15. ASSUME NEW c \in Caller, RUnlock(c) PROVE SeenInv'
  BY <1>15 DEF RUnlock
<1>16. ASSUME NEW c \in Caller, Return(c) PROVE SeenInv'
  BY <1>16 DEF Return
<1>17. ASSUME NEW a \in Adapter, Mutate(a) PROVE SeenInv'
  BY <1>17 DEF Mutate
<1>18. CASE UNCHANGED vars
  BY <1>18 DEF vars
<1> QED
  BY <1>1, <1>2, <1>3, <1>4, <1>5, <1>6, <1>7, <1>8, <1>9, <1>10, <1>11,
     <1>12, <1>13, <1>14, <1>15, <1>16, <1>17, <1>18
     DEF Next, Acquire, Work

\* A call another caller is in does not move.
LEMMA CallFrame ==
  ASSUME NEW d \in Caller, CallOf(d),
         pc'[d] = pc[d], call'[d] = call[d], reply'[d] = reply[d],
         todo'[d] = todo[d], staged'[d] = staged[d]
  PROVE  CallOf(d)'
BY DEF CallOf, ProgressOf, Behind, Single, Current

\* Where the call of c stands does, and nothing else.
LEMMA ProgressFrame ==
  ASSUME NEW c \in Caller, ProgressOf(c),
         call'[c] = call[c], todo'[c] = todo[c], staged'[c] = staged[c],
         pc[c] # "scopes", pc'[c] # "scopes",
         pc'[c] = "snapshot" => Single(c) \/ staged[c][Ident[Current(c)]] = NoEntry,
         pc'[c] \in {"lock", "drain", "decide"} => Single(c) \/ pc[c] \in {"lock", "drain", "decide"}
  PROVE  ProgressOf(c)'
BY DEF ProgressOf, Behind, Single, Current

\* Every step leaves each call with its request and the adapters it froze.
LEMMA CallStep ==
  ASSUME TypeOK, StageInv, CallInv, [Next]_vars
  PROVE  CallInv'
<1> SUFFICES ASSUME NEW d \in Caller PROVE CallOf(d)'
  BY DEF CallInv
<1> USE DEF TypeOK, tabVars, lockVars, ctlVars, readVars, Goto, Answer
<1>0. CallOf(d)
  BY DEF CallInv
<1>1. ASSUME NEW c \in Caller, Calls(c) PROVE CallOf(d)'
  <2>1. PICK q \in Requests, s \in {"check", "lock", "rlock"} :
           /\ Begin(c, q, s)
           /\ q \in TypedRequest /\ q # NoCall
           /\ s = "rlock" => q.kind \in Readings
           /\ q.kind \in Registrations =>
                (s = "check" /\ q.args # <<>>) \/ (s = "lock" /\ q.kind = "set" /\ q.args = <<>>)
    BY <1>1, BeginRequest
  <2>2. CASE d # c
    BY <1>0, <2>1, <2>2, CallFrame DEF Begin
  <2>3. CASE d = c
    <3>1. /\ pc[c] = "idle" /\ pc'[c] = s /\ call'[c] = q /\ todo'[c] = q.args
          /\ staged'[c] = Absent /\ reply'[c] = reply[c]
      BY <2>1 DEF Begin, StageInv, StageOf
    <3>2. q.kind \in Registrations => ProgressOf(c)'
      <4>1. Behind(c)' = 0
        BY <2>1, <3>1 DEF Behind, TypedRequest
      <4>2. \A k \in Key : staged'[c][k] = NoEntry
        BY <3>1 DEF Absent
      <4>3. q.args \in Seq(Offered)
        BY <2>1 DEF TypedRequest
      <4>4. Suffix(q.args, q.args) /\ FrozenFirst(q.args, 0, staged'[c])
            /\ NothingElse(q.args, 0, staged'[c], {})
        BY <4>2, <4>3 DEF Suffix, FrozenFirst, NothingElse
      <4> QED BY <2>1, <3>1, <4>1, <4>4 DEF ProgressOf, Single
    <3> QED BY <1>0, <2>1, <2>3, <3>1, <3>2 DEF CallOf
  <2> QED BY <2>2, <2>3
<1>2. ASSUME NEW c \in Caller, CheckFails(c) PROVE CallOf(d)'
  <2>1. CASE d # c
    BY <1>0, <1>2, <2>1, CallFrame DEF CheckFails
  <2>2. CASE d = c
    BY <1>0, <1>2, <2>2 DEF CheckFails, CallOf
  <2> QED BY <2>1, <2>2
<1>3. ASSUME NEW c \in Caller, CheckPasses(c) PROVE CallOf(d)'
  <2>1. CASE d # c
    BY <1>0, <1>3, <2>1, CallFrame DEF CheckPasses
  <2>2. CASE d = c
    <3>1. /\ pc[c] = "check" /\ pc'[c] = (IF Single(c) THEN "lock" ELSE "snapshot")
          /\ call'[c] = call[c] /\ todo'[c] = todo[c] /\ staged'[c] = staged[c]
          /\ reply'[c] = reply[c]
      BY <1>3 DEF CheckPasses
    <3>2. call[c].kind \in Registrations /\ staged[c][Ident[Current(c)]] = NoEntry
      BY <1>3 DEF CheckPasses, Fault, StageInv, StageOf
    <3>3. ProgressOf(c)'
      <4>1. ProgressOf(c)
        BY <1>0, <2>2, <3>1, <3>2 DEF CallOf
      <4> QED BY <3>1, <3>2, <4>1, ProgressFrame
    <3> QED BY <1>0, <2>2, <3>1, <3>3 DEF CallOf
  <2> QED BY <2>1, <2>2
<1>4. ASSUME NEW c \in Caller, Snapshot(c) PROVE CallOf(d)'
  <2>1. CASE d # c
    BY <1>0, <1>4, <2>1, CallFrame DEF Snapshot
  <2>2. CASE d = c
    <3> DEFINE a == Current(c)
               e == [of |-> a, meta |-> meta[a], scopes |-> {}]
    <3>1. /\ pc[c] = "snapshot" /\ pc'[c] = "scopes"
          /\ call'[c] = call[c] /\ todo'[c] = todo[c] /\ reply'[c] = reply[c]
          /\ staged'[c] = [staged[c] EXCEPT ![Ident[a]] = e]
      BY <1>4 DEF Snapshot
    <3>2. call[c].kind \in Registrations /\ a \in Adapter /\ Ident[a] \in Key /\ todo[c] # <<>>
      BY <3>1, Tables DEF StageInv, StageOf, Holding
    <3>3. e \in Entry
      BY <3>2 DEF Entry
    <3>4. ProgressOf(c)
      BY <1>0, <2>2, <3>1, <3>2 DEF CallOf
    <3>5. /\ staged'[c][Ident[a]] = e /\ e # NoEntry /\ e.of = a
          /\ \A k \in Key \ {Ident[a]} : staged'[c][k] = staged[c][k]
      <4>1. e # NoEntry /\ e.of = a
        BY <3>3, Sorts
      <4> QED BY <3>1, <3>2, <4>1
    <3>6. Apart(call[c].args, Behind(c), a)
      <4>1. CASE Single(c)
        <5>1. Len(call[c].args) = 1
          BY <1>0, <2>2, <3>2, <4>1 DEF CallOf, Single, Requests, Request, NoCall
        <5>2. Len(todo[c]) \in Nat /\ Len(todo[c]) # 0
          BY <3>2, EmptySeq, LenProperties
        <5>3. 1 .. Behind(c) = {}
          BY <5>1, <5>2 DEF Behind
        <5> QED BY <5>3 DEF Apart
      <4>2. CASE ~Single(c)
        BY <3>1, <3>2, <3>4, <4>2 DEF ProgressOf, FrozenFirst, Apart
      <4> QED BY <4>1, <4>2
    <3>7. Current(c)' = a /\ Behind(c)' = Behind(c) /\ Single(c)' = Single(c)
      BY <3>1 DEF Current, Behind, Single
    <3> HIDE DEF a, e
    <3>8. FrozenFirst(call[c].args, Behind(c), staged'[c])
      <4>1. FrozenFirst(call[c].args, Behind(c), staged[c])
        BY <3>4 DEF ProgressOf
      <4> QED BY <3>2, <3>5, <4>1, Tables DEF FrozenFirst
    <3>9. NothingElse(call[c].args, Behind(c), staged'[c], {a})
      <4>1. NothingElse(call[c].args, Behind(c), staged[c], {})
        BY <3>1, <3>4 DEF ProgressOf
      <4>2. ASSUME NEW k \in Key, staged'[c][k] # NoEntry
            PROVE  /\ Ident[staged'[c][k].of] = k
                   /\ \/ staged'[c][k].of \in {a}
                      \/ \E i \in 1 .. Behind(c) : staged'[c][k].of = call[c].args[i]
        <5>1. CASE k = Ident[a]
          BY <3>5, <5>1
        <5>2. CASE k # Ident[a]
          <6>1. staged'[c][k] = staged[c][k]
            BY <3>5, <5>2
          <6> QED BY <4>1, <4>2, <6>1 DEF NothingElse
        <5> QED BY <5>1, <5>2
      <4> QED BY <4>2 DEF NothingElse
    <3>10. ProgressOf(c)'
      BY <3>1, <3>4, <3>6, <3>7, <3>8, <3>9 DEF ProgressOf
    <3> QED BY <1>0, <2>2, <3>1, <3>10 DEF CallOf
  <2> QED BY <2>1, <2>2
<1>5. ASSUME NEW c \in Caller, CaptureScopes(c) PROVE CallOf(d)'
  <2>1. CASE d # c
    BY <1>0, <1>5, <2>1, CallFrame DEF CaptureScopes
  <2>2. CASE d = c
    <3> DEFINE a == Current(c)
               e == staged[c][Ident[a]]
    <3>1. /\ pc[c] = "scopes" /\ call'[c] = call[c] /\ reply'[c] = reply[c]
          /\ todo'[c] = Tail(todo[c])
          /\ pc'[c] = (IF Single(c) THEN "publish"
                       ELSE IF todo'[c] = <<>> THEN "lock" ELSE "check")
          /\ staged'[c] = [staged[c] EXCEPT ![Ident[a]] = [e EXCEPT !.scopes = ScopesOf(a)]]
      BY <1>5 DEF CaptureScopes
    <3>2. /\ call[c].kind \in Registrations /\ a \in Adapter /\ Ident[a] \in Key
          /\ todo[c] # <<>> /\ e \in Entry /\ e.of = a
      BY <3>1, Tables DEF StageInv, StageOf, Holding
    <3>3. ProgressOf(c)
      BY <1>0, <2>2, <3>1, <3>2 DEF CallOf
    <3>4. [e EXCEPT !.scopes = ScopesOf(a)] # NoEntry /\ [e EXCEPT !.scopes = ScopesOf(a)].of = a
      <4>1. ScopesOf(a) \subseteq Operation
        BY <3>2, Tables DEF ScopesOf
      <4>2. [e EXCEPT !.scopes = ScopesOf(a)] \in Entry
        BY <3>2, <4>1 DEF Entry
      <4> QED BY <3>2, <4>2, Sorts DEF Entry
    <3>5. /\ staged'[c][Ident[a]] # NoEntry /\ staged'[c][Ident[a]].of = a
          /\ \A k \in Key \ {Ident[a]} : staged'[c][k] = staged[c][k]
      BY <3>1, <3>2, <3>4
    <3>6. /\ todo[c] \in Seq(Offered) /\ call[c].args \in Seq(Offered)
          /\ Len(todo'[c]) = Len(todo[c]) - 1 /\ Len(todo[c]) > 0
          /\ a = todo[c][1]
          /\ \A i \in 1 .. Len(todo'[c]) : todo'[c][i] = todo[c][i + 1]
      BY <3>1, <3>2, HeadTailProperties DEF Current
    <3> DEFINE n == Behind(c)
               args == call[c].args
    <3>7. Suffix(args, todo[c]) /\ n = Len(args) - Len(todo[c])
      BY <3>3 DEF ProgressOf, Behind
    <3>8. FrozenFirst(args, n, staged[c]) /\ Apart(args, n, a) /\ NothingElse(args, n, staged[c], {a})
      BY <3>1, <3>3 DEF ProgressOf
    <3> HIDE DEF a, e, n, args, TypeOK
    <3>9. args \in Seq(Offered) /\ Len(args) \in Nat /\ Len(todo[c]) \in Nat
      BY <3>6, LenProperties DEF args
    <3>10. n \in Nat
      BY <3>7, <3>9 DEF Suffix
    <3>11. args[n + 1] = a
      <4>1. 1 \in 1 .. Len(todo[c])
        BY <3>6, <3>9
      <4> QED BY <3>6, <3>7, <4>1 DEF Suffix
    <3>12. Suffix(args, todo'[c]) /\ Behind(c)' = n + 1 /\ call'[c].args = args
      <4>1. call'[c].args = args /\ Behind(c)' = Len(args) - (Len(todo[c]) - 1)
        BY <3>1, <3>6 DEF Behind, args
      <4>2. ASSUME NEW i \in 1 .. Len(todo'[c])
            PROVE  todo'[c][i] = args[Len(args) - Len(todo'[c]) + i]
        <5>1. i + 1 \in 1 .. Len(todo[c])
          BY <3>6, <3>9
        <5>2. todo[c][i + 1] = args[Len(args) - Len(todo[c]) + (i + 1)]
          BY <3>7, <5>1 DEF Suffix
        <5>3. Len(args) - Len(todo[c]) + (i + 1) = Len(args) - Len(todo'[c]) + i
          BY <3>6, <3>9, <5>1
        <5> QED BY <3>6, <5>2, <5>3
      <4>3. Suffix(args, todo'[c])
        <5>1. Len(todo'[c]) <= Len(args)
          BY <3>6, <3>7, <3>9 DEF Suffix
        <5> QED BY <4>2, <5>1 DEF Suffix
      <4>4. Behind(c)' = n + 1
        BY <3>7, <3>9, <4>1
      <4> QED BY <4>1, <4>3, <4>4
    <3>13. FrozenFirst(args, n + 1, staged'[c])
      <4>1. ASSUME NEW i \in 1 .. n + 1
            PROVE  /\ args[i] \in Adapter
                   /\ staged'[c][Ident[args[i]]] # NoEntry
                   /\ Apart(args, i - 1, args[i])
        <5>1. CASE i = n + 1
          BY <3>2, <3>5, <3>8, <3>10, <3>11, <5>1
        <5>2. CASE i # n + 1
          <6>1. i \in 1 .. n
            BY <3>10, <5>2
          <6>2. Ident[args[i]] # Ident[a] /\ args[i] \in Adapter
            BY <3>8, <6>1 DEF FrozenFirst, Apart
          <6>3. Ident[args[i]] \in Key
            BY <6>2, Tables
          <6> QED BY <3>5, <3>8, <6>1, <6>2, <6>3 DEF FrozenFirst
        <5> QED BY <5>1, <5>2
      <4> QED BY <4>1 DEF FrozenFirst
    <3>14. NothingElse(args, n + 1, staged'[c], {})
      <4>1. ASSUME NEW k \in Key, staged'[c][k] # NoEntry
            PROVE  /\ Ident[staged'[c][k].of] = k
                   /\ \E i \in 1 .. n + 1 : staged'[c][k].of = args[i]
        <5>1. n + 1 \in 1 .. n + 1
          BY <3>10
        <5>2. CASE k = Ident[a]
          BY <3>5, <3>11, <5>1, <5>2
        <5>3. CASE k # Ident[a]
          <6>1. staged'[c][k] = staged[c][k]
            BY <3>5, <5>3
          <6>2. Ident[staged[c][k].of] = k
                /\ (staged[c][k].of = a \/ \E i \in 1 .. n : staged[c][k].of = args[i])
            BY <3>8, <4>1, <6>1 DEF NothingElse
          <6>3. \E i \in 1 .. n : staged[c][k].of = args[i]
            BY <5>3, <6>2
          <6>4. 1 .. n \subseteq 1 .. n + 1
            BY <3>10
          <6> QED BY <6>1, <6>2, <6>3, <6>4
        <5> QED BY <5>2, <5>3
      <4> QED BY <4>1 DEF NothingElse
    <3>15. ~Single(c) => ProgressOf(c)'
      <4>1. ~Single(c) => /\ pc'[c] \notin {"snapshot", "scopes", "drain", "decide"}
                          /\ pc'[c] = "lock" => todo'[c] = <<>>
        BY <3>1
      <4> QED BY <3>12, <3>13, <3>14, <4>1 DEF ProgressOf
    <3>16. Single(c) => pc'[c] = "publish"
      BY <3>1
    <3> QED BY <1>0, <2>2, <3>1, <3>15, <3>16 DEF CallOf
  <2> QED BY <2>1, <2>2
<1>6. ASSUME NEW c \in Caller, Lock(c) PROVE CallOf(d)'
  <2>1. CASE d # c
    BY <1>0, <1>6, <2>1, CallFrame DEF Lock
  <2>2. CASE d = c
    <3>1. call[c].kind \in Registrations => ProgressOf(c)'
      BY <1>0, <1>6, <2>2, ProgressFrame DEF Lock, CallOf
    <3> QED BY <1>0, <1>6, <2>2, <3>1 DEF Lock, CallOf
  <2> QED BY <2>1, <2>2
<1>7. ASSUME NEW c \in Caller, Drain(c) PROVE CallOf(d)'
  <2>1. CASE d # c
    BY <1>0, <1>7, <2>1, CallFrame DEF Drain
  <2>2. CASE d = c
    <3>1. call[c].kind \in Registrations => ProgressOf(c)'
      BY <1>0, <1>7, <2>2, ProgressFrame DEF Drain, CallOf
    <3> QED BY <1>0, <1>7, <2>2, <3>1 DEF Drain, CallOf
  <2> QED BY <2>1, <2>2
<1>8. ASSUME NEW c \in Caller, Refuse(c) PROVE CallOf(d)'
  <2>1. CASE d # c
    BY <1>0, <1>8, <2>1, CallFrame DEF Refuse
  <2>2. CASE d = c
    BY <1>0, <1>8, <2>2 DEF Refuse, Deciding, CallOf, Registrations
  <2> QED BY <2>1, <2>2
<1>9. ASSUME NEW c \in Caller, Admit(c) PROVE CallOf(d)'
  <2>1. CASE d # c
    BY <1>0, <1>9, <2>1, CallFrame DEF Admit
  <2>2. CASE d = c
    <3>1. Single(c) => ProgressOf(c)'
      BY <1>0, <1>9, <2>2, ProgressFrame DEF Admit, Deciding, CallOf
    <3> QED BY <1>0, <1>9, <2>2, <3>1 DEF Admit, Deciding, CallOf
  <2> QED BY <2>1, <2>2
<1>10. ASSUME NEW c \in Caller, Publish(c) PROVE CallOf(d)'
  <2>1. CASE d # c
    BY <1>0, <1>10, <2>1, CallFrame DEF Publish
  <2>2. CASE d = c
    BY <1>0, <1>10, <2>2 DEF Publish, CallOf
  <2> QED BY <2>1, <2>2
<1>11. ASSUME NEW c \in Caller, Published(c) PROVE CallOf(d)'
  <2>1. CASE d # c
    BY <1>0, <1>11, <2>1, CallFrame DEF Published
  <2>2. CASE d = c
    BY <1>0, <1>11, <2>2 DEF Published, CallOf
  <2> QED BY <2>1, <2>2
<1>12. ASSUME NEW c \in Caller, SetFrozen(c) PROVE CallOf(d)'
  <2>1. CASE d # c
    BY <1>0, <1>12, <2>1, CallFrame DEF SetFrozen
  <2>2. CASE d = c
    BY <1>0, <1>12, <2>2 DEF SetFrozen, CallOf
  <2> QED BY <2>1, <2>2
<1>13. ASSUME NEW c \in Caller, RLock(c) PROVE CallOf(d)'
  <2>1. CASE d # c
    BY <1>0, <1>13, <2>1, CallFrame DEF RLock
  <2>2. CASE d = c
    BY <1>0, <1>13, <2>2 DEF RLock, CallOf, Registrations, Readings
  <2> QED BY <2>1, <2>2
<1>14. ASSUME NEW c \in Caller, ReadEntry(c) PROVE CallOf(d)'
  <2>1. CASE d # c
    BY <1>0, <1>14, <2>1, CallFrame DEF ReadEntry
  <2>2. CASE d = c
    BY <1>0, <1>14, <2>2 DEF ReadEntry, CallOf, Registrations, Readings
  <2> QED BY <2>1, <2>2
<1>15. ASSUME NEW c \in Caller, RUnlock(c) PROVE CallOf(d)'
  <2>1. CASE d # c
    BY <1>0, <1>15, <2>1, CallFrame DEF RUnlock
  <2>2. CASE d = c
    BY <1>0, <1>15, <2>2 DEF RUnlock, CallOf
  <2> QED BY <2>1, <2>2
<1>16. ASSUME NEW c \in Caller, Return(c) PROVE CallOf(d)'
  <2>1. CASE d # c
    BY <1>0, <1>16, <2>1, CallFrame DEF Return
  <2>2. CASE d = c
    BY <1>0, <1>16, <2>2 DEF Return, CallOf, NoCall, Request, Registrations
  <2> QED BY <2>1, <2>2
<1>17. ASSUME NEW a \in Adapter, Mutate(a) PROVE CallOf(d)'
  BY <1>0, <1>17, CallFrame DEF Mutate
<1>18. CASE UNCHANGED vars
  BY <1>0, <1>18, CallFrame DEF vars
<1> QED
  BY <1>1, <1>2, <1>3, <1>4, <1>5, <1>6, <1>7, <1>8, <1>9, <1>10, <1>11,
     <1>12, <1>13, <1>14, <1>15, <1>16, <1>17, <1>18
     DEF Next, Acquire, Work

-----------------------------------------------------------------------------

\* Only what c answers and shows may change when c moves.
LEMMA Mapping ==
  ASSUME NEW c \in Caller,
         \A d \in Caller \ {c} : pc'[d] = pc[d] /\ reply'[d] = reply[d] /\ seen'[d] = seen[d]
  PROVE  /\ Answers' = [Answers EXCEPT ![c] = IF pc'[c] = "publish" THEN "ok" ELSE reply'[c]]
         /\ Views' = [Views EXCEPT ![c] = IF pc'[c] = "done" THEN seen'[c] ELSE Absent]
BY DEF Answers, Views

\* The table changes only when a caller comes to write the map.
LEMMA TableFrame ==
  ASSUME TypeOK, LockInv, LockInv', TypeOK', NEW c \in Caller, providers' = providers,
         \A d \in Caller \ {c} : pc'[d] = pc[d] /\ staged'[d] = staged[d],
         pc[c] # "publish", pc'[c] # "publish"
  PROVE  Table' = Table
<1>1. ASSUME NEW k \in Key PROVE Committing(k)' = Committing(k)
  BY Sorts DEF TypeOK, LockInv, Writing, Committing
<1>2. ASSUME NEW k \in Key, Committing(k)
      PROVE  writer' = writer /\ staged'[writer] = staged[writer]
  BY <1>2, Sorts DEF TypeOK, LockInv, Writing, Committing
<1> QED BY <1>1, <1>2 DEF Table

\* A caller that writes the map is the only one.
LEMMA TableOf ==
  ASSUME TypeOK, LockInv, NEW c \in Caller, Writing(c)
  PROVE  Table = [k \in Key |-> IF pc[c] = "publish" /\ staged[c][k] # NoEntry
                                  THEN staged[c][k] ELSE providers[k]]
BY Sorts DEF TypeOK, LockInv, Committing, Table

RInv == IInv /\ CallInv /\ SeenInv

\* The registry starts as its contract does.
LEMMA RefineInit == Init => Contract!Init
BY Sorts DEF Init, Contract!Init, Contract!Nothing, Contract!NoCall, Absent, NoCall, Request,
       Table, Answers, Views, Committing

LEMMA InitCalls == Init => CallInv /\ SeenInv
BY DEF Init, CallInv, SeenInv, CallOf, SeenOf, NoCall, Request, Registrations, Readings

\* A call begins.
LEMMA RefineCalls ==
  ASSUME RInv, RInv', NEW c \in Caller, Calls(c)
  PROVE  Contract!Ask(c)
<1>1. PICK q \in Requests, s \in {"check", "lock", "rlock"} : Begin(c, q, s)
  BY BeginRequest
<1>2. /\ pc[c] = "idle" /\ call[c] = NoCall /\ pc' = [pc EXCEPT ![c] = s]
      /\ call' = [call EXCEPT ![c] = q]
      /\ UNCHANGED <<frozen, providers, writer, staged, seen, reply>>
  BY <1>1 DEF Begin, Goto, tabVars, lockVars, RInv, CallInv, CallOf
<1>3. pc'[c] = s /\ \A d \in Caller \ {c} : pc'[d] = pc[d]
  BY <1>2 DEF RInv, IInv, TypeOK
<1>4. Table' = Table
  BY <1>2, <1>3, TableFrame DEF RInv, IInv
<1>5. Answers' = Answers /\ Views' = Views
  BY <1>2, <1>3 DEF Answers, Views
<1> QED BY <1>2, <1>4, <1>5 DEF Contract!Ask, Contract!NoCall, NoCall, Request

\* A call returns.
LEMMA RefineReturn ==
  ASSUME RInv, RInv', NEW c \in Caller, Return(c)
  PROVE  Contract!Return(c)
<1>1. /\ pc[c] = "done" /\ pc' = [pc EXCEPT ![c] = "idle"]
      /\ call' = [call EXCEPT ![c] = NoCall]
      /\ staged' = [staged EXCEPT ![c] = Absent]
      /\ seen' = [seen EXCEPT ![c] = Absent]
      /\ reply' = [reply EXCEPT ![c] = "none"]
      /\ UNCHANGED <<frozen, providers, writer>>
  BY DEF Return, Goto, tabVars, lockVars
<1>2. /\ pc'[c] = "idle" /\ reply'[c] = "none" /\ seen'[c] = Absent
      /\ \A d \in Caller \ {c} : /\ pc'[d] = pc[d] /\ staged'[d] = staged[d]
                                 /\ reply'[d] = reply[d] /\ seen'[d] = seen[d]
  BY <1>1 DEF RInv, IInv, TypeOK
<1>3. Table' = Table
  BY <1>1, <1>2, TableFrame DEF RInv, IInv
<1>4. Answers' = [Answers EXCEPT ![c] = "none"] /\ Views' = [Views EXCEPT ![c] = Absent]
  BY <1>2, Mapping
<1>5. Answers[c] # "none"
  BY <1>1 DEF Answers, RInv, CallInv, CallOf
<1> QED BY <1>1, <1>3, <1>4, <1>5
           DEF Contract!Return, Contract!NoCall, Contract!Nothing, NoCall, Request, Absent

\* Where a call stands shows to nobody before it decides or after.
LEMMA Hidden ==
  ASSUME RInv, RInv', NEW c \in Caller,
         UNCHANGED <<frozen, providers, call, reply>>,
         \A d \in Caller \ {c} : pc'[d] = pc[d] /\ staged'[d] = staged[d] /\ seen'[d] = seen[d],
         pc[c] \notin {"publish", "done"}, pc'[c] \notin {"publish", "done"}
  PROVE  UNCHANGED Contract!vars
<1>1. Table' = Table
  BY TableFrame DEF RInv, IInv
<1>2. Answers' = Answers /\ Views' = Views
  BY DEF Answers, Views
<1> QED BY <1>1, <1>2 DEF Contract!vars

\* What an answer shows: the result, and what was seen.
LEMMA Answering ==
  ASSUME RInv, RInv', NEW c \in Caller, NEW v, Answer(c, v),
         UNCHANGED <<providers, staged, seen>>, pc[c] \notin {"publish", "done"}
  PROVE  /\ Table' = Table
         /\ Answers[c] = "none"
         /\ Answers' = [Answers EXCEPT ![c] = v]
         /\ Views' = [Views EXCEPT ![c] = seen[c]]
         /\ pc[c] # "read" => Views' = Views
<1>1. /\ pc' = [pc EXCEPT ![c] = "done"] /\ reply' = [reply EXCEPT ![c] = v]
      /\ pc \in [Caller -> Stages] /\ reply \in [Caller -> Replies]
  BY DEF Answer, Goto, RInv, IInv, TypeOK
<1>2. /\ pc'[c] = "done" /\ reply'[c] = v
      /\ \A d \in Caller \ {c} : pc'[d] = pc[d] /\ reply'[d] = reply[d] /\ seen'[d] = seen[d]
  BY <1>1
<1>3. Table' = Table
  BY <1>2, TableFrame DEF RInv, IInv
<1>4. Answers[c] = "none"
  BY DEF Answers, RInv, CallInv, CallOf
<1>5. Answers' = [Answers EXCEPT ![c] = v] /\ Views' = [Views EXCEPT ![c] = seen[c]]
  BY <1>2, Mapping
<1>6. pc[c] # "read" => Views' = Views
  <2>1. pc[c] # "read" => seen[c] = Absent
    BY DEF RInv, SeenInv, SeenOf
  <2>2. Views \in [Caller -> {Views[d] : d \in Caller}] /\ Views[c] = Absent
    BY DEF Views
  <2> QED BY <1>5, <2>1, <2>2
<1> QED BY <1>3, <1>4, <1>5, <1>6

\* The adapter in hand is one of the call's, after those frozen.
LEMMA InCall ==
  ASSUME RInv, NEW c \in Caller, todo[c] # <<>>, ProgressOf(c)
  PROVE  /\ Behind(c) \in Nat
         /\ Behind(c) + 1 \in DOMAIN call[c].args
         /\ call[c].args[Behind(c) + 1] = Current(c)
         /\ Current(c) \in Contract!Given(c)
         /\ 1 .. Behind(c) \subseteq DOMAIN call[c].args
<1>1. call[c].args \in Seq(Offered) /\ todo[c] \in Seq(Offered)
  BY DEF RInv, IInv, TypeOK
<1>2. Len(todo[c]) \in Nat /\ Len(todo[c]) > 0 /\ Len(call[c].args) \in Nat
      /\ Current(c) = todo[c][1] /\ DOMAIN call[c].args = 1 .. Len(call[c].args)
  BY <1>1, EmptySeq, LenProperties, HeadTailProperties DEF Current
<1>3. Suffix(call[c].args, todo[c])
  BY DEF ProgressOf
<1>4. Len(todo[c]) <= Len(call[c].args) /\ todo[c][1] = call[c].args[Len(call[c].args) - Len(todo[c]) + 1]
  <2>1. 1 \in 1 .. Len(todo[c])
    BY <1>2
  <2> HIDE DEF RInv
  <2> QED BY <1>3, <2>1 DEF Suffix
<1> DEFINE m == Len(call[c].args)
           l == Len(todo[c])
<1>5. Behind(c) \in Nat /\ Behind(c) + 1 \in DOMAIN call[c].args /\ 1 .. Behind(c) \subseteq DOMAIN call[c].args
  <2>1. m \in Nat /\ l \in Nat /\ l > 0 /\ l <= m /\ DOMAIN call[c].args = 1 .. m /\ Behind(c) = m - l
    BY <1>2, <1>4 DEF Behind
  <2> HIDE DEF m, l
  <2> QED BY <2>1
<1>6. call[c].args[Behind(c) + 1] = Current(c)
  BY <1>2, <1>4 DEF Behind
<1> QED BY <1>5, <1>6 DEF Contract!Given

\* A refusal before the lock says what is wrong with the call itself.
LEMMA RefineCheckFails ==
  ASSUME RInv, RInv', NEW c \in Caller, CheckFails(c)
  PROVE  Contract!Refuse(c)
<1>1. /\ pc[c] = "check" /\ Fault(c) # "none" /\ Answer(c, Fault(c))
      /\ UNCHANGED <<providers, staged, seen, frozen, call>>
  BY DEF CheckFails, tabVars, readVars
<1>2. /\ Table' = Table /\ Views' = Views /\ Answers[c] = "none"
      /\ Answers' = [Answers EXCEPT ![c] = Fault(c)]
  BY <1>1, Answering
<1>3. call[c].kind \in Registrations /\ todo[c] # <<>>
  BY <1>1 DEF RInv, IInv, StageInv, StageOf
<1>4. ProgressOf(c)
  BY <1>1, <1>3 DEF RInv, CallInv, CallOf
<1> DEFINE a == Current(c)
           n == Behind(c)
           args == call[c].args
<1>5. /\ n \in Nat /\ n + 1 \in DOMAIN args /\ args[n + 1] = a /\ a \in Contract!Given(c)
      /\ 1 .. n \subseteq DOMAIN args
  BY <1>3, <1>4, InCall
<1>6. a \in Offered
  BY <1>3, HeadTailProperties DEF RInv, IInv, TypeOK, Current
<1>7. ASSUME Fault(c) = "duplicate" PROVE Contract!Repeats(args)
  <2>1. a \in Adapter /\ staged[c][Ident[a]] # NoEntry
    BY <1>6, <1>7 DEF Fault, Offered
  <2>2. Ident[a] \in Key
    BY <2>1, Tables
  <2>3. FrozenFirst(args, n, staged[c]) /\ NothingElse(args, n, staged[c], {})
    BY <1>1, <1>4 DEF ProgressOf
  <2> HIDE DEF a, n, args
  <2>4. PICK i \in 1 .. n : staged[c][Ident[a]].of = args[i] /\ Ident[args[i]] = Ident[a]
    BY <2>1, <2>2, <2>3 DEF NothingElse
  <2>5. args[i] \in Adapter
    BY <2>3 DEF FrozenFirst
  <2>6. i \in DOMAIN args /\ i # n + 1
    BY <1>5
  <2> QED BY <1>5, <2>1, <2>4, <2>5, <2>6, Sorts DEF Contract!Repeats, Contract!Same
<1>8. Contract!Waiting(c, {"register", "set"})
  BY <1>2, <1>3 DEF Contract!Waiting, Registrations
<1> HIDE DEF n, args
<1>9. \/ NilAdapter \in Contract!Given(c) /\ Fault(c) = "required"
      \/ Contract!Given(c) \ {NilAdapter} # {} /\ Fault(c) = "invalid"
      \/ ~(Contract!Given(c) \subseteq Reconciles) /\ Fault(c) = "noreconciler"
      \/ Contract!Repeats(call[c].args) /\ Fault(c) = "duplicate"
  <2>1. Fault(c) \in {"required", "invalid", "noreconciler", "duplicate"}
    BY <1>1 DEF Fault
  <2>2. CASE Fault(c) = "required"
    BY <1>5, <2>2 DEF Fault
  <2>3. CASE Fault(c) = "invalid"
    BY <1>5, <2>3 DEF Fault
  <2>4. CASE Fault(c) = "noreconciler"
    BY <1>5, <2>4 DEF Fault
  <2>5. CASE Fault(c) = "duplicate"
    BY <1>7, <2>5 DEF args
  <2> HIDE DEF a
  <2> QED BY <2>1, <2>2, <2>3, <2>4, <2>5
<1>10. UNCHANGED <<Table, frozen, Views>> /\ Contract!Reply(c, Fault(c))
  BY <1>1, <1>2 DEF Contract!Reply
<1> HIDE DEF a
<1> QED BY <1>8, <1>9, <1>10 DEF Contract!Refuse

\* A refusal under the lock is true of the map at that instant.
LEMMA RefineRefuse ==
  ASSUME RInv, RInv', NEW c \in Caller, Refuse(c)
  PROVE  Contract!Refuse(c)
<1> DEFINE v == IF frozen THEN "frozen" ELSE "duplicate"
<1>1. /\ pc[c] = "decide" /\ call[c].kind \in Registrations /\ (frozen \/ Taken(c)) /\ Answer(c, v)
      /\ UNCHANGED <<providers, staged, seen, frozen, call>>
  BY DEF Refuse, Deciding, tabVars, readVars
<1>2. /\ Table' = Table /\ Views' = Views /\ Answers[c] = "none"
      /\ Answers' = [Answers EXCEPT ![c] = v]
  BY <1>1, Answering
<1>3. Table = providers
  BY <1>1, TableOf DEF RInv, IInv, TypeOK, Writing
<1>4. ProgressOf(c)
  BY <1>1 DEF RInv, CallInv, CallOf
<1>5. ASSUME ~frozen
      PROVE  \E a \in Contract!Given(c) \ {NilAdapter} : Table[Ident[a]] # NoEntry
  <2>1. PICK k \in Claimed(c) : providers[k] # NoEntry
    BY <1>1, <1>5 DEF Taken
  <2>2. CASE Single(c)
    <3>1. k = Ident[Current(c)] /\ Current(c) \in Adapter /\ todo[c] # <<>>
      BY <1>1, <2>1, <2>2 DEF Claimed, RInv, IInv, StageInv, StageOf, Holding
    <3>2. Current(c) \in Contract!Given(c)
      BY <1>4, <3>1, InCall
    <3> QED BY <1>3, <2>1, <3>1, <3>2, Sorts
  <2>3. CASE ~Single(c)
    <3>1. k \in Key /\ staged[c][k] # NoEntry
      BY <2>1, <2>3 DEF Claimed
    <3>2. FrozenFirst(call[c].args, Behind(c), staged[c])
          /\ NothingElse(call[c].args, Behind(c), staged[c], {})
      BY <1>1, <1>4 DEF ProgressOf
    <3>3. PICK i \in 1 .. Behind(c) : Ident[call[c].args[i]] = k /\ call[c].args[i] \in Adapter
      BY <3>1, <3>2 DEF NothingElse, FrozenFirst
    <3>4. i \in DOMAIN call[c].args
      <4>1. todo[c] = <<>>
        BY <1>1, <1>4, <2>3 DEF ProgressOf
      <4>2. call[c].args \in Seq(Offered)
        BY DEF RInv, IInv, TypeOK
      <4> QED BY <4>1, <4>2 DEF Behind
    <3>5. call[c].args[i] \in Contract!Given(c)
      BY <3>4 DEF Contract!Given
    <3> QED BY <1>3, <2>1, <3>3, <3>5, Sorts
  <2> QED BY <2>2, <2>3
<1>6. Contract!Waiting(c, {"register", "set"})
  BY <1>1, <1>2 DEF Contract!Waiting, Registrations
<1>7. UNCHANGED <<Table, frozen, Views>> /\ Contract!Reply(c, v)
  BY <1>1, <1>2 DEF Contract!Reply
<1>8. CASE frozen
  BY <1>6, <1>7, <1>8 DEF Contract!Refuse
<1>9. CASE ~frozen
  BY <1>5, <1>6, <1>7, <1>9 DEF Contract!Refuse
<1> QED BY <1>8, <1>9

-----------------------------------------------------------------------------
\* The registration takes effect: its adapters are frozen and go into places
\* that are free.
LEMMA Registering ==
  ASSUME RInv, RInv', NEW c \in Caller, call[c].kind \in Registrations,
         NEW n \in Nat,
         Table = providers, ~frozen, UNCHANGED <<providers, frozen, call, reply, seen>>,
         pc' = [pc EXCEPT ![c] = "publish"], pc[c] \notin {"publish", "done"},
         DOMAIN call[c].args = 1 .. n,
         FrozenFirst(call[c].args, n, staged'[c]),
         NothingElse(call[c].args, n, staged'[c], {}),
         \A k \in Key : staged'[c][k] # NoEntry => providers[k] = NoEntry
  PROVE  Contract!Register(c)
<1> DEFINE args == call[c].args
<1>1. pc'[c] = "publish" /\ \A d \in Caller \ {c} : pc'[d] = pc[d]
  BY DEF RInv, IInv, TypeOK
<1>2. Table' = [k \in Key |-> IF staged'[c][k] # NoEntry THEN staged'[c][k] ELSE providers[k]]
  <2>1. Writing(c)'
    BY <1>1 DEF Writing
  <2>2. ASSUME NEW k \in Key
        PROVE  Committing(k)' <=> staged'[c][k] # NoEntry
    BY <1>1, <2>1, Sorts DEF RInv, IInv, LockInv, Committing
  <2>3. writer' = c
    BY <2>1 DEF RInv, IInv, LockInv
  <2> QED BY <2>2, <2>3 DEF Table
<1>3. reply[c] = "none"
  BY DEF RInv, CallInv, CallOf
<1>4. Answers[c] = "none" /\ Answers' = [Answers EXCEPT ![c] = "ok"] /\ Views' = Views
  <2>1. Answers' = [Answers EXCEPT ![c] = "ok"]
    BY <1>1, Mapping
  <2> QED BY <1>1, <1>3, <2>1 DEF Answers, Views
<1>5. ASSUME NEW i \in DOMAIN args
      PROVE  args[i] \in Adapter /\ staged'[c][Ident[args[i]]] # NoEntry
  BY DEF FrozenFirst
<1>6. NilAdapter \notin Contract!Given(c)
  BY <1>5, Sorts DEF Contract!Given
<1>7. ~Contract!Repeats(args)
  <2>1. ASSUME NEW i \in DOMAIN args, NEW j \in DOMAIN args, i < j
        PROVE  Ident[args[i]] # Ident[args[j]]
    <3>1. Apart(args, j - 1, args[j]) /\ i \in 1 .. j - 1
      BY <2>1 DEF FrozenFirst
    <3> HIDE DEF args
    <3> QED BY <3>1 DEF Apart
  <2>2. ASSUME NEW i \in DOMAIN args, NEW j \in DOMAIN args, i # j
        PROVE  i < j \/ j < i
    BY <2>2
  <2> HIDE DEF args
  <2> QED BY <2>1, <2>2 DEF Contract!Repeats, Contract!Same
<1>8. Contract!Adds(Contract!Given(c))
  <2>1. ASSUME NEW k \in Key, NEW a \in Contract!Given(c), Ident[a] = k
        PROVE  staged'[c][k] # NoEntry
    BY <1>5, <2>1 DEF Contract!Given
  <2>2. ASSUME NEW k \in Key, staged'[c][k] # NoEntry
        PROVE  staged'[c][k].of \in Contract!Given(c) /\ Ident[staged'[c][k].of] = k
    BY <2>2 DEF NothingElse, Contract!Given
  <2>3. ASSUME NEW k \in Key, staged'[c][k] # NoEntry
        PROVE  /\ Table[k] = NoEntry /\ Table'[k] # NoEntry
               /\ Table'[k].of \in Contract!Given(c) /\ Ident[Table'[k].of] = k
    BY <1>2, <2>2, <2>3
  <2>4. ASSUME NEW k \in Key, staged'[c][k] = NoEntry
        PROVE  Table'[k] = Table[k]
    BY <1>2, <2>4
  <2>5. ASSUME NEW k \in Key, ~ \E a \in Contract!Given(c) : Ident[a] = k
        PROVE  staged'[c][k] = NoEntry
    BY <2>2, <2>5
  <2> HIDE DEF RInv, FrozenFirst, NothingElse, Contract!Given
  <2> QED BY <2>1, <2>3, <2>4, <2>5 DEF Contract!Adds
<1>9. Contract!Waiting(c, {"register", "set"}) /\ Contract!Reply(c, "ok")
  BY <1>4 DEF Contract!Waiting, Contract!Reply, Registrations
<1> QED BY <1>4, <1>6, <1>7, <1>8, <1>9 DEF Contract!Register

\* Register takes effect when its adapter is frozen under the lock, a batch
\* freezes its adapters out of sight.
LEMMA RefineCaptureScopes ==
  ASSUME RInv, RInv', NEW c \in Caller, CaptureScopes(c)
  PROVE  [Contract!Next]_(Contract!vars)
<1> DEFINE a == Current(c)
<1>1. /\ pc[c] = "scopes" /\ UNCHANGED <<frozen, providers, call, reply, seen>>
      /\ staged' = [staged EXCEPT ![c][Ident[a]].scopes = ScopesOf(a)]
      /\ pc' = [pc EXCEPT ![c] = IF Single(c) THEN "publish"
                                 ELSE IF Tail(todo[c]) = <<>> THEN "lock" ELSE "check"]
  BY DEF CaptureScopes, Goto, tabVars, readVars
<1>2. /\ pc \in [Caller -> Stages] /\ staged \in [Caller -> [Key -> Slot]]
      /\ \A d \in Caller \ {c} : pc'[d] = pc[d] /\ staged'[d] = staged[d]
  BY <1>1 DEF RInv, IInv, TypeOK
<1>3. CASE ~Single(c)
  <2>1. pc'[c] \in {"lock", "check"}
    BY <1>1, <1>2, <1>3
  <2> HIDE DEF RInv
  <2> QED BY <1>1, <1>2, <2>1, Hidden
<1>4. CASE Single(c)
  <2>1. /\ call[c].kind \in Registrations /\ todo[c] # <<>> /\ a \in Adapter /\ Ident[a] \in Key
        /\ staged[c][Ident[a]] \in Entry /\ staged[c][Ident[a]].of = a
        /\ \A k \in Key : staged[c][k] # NoEntry => k = Ident[a]
    BY <1>1, <1>4, Tables DEF RInv, IInv, StageInv, StageOf, Holding, Single
  <2>2. ProgressOf(c)
    BY <1>1, <2>1 DEF RInv, CallInv, CallOf
  <2>3. Len(call[c].args) = 1 /\ DOMAIN call[c].args = 1 .. 1
    BY <1>4, <2>1 DEF RInv, CallInv, CallOf, Single, Requests, Request, NoCall
  <2>4. call[c].args[1] = a
    <3>1. Behind(c) + 1 \in 1 .. 1 /\ Behind(c) \in Nat /\ call[c].args[Behind(c) + 1] = a
      BY <2>1, <2>2, <2>3, InCall
    <3>2. Behind(c) = 0
      BY <3>1
    <3> HIDE DEF a
    <3> QED BY <3>1, <3>2
  <2> DEFINE e == [staged[c][Ident[a]] EXCEPT !.scopes = ScopesOf(a)]
  <2>5. e # NoEntry /\ e.of = a
    <3>1. ScopesOf(a) \subseteq Operation
      BY <2>1, Tables DEF ScopesOf
    <3>2. e \in Entry
      BY <2>1, <3>1 DEF Entry
    <3> QED BY <2>1, <3>2, Sorts DEF Entry
  <2>6. staged'[c] = [staged[c] EXCEPT ![Ident[a]] = e]
    BY <1>1, <1>2, <2>1
  <2> HIDE DEF e, a
  <2>7. staged'[c][Ident[a]] = e /\ \A k \in Key \ {Ident[a]} : staged'[c][k] = NoEntry
    BY <1>2, <2>1, <2>6
  <2>8. FrozenFirst(call[c].args, 1, staged'[c]) /\ NothingElse(call[c].args, 1, staged'[c], {})
    BY <2>1, <2>4, <2>5, <2>7 DEF FrozenFirst, NothingElse, Apart
  <2>9. Writing(c) /\ Table = providers
    BY <1>1, <1>4, TableOf DEF RInv, IInv, TypeOK, Writing
  <2>10. ~frozen /\ providers[Ident[a]] = NoEntry
    BY <1>1, <1>4 DEF RInv, IInv, DecisionStands, Admitted, Claimed, a
  <2>11. pc' = [pc EXCEPT ![c] = "publish"]
    BY <1>1, <1>4
  <2>12. \A k \in Key : staged'[c][k] # NoEntry => providers[k] = NoEntry
    BY <2>7, <2>10
  <2> HIDE DEF RInv, FrozenFirst, NothingElse
  <2>13. Contract!Register(c)
    BY <1>1, <2>1, <2>3, <2>8, <2>9, <2>10, <2>11, <2>12, Registering
  <2> QED BY <2>13 DEF Contract!Next
<1> QED BY <1>3, <1>4

\* A batch takes effect when it is admitted.
LEMMA RefineAdmit ==
  ASSUME RInv, RInv', NEW c \in Caller, Admit(c)
  PROVE  [Contract!Next]_(Contract!vars)
<1>1. /\ pc[c] = "decide" /\ call[c].kind \in Registrations /\ ~frozen /\ ~Taken(c)
      /\ UNCHANGED <<frozen, providers, call, reply, seen, staged>>
      /\ pc' = [pc EXCEPT ![c] = IF Single(c) THEN "snapshot" ELSE "publish"]
  BY DEF Admit, Deciding, Goto, tabVars, readVars
<1>2. pc \in [Caller -> Stages] /\ \A d \in Caller \ {c} : pc'[d] = pc[d] /\ staged'[d] = staged[d]
  BY <1>1 DEF RInv, IInv, TypeOK
<1>3. CASE Single(c)
  <2>1. pc'[c] = "snapshot"
    BY <1>1, <1>2, <1>3
  <2> HIDE DEF RInv
  <2> QED BY <1>1, <1>2, <2>1, Hidden
<1>4. CASE ~Single(c)
  <2>1. ProgressOf(c)
    BY <1>1 DEF RInv, CallInv, CallOf
  <2>2. todo[c] = <<>>
    BY <1>1, <1>4, <2>1 DEF ProgressOf
  <2>3. call[c].args \in Seq(Offered)
    BY DEF RInv, IInv, TypeOK
  <2>4. Behind(c) \in Nat /\ DOMAIN call[c].args = 1 .. Behind(c)
    BY <2>2, <2>3 DEF Behind
  <2>5. FrozenFirst(call[c].args, Behind(c), staged'[c])
        /\ NothingElse(call[c].args, Behind(c), staged'[c], {})
    BY <1>1, <2>1 DEF ProgressOf
  <2>6. Writing(c) /\ Table = providers
    BY <1>1, TableOf DEF RInv, IInv, TypeOK, Writing
  <2>7. pc' = [pc EXCEPT ![c] = "publish"]
    BY <1>1, <1>4
  <2>8. \A k \in Key : staged'[c][k] # NoEntry => providers[k] = NoEntry
    BY <1>1, <1>4 DEF Taken, Claimed
  <2> HIDE DEF RInv, FrozenFirst, NothingElse
  <2>9. Contract!Register(c)
    BY <1>1, <2>4, <2>5, <2>6, <2>7, <2>8, Registering
  <2> QED BY <2>9 DEF Contract!Next
<1> QED BY <1>3, <1>4

\* The writes of the map show to nobody.
LEMMA RefinePublish ==
  ASSUME RInv, RInv', NEW c \in Caller, Publish(c)
  PROVE  UNCHANGED Contract!vars
<1>1. PICK k \in Key :
        /\ staged[c][k] # NoEntry
        /\ providers' = [providers EXCEPT ![k] = staged[c][k]]
        /\ staged' = [staged EXCEPT ![c][k] = NoEntry]
  BY DEF Publish
<1>2. pc[c] = "publish" /\ UNCHANGED <<frozen, pc, writer, call, reply, seen>>
  BY DEF Publish, lockVars, ctlVars, readVars
<1>3. Writing(c) /\ Writing(c)'
  BY <1>2 DEF Writing
<1>4. Table' = Table
  <2>1. Table = [j \in Key |-> IF staged[c][j] # NoEntry THEN staged[c][j] ELSE providers[j]]
    BY <1>2, <1>3, TableOf DEF RInv, IInv
  <2>2. writer = c /\ writer' = c /\ pc'[c] = "publish" /\ c # Free
    BY <1>2, <1>3, Sorts DEF RInv, IInv, LockInv
  <2>3. Table' = [j \in Key |-> IF staged'[c][j] # NoEntry THEN staged'[c][j] ELSE providers'[j]]
    BY <2>2 DEF Table, Committing
  <2>4. \A j \in Key \ {k} : staged'[c][j] = staged[c][j] /\ providers'[j] = providers[j]
    BY <1>1
  <2>5. staged'[c][k] = NoEntry /\ providers'[k] = staged[c][k]
    BY <1>1 DEF RInv, IInv, TypeOK
  <2> QED BY <1>1, <2>1, <2>3, <2>4, <2>5
<1>5. Answers' = Answers /\ Views' = Views
  BY <1>2 DEF Answers, Views
<1> QED BY <1>2, <1>4, <1>5 DEF Contract!vars

LEMMA RefinePublished ==
  ASSUME RInv, RInv', NEW c \in Caller, Published(c)
  PROVE  UNCHANGED Contract!vars
<1>1. /\ pc[c] = "publish" /\ staged[c] = Absent /\ writer' = Free
      /\ pc' = [pc EXCEPT ![c] = "done"] /\ reply' = [reply EXCEPT ![c] = "ok"]
      /\ UNCHANGED <<frozen, providers, call, seen, staged>>
  BY DEF Published, Answer, Goto, tabVars, readVars
<1>2. /\ pc'[c] = "done" /\ reply'[c] = "ok"
      /\ \A d \in Caller \ {c} : pc'[d] = pc[d] /\ reply'[d] = reply[d] /\ seen'[d] = seen[d]
  BY <1>1 DEF RInv, IInv, TypeOK
<1>3. Table = providers /\ Table' = providers
  <2>1. Table = [k \in Key |-> providers[k]]
    BY <1>1, TableOf DEF RInv, IInv, Writing, Absent
  <2>2. Table' = [k \in Key |-> providers[k]]
    BY <1>1 DEF Table, Committing
  <2> QED BY <2>1, <2>2 DEF RInv, IInv, TypeOK
<1>4. Answers' = Answers
  BY <1>1, <1>2 DEF Answers
<1>5. Views' = Views
  <2>1. seen[c] = Absent
    BY <1>1 DEF RInv, SeenInv, SeenOf
  <2> QED BY <1>1, <1>2, <2>1 DEF Views
<1> QED BY <1>1, <1>3, <1>4, <1>5 DEF Contract!vars

LEMMA RefineSetFrozen ==
  ASSUME RInv, RInv', NEW c \in Caller, SetFrozen(c)
  PROVE  Contract!Freeze(c)
<1>1. /\ pc[c] = "decide" /\ call[c].kind = "freeze" /\ frozen' = TRUE /\ Answer(c, "ok")
      /\ UNCHANGED <<providers, staged, seen, call>>
  BY DEF SetFrozen, readVars
<1> QED BY <1>1, Answering DEF Contract!Freeze, Contract!Waiting, Contract!Reply

\* A read shows the table as it is when the read lock is given back.
LEMMA RefineRUnlock ==
  ASSUME RInv, RInv', NEW c \in Caller, RUnlock(c)
  PROVE  Contract!Frozen(c) \/ Contract!Look(c)
<1> DEFINE v == IF call[c].kind # "frozen" THEN "ok" ELSE IF frozen THEN "yes" ELSE "no"
<1>1. /\ pc[c] = "read" /\ want[c] = {} /\ Answer(c, v)
      /\ UNCHANGED <<providers, staged, seen, call, frozen>>
  BY DEF RUnlock, tabVars, readVars
<1>2. /\ Table' = Table /\ Answers[c] = "none" /\ Answers' = [Answers EXCEPT ![c] = v]
      /\ Views' = [Views EXCEPT ![c] = seen[c]]
  BY <1>1, Answering
<1>3. Table = providers
  <2>1. \A k \in Key : ~Committing(k)
    BY <1>1 DEF RInv, IInv, LockInv, TypeOK, Writing, Committing
  <2> QED BY <2>1 DEF Table, RInv, IInv, TypeOK
<1>4. seen[c] = [k \in Key |-> IF k \in call[c].keys THEN Table[k] ELSE NoEntry]
  BY <1>1, <1>3 DEF RInv, SeenInv, SeenOf
<1>5. call[c].kind \in Readings
  BY <1>1 DEF RInv, CallInv, CallOf
<1>6. CASE call[c].kind = "frozen"
  <2>1. seen[c] = Absent
    <3>1. call[c].keys = {}
      BY <1>6 DEF RInv, CallInv, CallOf, Requests, Request, NoCall
    <3> QED BY <1>4, <3>1 DEF Absent
  <2>2. Views[c] = Absent /\ Views \in [Caller -> {Views[d] : d \in Caller}]
    BY <1>1 DEF Views
  <2>3. Views' = Views
    BY <1>2, <2>1, <2>2
  <2> QED BY <1>1, <1>2, <1>6, <2>3 DEF Contract!Frozen, Contract!Waiting, Contract!Reply
<1>7. CASE call[c].kind # "frozen"
  BY <1>1, <1>2, <1>4, <1>5, <1>7 DEF Contract!Look, Contract!Waiting, Contract!Reply, Readings
<1> QED BY <1>6, <1>7

\* Every step of the registry is one of the contract's, or shows to nobody.
LEMMA RefineStep ==
  ASSUME RInv, RInv', [Next]_vars
  PROVE  [Contract!Next]_(Contract!vars)
<1>1. ASSUME NEW c \in Caller, Calls(c) PROVE [Contract!Next]_(Contract!vars)
  BY <1>1, RefineCalls DEF Contract!Next
<1>2. ASSUME NEW c \in Caller, CheckFails(c) PROVE [Contract!Next]_(Contract!vars)
  BY <1>2, RefineCheckFails DEF Contract!Next
<1>3. ASSUME NEW c \in Caller, CheckPasses(c) PROVE UNCHANGED Contract!vars
  BY <1>3, Hidden DEF CheckPasses, Goto, tabVars, readVars, RInv, IInv, TypeOK
<1>4. ASSUME NEW c \in Caller, Snapshot(c) PROVE UNCHANGED Contract!vars
  BY <1>4, Hidden DEF Snapshot, Goto, tabVars, readVars, RInv, IInv, TypeOK
<1>5. ASSUME NEW c \in Caller, CaptureScopes(c) PROVE [Contract!Next]_(Contract!vars)
  BY <1>5, RefineCaptureScopes
<1>6. ASSUME NEW c \in Caller, Lock(c) PROVE UNCHANGED Contract!vars
  BY <1>6, Hidden DEF Lock, Goto, tabVars, readVars, RInv, IInv, TypeOK
<1>7. ASSUME NEW c \in Caller, Drain(c) PROVE UNCHANGED Contract!vars
  BY <1>7, Hidden DEF Drain, Goto, tabVars, readVars, RInv, IInv, TypeOK
<1>8. ASSUME NEW c \in Caller, Refuse(c) PROVE [Contract!Next]_(Contract!vars)
  BY <1>8, RefineRefuse DEF Contract!Next
<1>9. ASSUME NEW c \in Caller, Admit(c) PROVE [Contract!Next]_(Contract!vars)
  BY <1>9, RefineAdmit
<1>10. ASSUME NEW c \in Caller, Publish(c) PROVE UNCHANGED Contract!vars
  BY <1>10, RefinePublish
<1>11. ASSUME NEW c \in Caller, Published(c) PROVE UNCHANGED Contract!vars
  BY <1>11, RefinePublished
<1>12. ASSUME NEW c \in Caller, SetFrozen(c) PROVE [Contract!Next]_(Contract!vars)
  BY <1>12, RefineSetFrozen DEF Contract!Next
<1>13. ASSUME NEW c \in Caller, RLock(c) PROVE UNCHANGED Contract!vars
  BY <1>13, Hidden DEF RLock, Goto, tabVars, readVars, RInv, IInv, TypeOK
<1>14. ASSUME NEW c \in Caller, ReadEntry(c) PROVE UNCHANGED Contract!vars
  BY <1>14, Hidden DEF ReadEntry, tabVars, ctlVars, RInv, IInv, TypeOK
<1>15. ASSUME NEW c \in Caller, RUnlock(c) PROVE [Contract!Next]_(Contract!vars)
  BY <1>15, RefineRUnlock DEF Contract!Next
<1>16. ASSUME NEW c \in Caller, Return(c) PROVE [Contract!Next]_(Contract!vars)
  BY <1>16, RefineReturn DEF Contract!Next
<1>17. ASSUME NEW a \in Adapter, Mutate(a) PROVE UNCHANGED Contract!vars
  BY <1>17 DEF Mutate, tabVars, lockVars, ctlVars, readVars, Contract!vars,
               Table, Committing, Answers, Views
<1>18. CASE UNCHANGED vars
  BY <1>18 DEF vars, tabVars, lockVars, ctlVars, readVars, Contract!vars,
               Table, Committing, Answers, Views
<1> HIDE DEF RInv
<1> QED
  BY <1>1, <1>2, <1>3, <1>4, <1>5, <1>6, <1>7, <1>8, <1>9, <1>10, <1>11,
     <1>12, <1>13, <1>14, <1>15, <1>16, <1>17, <1>18
     DEF Next, Acquire, Work

\* Requests, progress and reads stay in line with it.
LEMMA CallsInvariant == Spec => []RInv
<1>1. Init => RInv
  BY InitInv, InitCalls DEF RInv
<1>2. RInv /\ [Next]_vars => RInv'
  BY TypeStep, LockStep, StageStep, DecisionStep, CallStep, SeenStep DEF RInv, IInv
<1> QED BY <1>1, <1>2, PTL DEF Spec

\* The registry implements its contract: every call takes effect at one
\* instant between its invocation and its return.
THEOREM Linearized == Spec => Linearizable
<1>1. RInv /\ RInv' /\ [Next]_vars => [Contract!Next]_(Contract!vars)
  BY RefineStep
<1> QED BY <1>1, CallsInvariant, RefineInit, PTL DEF Spec, Contract!Spec, Linearizable

-----------------------------------------------------------------------------
(* Waiting.  That every call returns needs fairness and stays with TLC; what *)
(* it rests on are the three facts below, about single states and steps.    *)

\* c stands where sync.RWMutex does not let it go on.
Waits(c) ==
  \/ pc[c] \in {"lock", "rlock"} /\ writer # Free
  \/ pc[c] = "drain" /\ readers # {}
  \/ pc[c] = "scopes" /\ Current(c) \in Reentrant /\ writer # Free

\* Whoever waits does so for a caller that is inside the lock and runs.
WaitsOnRunner ==
  \A c \in Caller : Waits(c) =>
    \E d \in Caller \ {c} : (writer = d \/ d \in readers) /\ ~Waits(d)

\* Register has its own adapter in hand when it calls into it.
LEMMA OwnAdapter ==
  ASSUME RInv, NEW c \in Caller, Single(c), pc[c] = "scopes"
  PROVE  Current(c) \in Singles
<1> DEFINE a == Current(c)
<1>1. todo[c] # <<>> /\ call[c].kind \in Registrations
  BY DEF RInv, IInv, StageInv, StageOf, Holding
<1>2. ProgressOf(c)
  BY <1>1 DEF RInv, CallInv, CallOf
<1>3. PICK b \in Singles : call[c].args = <<b>>
  BY DEF RInv, CallInv, CallOf, Single, Requests, Request, NoCall
<1>4. call[c].args[1] = a
  <2>1. Len(call[c].args) = 1 /\ DOMAIN call[c].args = 1 .. 1
    BY <1>3
  <2>2. Behind(c) + 1 \in 1 .. 1 /\ Behind(c) \in Nat /\ call[c].args[Behind(c) + 1] = a
    BY <1>1, <1>2, <2>1, InCall
  <2>3. Behind(c) = 0
    BY <2>2
  <2> HIDE DEF a
  <2> QED BY <2>2, <2>3
<1> QED BY <1>3, <1>4

\* There is no circular wait: if no adapter passed to Register calls back into
\* the registry for its scopes, whoever waits for the mutex waits for another
\* caller that holds it and can go on, however registrations, freezes and
\* reads interleave.  A batch asks for scopes before it locks, so its adapters
\* may call back.
THEOREM NoCircularWait ==
  ASSUME Reentrant \cap Singles = {}
  PROVE  Spec => []WaitsOnRunner
<1>1. RInv => WaitsOnRunner
  <2> SUFFICES ASSUME RInv, NEW c \in Caller, Waits(c)
               PROVE  \E d \in Caller \ {c} : (writer = d \/ d \in readers) /\ ~Waits(d)
    BY DEF WaitsOnRunner
  <2>1. ASSUME NEW d \in Caller, d \in readers
        PROVE  ~Waits(d)
    BY <2>1 DEF RInv, IInv, LockInv, Waits
  <2>2. CASE readers # {}
    <3>1. PICK d \in Caller : d \in readers
      BY <2>2 DEF RInv, IInv, TypeOK
    <3>2. d # c
      BY <2>1, <3>1
    <3> QED BY <2>1, <3>1, <3>2
  <2>3. CASE readers = {}
    <3>1. writer \in Caller
      BY <2>3 DEF RInv, IInv, TypeOK, Waits
    <3>2. Writing(writer)
      BY <3>1 DEF RInv, IInv, LockInv
    <3>3. (Single(writer) /\ pc[writer] = "scopes") => Current(writer) \notin Reentrant
      BY <3>1, OwnAdapter
    <3>4. ~Waits(writer)
      BY <2>3, <3>2, <3>3 DEF Writing, Waits
    <3>5. writer # c
      BY <3>4
    <3> QED BY <3>1, <3>4, <3>5
  <2> QED BY <2>2, <2>3
<1> QED BY <1>1, CallsInvariant, PTL

BlocksForGood ==
  [][\A c \in Caller : CalledBack(c) =>
       CalledBack(c)' /\ UNCHANGED <<frozen, providers, writer, readers>>]_vars

\* Outside that hypothesis, the case CallsReturn excepts, the registry is lost:
\* Register holds the write lock while freezeAdapter calls into the provider, so
\* a provider that calls back for the read lock keeps its registration where it
\* is for ever, and nobody gets the lock or changes the registry again.
THEOREM ReentryBlocks == Spec => BlocksForGood
<1> DEFINE Keeps == \A c \in Caller : CalledBack(c) =>
             CalledBack(c)' /\ UNCHANGED <<frozen, providers, writer, readers>>
<1>1. IInv /\ [Next]_vars => Keeps
  <2> SUFFICES ASSUME IInv, [Next]_vars, NEW c \in Caller, CalledBack(c)
               PROVE  CalledBack(c)' /\ UNCHANGED <<frozen, providers, writer, readers>>
    OBVIOUS
  <2>1. /\ writer = c /\ c # Free /\ readers = {}
        /\ \A d \in Caller \ {c} :
             /\ pc[d] \notin {"drain", "decide", "publish", "read"}
             /\ pc[d] = "scopes" => ~Single(d)
             /\ pc[d] = "snapshot" => ~Single(d)
    BY Sorts DEF IInv, LockInv, Writing, CalledBack
  <2> USE DEF IInv, TypeOK, tabVars, lockVars, ctlVars, readVars, Goto, Answer,
              CalledBack, Single, Current
  <2>2. ASSUME NEW d \in Caller, Calls(d)
        PROVE  CalledBack(c)' /\ UNCHANGED <<frozen, providers, writer, readers>>
    <3>1. PICK q \in TypedRequest, s \in {"check", "lock", "rlock"} : Begin(d, q, s)
      BY <2>2, BeginShape
    <3> QED BY <3>1 DEF Begin
  <2>3. ASSUME NEW d \in Caller, Acquire(d)
        PROVE  CalledBack(c)' /\ UNCHANGED <<frozen, providers, writer, readers>>
    <3>1. ~Lock(d) /\ ~RLock(d)
      BY <2>1 DEF Lock, RLock
    <3>2. CaptureScopes(d)
      BY <2>3, <3>1 DEF Acquire
    <3> QED BY <2>1, <3>2 DEF CaptureScopes
  <2>4. ASSUME NEW d \in Caller, Work(d)
        PROVE  CalledBack(c)' /\ UNCHANGED <<frozen, providers, writer, readers>>
    <3>1. d # c
      BY <2>4 DEF Work, CheckFails, CheckPasses, Snapshot, Drain, Refuse, Admit,
                  Deciding, Publish, Published, SetFrozen, ReadEntry, RUnlock, Return
    <3>2. CheckFails(d) \/ CheckPasses(d) \/ Snapshot(d) \/ Return(d)
      BY <2>1, <2>4, <3>1 DEF Work, Drain, Refuse, Admit, Deciding, Publish,
                              Published, SetFrozen, ReadEntry, RUnlock
    <3> QED BY <3>1, <3>2 DEF CheckFails, CheckPasses, Snapshot, Return
  <2>5. ASSUME NEW a \in Adapter, Mutate(a)
        PROVE  CalledBack(c)' /\ UNCHANGED <<frozen, providers, writer, readers>>
    BY <2>5 DEF Mutate
  <2>6. CASE UNCHANGED vars
    BY <2>6 DEF vars
  <2> QED BY <2>2, <2>3, <2>4, <2>5, <2>6 DEF Next
<1>2. IInv /\ [Next]_vars => [Keeps]_vars
  BY <1>1
<1> QED BY <1>2, Invariant, PTL DEF Spec, BlocksForGood

-----------------------------------------------------------------------------
(* What a call has left. *)

\* The entries a call has frozen and not written yet.
Pending(places) == {k \in Key : places[k] # NoEntry}

\* What the stage itself still costs, so that every step counts down: a batch
\* goes through four stages and stages one entry for every adapter to freeze.
Rank(c) ==
  CASE pc[c] = "idle" -> 0
    [] pc[c] = "done" -> 1
    [] pc[c] \in {"publish", "read"} -> 2
    [] pc[c] \in {"decide", "rlock"} -> 3
    [] pc[c] = "drain" -> 4
    [] pc[c] = "lock" -> 5
    [] pc[c] = "check" -> 6
    [] pc[c] = "snapshot" -> IF Single(c) THEN 2 ELSE 5
    [] pc[c] = "scopes" -> IF Single(c) THEN 0 ELSE 3

\* Adapters to freeze, entries to write, keys to read, and the stage.
Left(c) ==
  4 * Len(todo[c]) + Cardinality(Pending(staged[c])) + Cardinality(want[c]) + Rank(c)

CallsCountDown ==
  [][\A c \in Caller :
       /\ Left(c) \in Nat
       /\ Acquire(c) \/ Work(c) => Left(c)' < Left(c)
       /\ pc[c] # "idle" /\ ~(Acquire(c) \/ Work(c)) => Left(c)' = Left(c)]_vars

LEMMA RankType ==
  ASSUME TypeOK, NEW c \in Caller
  PROVE  Rank(c) \in 0 .. 6
BY DEF TypeOK, Stages, Rank

\* With finitely many identities what is left is a number.
LEMMA LeftType ==
  ASSUME TypeOK, IsFiniteSet(Key), NEW c \in Caller
  PROVE  /\ Len(todo[c]) \in Nat
         /\ IsFiniteSet(want[c]) /\ Cardinality(want[c]) \in Nat
         /\ IsFiniteSet(Pending(staged[c])) /\ Cardinality(Pending(staged[c])) \in Nat
         /\ Left(c) \in Nat
<1>1. want[c] \subseteq Key /\ Pending(staged[c]) \subseteq Key /\ Len(todo[c]) \in Nat
  BY DEF TypeOK, Pending
<1>2. /\ IsFiniteSet(want[c]) /\ Cardinality(want[c]) \in Nat
      /\ IsFiniteSet(Pending(staged[c])) /\ Cardinality(Pending(staged[c])) \in Nat
  BY <1>1, FS_Subset, FS_CardinalityType
<1> QED BY <1>1, <1>2, RankType DEF Left

\* Freezing one more adapter stages at most one more entry.
LEMMA OneMore ==
  ASSUME NEW S, IsFiniteSet(S), NEW T, NEW k, T \subseteq S \cup {k}
  PROVE  Cardinality(T) <= Cardinality(S) + 1
<1>1. IsFiniteSet(S \cup {k}) /\ Cardinality(S \cup {k}) <= Cardinality(S) + 1
  <2>1. IsFiniteSet(S \cup {k})
    BY FS_AddElement
  <2>2. Cardinality(S \cup {k}) = Cardinality(S) \/ Cardinality(S \cup {k}) = Cardinality(S) + 1
    BY FS_AddElement
  <2> QED BY <2>1, <2>2, FS_CardinalityType
<1>2. Cardinality(T) <= Cardinality(S \cup {k}) /\ IsFiniteSet(T)
  BY <1>1, FS_Subset
<1> QED BY <1>1, <1>2, FS_CardinalityType

\* Writing or reading one entry leaves one less.
LEMMA OneLess ==
  ASSUME NEW S, IsFiniteSet(S), NEW k \in S
  PROVE  Cardinality(S \ {k}) = Cardinality(S) - 1
BY FS_RemoveElement

\* A step of the call itself takes something off what is left of it.
LEMMA OwnStepCounts ==
  ASSUME IInv, IInv', IsFiniteSet(Key), NEW c \in Caller, Acquire(c) \/ Work(c)
  PROVE  Left(c)' < Left(c)
<1> USE DEF tabVars, lockVars, ctlVars, readVars, Goto, Answer
<1> DEFINE t == Len(todo[c])
           p == Cardinality(Pending(staged[c]))
           w == Cardinality(want[c])
<1>1. TypeOK /\ TypeOK'
  BY DEF IInv
<1>2. t \in Nat /\ p \in Nat /\ w \in Nat /\ t' \in Nat /\ p' \in Nat /\ w' \in Nat
  <2>1. t \in Nat /\ p \in Nat /\ w \in Nat
    BY <1>1, LeftType
  <2>2. t' \in Nat /\ want'[c] \subseteq Key /\ Pending(staged[c])' \subseteq Key
    BY <1>1 DEF TypeOK, Pending
  <2>3. p' \in Nat /\ w' \in Nat
    BY <2>2, FS_Subset, FS_CardinalityType
  <2> QED BY <2>1, <2>2, <2>3
<1>3. Left(c) = 4 * t + p + w + Rank(c) /\ Left(c)' = 4 * t' + p' + w' + Rank(c)'
  BY DEF Left
<1>4. Rank(c) \in Nat /\ Rank(c)' \in Nat
  <2>1. Rank(c) \in Nat
    BY <1>1, RankType
  <2>2. Rank(c)' \in Nat
    BY <1>1 DEF TypeOK, Stages, Rank
  <2> QED BY <2>1, <2>2
<1>5. ASSUME UNCHANGED <<todo, staged, want>>, Rank(c)' < Rank(c)
      PROVE  Left(c)' < Left(c)
  <2>1. t' = t /\ p' = p /\ w' = w
    BY <1>5 DEF Pending
  <2> HIDE DEF t, p, w
  <2> QED BY <1>2, <1>3, <1>4, <1>5, <2>1
<1>6. pc \in [Caller -> Stages]
  BY <1>1 DEF TypeOK
<1>7. ASSUME CheckFails(c) \/ CheckPasses(c) \/ Lock(c) \/ Drain(c) \/ Refuse(c)
               \/ Admit(c) \/ Published(c) \/ SetFrozen(c) \/ RLock(c) \/ RUnlock(c)
      PROVE  Left(c)' < Left(c)
  <2>1. UNCHANGED <<todo, staged, want, call>>
    BY <1>7 DEF CheckFails, CheckPasses, Lock, Drain, Refuse, Admit, Published,
                SetFrozen, RLock, RUnlock
  <2>2. Rank(c)' < Rank(c)
    BY <1>6, <1>7 DEF CheckFails, CheckPasses, Lock, Drain, Refuse, Admit, Deciding,
                Published, SetFrozen, RLock, RUnlock, Rank, Single
  <2> QED BY <1>5, <2>1, <2>2
<1>8. ASSUME Snapshot(c) PROVE Left(c)' < Left(c)
  <2> DEFINE k == Ident[Current(c)]
  <2>1. /\ UNCHANGED <<todo, want, call>> /\ pc[c] = "snapshot" /\ pc'[c] = "scopes"
        /\ staged' = [staged EXCEPT ![c][k] =
                       [of |-> Current(c), meta |-> meta[Current(c)], scopes |-> {}]]
    BY <1>6, <1>8 DEF Snapshot
  <2>2. \A j \in Key : j # k => staged'[c][j] = staged[c][j]
    BY <1>1, <2>1 DEF TypeOK
  <2>3. Pending(staged[c])' \subseteq Pending(staged[c]) \cup {k}
    BY <2>2 DEF Pending
  <2>4. p' <= p + 1
    BY <1>1, <2>3, LeftType, OneMore
  <2>5. t' = t /\ w' = w /\ Rank(c)' + 2 = Rank(c)
    BY <2>1 DEF Rank, Single
  <2> HIDE DEF t, p, w, k
  <2> QED BY <1>2, <1>3, <1>4, <2>4, <2>5
<1>9. ASSUME CaptureScopes(c) PROVE Left(c)' < Left(c)
  <2> DEFINE k == Ident[Current(c)]
             e == staged[c][k]
  <2>1. /\ UNCHANGED <<want, call>> /\ pc[c] = "scopes" /\ todo'[c] = Tail(todo[c])
        /\ pc'[c] \in {"publish", "lock", "check"}
        /\ Single(c) => pc'[c] = "publish"
        /\ staged' = [staged EXCEPT ![c][k].scopes = ScopesOf(Current(c))]
    BY <1>1, <1>6, <1>9 DEF CaptureScopes, TypeOK
  <2>2. todo[c] # <<>> /\ e \in Entry /\ todo[c] \in Seq(Offered)
    BY <1>1, <2>1 DEF IInv, StageInv, StageOf, Holding, TypeOK
  <2>3. t' = t - 1
    BY <2>1, <2>2, HeadTailProperties
  <2>4. Pending(staged[c])' \subseteq Pending(staged[c])
    <3>1. e # NoEntry
      BY <2>2, Sorts
    <3>2. \A j \in Key : j # k => staged'[c][j] = staged[c][j]
      BY <1>1, <2>1 DEF TypeOK
    <3> HIDE DEF k
    <3> QED BY <3>1, <3>2 DEF Pending
  <2>5. p' <= p
    BY <1>1, <2>4, LeftType, FS_Subset
  <2>6. w' = w /\ Rank(c)' <= Rank(c) + 3
    BY <2>1 DEF Rank, Single
  <2> HIDE DEF t, p, w, k
  <2> QED BY <1>2, <1>3, <1>4, <2>3, <2>5, <2>6
<1>10. ASSUME Publish(c) PROVE Left(c)' < Left(c)
  <2>1. PICK k \in Key : /\ staged[c][k] # NoEntry
                         /\ staged' = [staged EXCEPT ![c][k] = NoEntry]
    BY <1>10 DEF Publish
  <2>2. UNCHANGED <<todo, want, call, pc>>
    BY <1>10 DEF Publish
  <2>3. Pending(staged[c])' = Pending(staged[c]) \ {k} /\ k \in Pending(staged[c])
    BY <1>1, <2>1 DEF Pending, TypeOK
  <2>4. p' = p - 1
    BY <1>1, <2>3, LeftType, OneLess
  <2>5. t' = t /\ w' = w /\ Rank(c)' = Rank(c)
    BY <2>2 DEF Rank, Single
  <2> HIDE DEF t, p, w
  <2> QED BY <1>2, <1>3, <1>4, <2>4, <2>5
<1>11. ASSUME ReadEntry(c) PROVE Left(c)' < Left(c)
  <2>1. PICK k \in want[c] : want' = [want EXCEPT ![c] = @ \ {k}]
    BY <1>11 DEF ReadEntry
  <2>2. UNCHANGED <<todo, staged, call, pc>>
    BY <1>11 DEF ReadEntry
  <2>3. want'[c] = want[c] \ {k}
    BY <1>1, <2>1 DEF TypeOK
  <2>4. w' = w - 1
    BY <1>1, <2>3, LeftType, OneLess
  <2>5. t' = t /\ p' = p /\ Rank(c)' = Rank(c)
    BY <2>2 DEF Rank, Single, Pending
  <2> HIDE DEF t, p, w
  <2> QED BY <1>2, <1>3, <1>4, <2>4, <2>5
<1>12. ASSUME Return(c) PROVE Left(c)' < Left(c)
  <2>1. /\ pc[c] = "done" /\ pc'[c] = "idle" /\ todo'[c] = <<>> /\ staged'[c] = Absent
        /\ want'[c] = {}
    BY <1>1, <1>12 DEF Return, TypeOK
  <2>2. t' = 0
    BY <2>1
  <2>3. Pending(staged[c])' = {}
    BY <2>1 DEF Pending, Absent
  <2>4. p' = 0 /\ w' = 0
    BY <2>1, <2>3, FS_EmptySet
  <2>5. Rank(c)' = 0 /\ Rank(c) = 1
    BY <2>1 DEF Rank
  <2> HIDE DEF t, p, w
  <2> QED BY <1>2, <1>3, <2>2, <2>4, <2>5
<1> QED
  BY <1>7, <1>8, <1>9, <1>10, <1>11, <1>12 DEF Acquire, Work

\* Nobody else has a hand in it.
LEMMA OthersLeaveIt ==
  ASSUME TypeOK, [Next]_vars, NEW c \in Caller, pc[c] # "idle", ~(Acquire(c) \/ Work(c))
  PROVE  Left(c)' = Left(c)
<1> USE DEF tabVars, lockVars, ctlVars, readVars, Goto, Answer
<1>1. ASSUME pc'[c] = pc[c], todo'[c] = todo[c], staged'[c] = staged[c],
             want'[c] = want[c], call'[c] = call[c]
      PROVE  Left(c)' = Left(c)
  BY <1>1 DEF Left, Rank, Pending, Single
<1>2. ASSUME NEW d \in Caller, Calls(d) PROVE Left(c)' = Left(c)
  <2>1. PICK q \in TypedRequest, s \in {"check", "lock", "rlock"} : Begin(d, q, s)
    BY <1>2, BeginShape
  <2> QED BY <1>1, <2>1 DEF Begin, TypeOK
<1>3. ASSUME NEW d \in Caller, Acquire(d) PROVE Left(c)' = Left(c)
  <2>1. d # c
    BY <1>3
  <2> QED BY <1>1, <1>3, <2>1 DEF Acquire, Lock, RLock, CaptureScopes, TypeOK
<1>4. ASSUME NEW d \in Caller, Work(d) PROVE Left(c)' = Left(c)
  <2>1. d # c
    BY <1>4
  <2> QED BY <1>1, <1>4, <2>1
          DEF Work, CheckFails, CheckPasses, Snapshot, Drain, Refuse, Admit, Publish,
              Published, SetFrozen, ReadEntry, RUnlock, Return, TypeOK
<1>5. ASSUME NEW a \in Adapter, Mutate(a) PROVE Left(c)' = Left(c)
  BY <1>1, <1>5 DEF Mutate
<1>6. CASE UNCHANGED vars
  BY <1>1, <1>6 DEF vars
<1> QED BY <1>2, <1>3, <1>4, <1>5, <1>6 DEF Next

\* No call goes on for ever by itself: with finitely many identities every
\* step of a call takes something off what is left of it, a natural number
\* fixed when the call begins, and nothing another caller or an adapter's
\* owner does adds to it.  Together with NoCircularWait only fairness is left
\* for CallsReturn.
THEOREM CallsAreFinite ==
  ASSUME IsFiniteSet(Key)
  PROVE  Spec => CallsCountDown
<1> DEFINE Counts ==
      \A c \in Caller :
        /\ Left(c) \in Nat
        /\ Acquire(c) \/ Work(c) => Left(c)' < Left(c)
        /\ pc[c] # "idle" /\ ~(Acquire(c) \/ Work(c)) => Left(c)' = Left(c)
<1>1. IInv /\ IInv' /\ [Next]_vars => Counts
  BY LeftType, OwnStepCounts, OthersLeaveIt DEF IInv
<1>2. IInv /\ IInv' /\ [Next]_vars => [Counts]_vars
  BY <1>1
<1> QED BY <1>2, Invariant, PTL DEF Spec, CallsCountDown
===============================================================================
