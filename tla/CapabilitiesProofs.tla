-------------------------- MODULE CapabilitiesProofs --------------------------
(***************************************************************************)
(* Freezing keeps a provider's optional interfaces and its scope answers,  *)
(* through any number of registries.                                       *)
(***************************************************************************)
EXTENDS Capabilities, FiniteSetTheorems, WellFoundedInduction, TLAPS

\* Each of the sixteen combinations of optional interfaces has its case.
LEMMA CasesCover ==
  ASSUME NEW faces
  PROVE  \E i \in 1 .. 16 : Cases[i] = faces \cap Optional
<1> USE DEF Cases, Optional, V, T, W, R
<1>1. CASE V \in faces /\ T \in faces
  BY <1>1
<1>2. CASE V \in faces /\ T \notin faces
  BY <1>2
<1>3. CASE V \notin faces /\ T \in faces
  BY <1>3
<1>4. CASE V \notin faces /\ T \notin faces
  BY <1>4
<1> QED BY <1>1, <1>2, <1>3, <1>4

\* No case asks for a part of what a later one asks for.
LEMMA CasesOrdered ==
  \A i \in 1 .. 16 : \A j \in 1 .. i - 1 : ~(Cases[j] \subseteq Cases[i])
BY DEF Cases, V, T, W, R

\* The switch of freezeAdapter keeps exactly the optional interfaces.
LEMMA WrapperExact ==
  ASSUME NEW faces
  PROVE  Wrapper(faces) = faces \cap Optional
<1> DEFINE First(i) == /\ Cases[i] \subseteq faces
                       /\ \A j \in 1 .. i - 1 : ~(Cases[j] \subseteq faces)
<1>1. DOMAIN Cases = 1 .. 16
  BY DEF Cases
<1>2. \A i \in 1 .. 16 : Cases[i] \subseteq Optional
  BY DEF Cases, Optional
<1>3. PICK i \in 1 .. 16 : Cases[i] = faces \cap Optional
  BY CasesCover
<1>4. \A j \in 1 .. 16 : Cases[j] \subseteq faces <=> Cases[j] \subseteq Cases[i]
  BY <1>2, <1>3
<1>5. First(i)
  BY <1>4, CasesOrdered
<1>6. ASSUME NEW k \in 1 .. 16, First(k) PROVE k = i
  <2>1. ~(k < i)
    BY <1>4, <1>6, CasesOrdered
  <2>2. ~(i < k)
    BY <1>3, <1>6
  <2> QED BY <2>1, <2>2
<1> HIDE DEF First
<1>7. (CHOOSE k \in DOMAIN Cases : First(k)) = i
  BY <1>1, <1>5, <1>6
<1> QED BY <1>3, <1>7 DEF Wrapper, First

-----------------------------------------------------------------------------
(* The inductive invariant: TypeOK and the two facts about every layer.     *)
Inv == TypeOK /\ ExactOptional /\ SnapshotsAgree

\* What freezing the outermost adapter adds, and that it adds nothing else.
LEMMA RegisterShape ==
  ASSUME Inv, Register
  PROVE  LET n == Len(chain) IN
         /\ Len(chain') = n + 1
         /\ \A i \in 1 .. n : chain'[i] = chain[i]
         /\ chain'[n + 1] = freezeAdapter(n)
         /\ freezeAdapter(n) \in Layer
         /\ chain' \in Seq(Layer)
<1> DEFINE n == Len(chain)
<1> USE DEF Inv, TypeOK
<1>1. n \in Nat /\ \A i \in 1 .. n : chain[i] \in Layer
  OBVIOUS
<1>2. ScopesAt(n) \in [Question -> Answers]
  BY <1>1 DEF ScopesAt, Layer
<1>3. FrozenScopes(ScopesAt(n)) \in [Question -> Answers]
  BY <1>2 DEF FrozenScopes, Answers
<1>4. Wrapper(FacesAt(n)) \subseteq Optional
  BY WrapperExact
<1>5. freezeAdapter(n) \in Layer
  BY <1>3, <1>4 DEF freezeAdapter, Layer, Interface
<1> HIDE DEF Inv, TypeOK
<1>6. chain \in Seq(Layer) /\ chain' = Append(chain, freezeAdapter(n))
  BY DEF Register, Inv, TypeOK
<1> QED BY <1>5, <1>6

\* Every step keeps the invariant: Register by what it adds, Redeclare
\* because it leaves the snapshots alone.
LEMMA InvStep ==
  ASSUME Inv, [Next]_vars
  PROVE  Inv'
<1>1. CASE Register
  <2> DEFINE n == Len(chain)
  <2>1. /\ n \in Nat /\ Len(chain') = n + 1
        /\ \A i \in 1 .. n : chain'[i] = chain[i]
        /\ chain'[n + 1] = freezeAdapter(n)
        /\ chain' \in Seq(Layer)
    BY <1>1, RegisterShape DEF Inv, TypeOK
  <2>2. TypeOK'
    BY <1>1, <2>1, Shape DEF Register, Inv, TypeOK
  <2>3. (chain'[n + 1].faces \cap Optional) = impl \cap Optional
    <3>1. FacesAt(n) \cap Optional = impl \cap Optional
      BY <2>1 DEF FacesAt, Inv, ExactOptional
    <3>2. Wrapper(FacesAt(n)) = impl \cap Optional
      BY <3>1, WrapperExact
    <3>3. Accessors \cap Optional = {}
      BY DEF Accessors, Optional, V, T, W, R
    <3> QED BY <2>1, <3>2, <3>3 DEF freezeAdapter
  <2>4. ExactOptional'
    BY <1>1, <2>1, <2>3 DEF Register, ExactOptional, Inv
  <2>5. \A q \in Operation \ Described : chain'[n + 1].scopes[q] = "undeclared"
    BY <2>1, Shape DEF freezeAdapter, FrozenScopes, Question
  <2>6. chain'[n + 1].scopes = chain'[1].scopes
    <3>1. CASE n = 0
      BY <3>1
    <3>2. CASE n > 0
      <4>1. chain[n].scopes = chain[1].scopes
        BY <2>1, <3>2 DEF Inv, SnapshotsAgree
      <4>2. /\ chain[n].scopes \in [Question -> Answers]
            /\ \A q \in Operation \ Described : chain[n].scopes[q] = "undeclared"
        <5>1. n \in 1 .. Len(chain)
          BY <2>1, <3>2
        <5>2. chain[n] \in Layer
          BY <5>1 DEF Inv, TypeOK
        <5> QED BY <5>1, <5>2 DEF Inv, SnapshotsAgree, Layer
      <4>3. FrozenScopes(chain[n].scopes) = chain[n].scopes
        BY <4>2 DEF FrozenScopes, Question
      <4>4. chain'[n + 1].scopes = chain[n].scopes
        BY <2>1, <3>2, <4>3 DEF freezeAdapter, ScopesAt
      <4> QED BY <2>1, <3>2, <4>1, <4>4
    <3> QED BY <2>1, <3>1, <3>2
  <2>7. SnapshotsAgree'
    BY <2>1, <2>5, <2>6 DEF SnapshotsAgree, Inv
  <2> QED BY <2>2, <2>4, <2>7 DEF Inv
<1>2. CASE Redeclare
  <2>1. declares' \in [Question -> Answers]
    BY <1>2 DEF Redeclare, Inv, TypeOK
  <2> QED BY <1>2, <2>1 DEF Redeclare, Inv, TypeOK, ExactOptional, SnapshotsAgree
<1>3. CASE UNCHANGED vars
  BY <1>3 DEF vars, Inv, TypeOK, ExactOptional, SnapshotsAgree
<1> QED BY <1>1, <1>2, <1>3 DEF Next

-----------------------------------------------------------------------------
\* It holds however many registries a provider passes through.
LEMMA Invariant == Spec => []Inv
<1>1. Init => Inv
  BY Shape DEF Init, Inv, TypeOK, ExactOptional, SnapshotsAgree
<1>2. Inv /\ [Next]_vars => Inv'
  BY InvStep
<1> QED BY <1>1, <1>2, PTL DEF Spec

\* Every layer is a wrapper with an answer to every scope question.
THEOREM TypeCorrect == Spec => []TypeOK
<1>1. Inv => TypeOK
  BY DEF Inv
<1> QED BY <1>1, Invariant, PTL

\* However many registries froze a provider, it implements exactly the
\* optional interfaces it was written with.
THEOREM OptionalSurvives == Spec => []ExactOptional
<1>1. Inv => ExactOptional
  BY DEF Inv
<1> QED BY <1>1, Invariant, PTL

\* Every registry's snapshot of the scope declarations is the first one's,
\* and none declares anything for an operation outside the descriptor.
THEOREM SnapshotsSame == Spec => []SnapshotsAgree
<1>1. Inv => SnapshotsAgree
  BY DEF Inv
<1> QED BY <1>1, Invariant, PTL

\* A snapshot never changes once it is taken.
THEOREM SnapshotsLast == Spec => SnapshotsKeep
<1> DEFINE Kept == \A i \in 1 .. Len(chain) :
                    ScopesAt(i)' = ScopesAt(i) /\ FacesAt(i)' = FacesAt(i)
<1>1. Inv /\ [Next]_vars => Kept
  <2> SUFFICES ASSUME Inv, [Next]_vars, NEW i \in 1 .. Len(chain)
               PROVE  chain'[i] = chain[i]
    BY DEF ScopesAt, FacesAt
  <2>1. CASE Register
    BY <2>1, RegisterShape
  <2> QED BY <2>1 DEF Next, Redeclare, vars
<1>2. Inv /\ [Next]_vars => [Kept]_vars
  BY <1>1
<1> QED BY <1>2, Invariant, PTL DEF Spec, SnapshotsKeep

\* Whatever registry accepted a provider, the next one accepts it too.
THEOREM AlwaysReRegisters == Spec => []ReRegisters
<1> DEFINE Founded == Len(chain) > 0 => (lookup => R \in impl)
<1>1. Init => Founded
  BY DEF Init
<1>2. Inv /\ Founded /\ [Next]_vars => Founded'
  <2> SUFFICES ASSUME Inv, Founded, [Next]_vars PROVE Founded'
    OBVIOUS
  <2>1. CASE Register
    <3>1. Len(chain) \in Nat
      BY DEF Inv, TypeOK
    <3>2. Len(chain) = 0 => (lookup => R \in impl)
      BY <2>1 DEF Register, Accepts, FacesAt
    <3> QED BY <2>1, <3>1, <3>2 DEF Register
  <2>2. CASE UNCHANGED <<impl, lookup, chain>>
    BY <2>2
  <2> QED BY <2>1, <2>2 DEF Next, Redeclare, vars
<1>3. Inv /\ Founded => ReRegisters
  BY DEF Inv, TypeOK, ExactOptional, ReRegisters, Accepts, FacesAt, Optional
<1> QED BY <1>1, <1>2, <1>3, Invariant, PTL DEF Spec

-----------------------------------------------------------------------------
(* Resolving the authorizer, which asks one layer after the other. *)

\* Every non-empty set of naturals has a least element: the intervals from 0
\* are well founded under inclusion.
LEMMA LeastNumber ==
  ASSUME NEW S \in SUBSET Nat, S # {}
  PROVE  \E n \in S : \A m \in S : n <= m
<1> DEFINE Down(n) == 0 .. n
           Downs   == {Down(n) : n \in S}
<1>1. IsWellFoundedOn(StrictSubsetOrdering(Nat), FiniteSubsetsOf(Nat))
  BY FS_StrictSubsetOrderingWellFounded
<1>2. Downs \subseteq FiniteSubsetsOf(Nat) /\ Downs # {}
  <2>1. \A n \in S : Down(n) \subseteq Nat /\ IsFiniteSet(Down(n))
    BY FS_Interval
  <2> QED BY <2>1 DEF FiniteSubsetsOf
<1>3. PICK d \in Downs : \A e \in Downs : ~(<<e, d>> \in StrictSubsetOrdering(Nat))
  BY <1>1, <1>2, WFMin
<1>4. PICK n \in S : d = Down(n)
  OBVIOUS
<1>5. ASSUME NEW m \in S, m < n PROVE FALSE
  <2>1. Down(m) \in Downs /\ Down(m) \subseteq Down(n) /\ Down(m) # Down(n)
    BY <1>5
  <2>2. <<Down(m), Down(n)>> \in StrictSubsetOrdering(Nat)
    BY <2>1 DEF StrictSubsetOrdering
  <2> QED BY <1>3, <1>4, <2>1, <2>2
<1> QED BY <1>5

\* The layer the authorizer is found in, and that all above it pass it on.
Passed(i) ==
  \E j \in 0 .. i :
    /\ "OAuthAuthorizer" \in FacesAt(j)
    /\ \A k \in j + 1 .. i : "OAuthAuthorizationCapability" \in FacesAt(k)

\* The recursion has a solution, so Authorizes is one.
LEMMA AuthorizesEquation ==
  \A i \in Nat :
    Authorizes[i] <=>
      \/ "OAuthAuthorizer" \in FacesAt(i)
      \/ i > 0 /\ "OAuthAuthorizationCapability" \in FacesAt(i) /\ Authorizes[i - 1]
<1> DEFINE Step(g, i) ==
             \/ "OAuthAuthorizer" \in FacesAt(i)
             \/ i > 0 /\ "OAuthAuthorizationCapability" \in FacesAt(i) /\ g[i - 1]
           Closed == [i \in Nat |-> Passed(i)]
<1>1. ASSUME NEW i \in Nat PROVE Passed(i) <=> Step(Closed, i)
  <2>1. CASE i = 0
    BY <2>1 DEF Passed
  <2>2. CASE i > 0
    <3>1. i - 1 \in Nat /\ 0 .. i = (0 .. i - 1) \cup {i}
      BY <2>2
    <3>2. \A j \in 0 .. i - 1 : j + 1 .. i = (j + 1 .. i - 1) \cup {i}
      BY <2>2
    <3>3. i + 1 .. i = {}
      OBVIOUS
    <3>4. Closed[i - 1] <=> Passed(i - 1)
      BY <3>1
    <3> HIDE DEF Closed
    <3> QED BY <2>2, <3>1, <3>2, <3>3, <3>4 DEF Passed
  <2> QED BY <2>1, <2>2
<1>2. Closed = [i \in Nat |-> Step(Closed, i)]
  <2> HIDE DEF Step
  <2>1. \A i \in Nat : Passed(i) = Step(Closed, i)
    BY <1>1 DEF Passed, Step
  <2> QED BY <2>1
<1>3. Authorizes = [i \in Nat |-> Step(Authorizes, i)]
  <2> HIDE DEF Closed
  <2> QED BY <1>2 DEF Authorizes
<1> QED BY <1>3

\* Every wrapper shows the accessors, and of the provider only its optional
\* interfaces.
Layered == \A i \in 1 .. Len(chain) : chain[i].faces = (impl \cap Optional) \cup Accessors

LEMMA LayersInvariant == Spec => []Layered
<1>1. Init => Layered
  BY DEF Init, Layered
<1>2. Inv /\ Layered /\ [Next]_vars => Layered'
  <2> SUFFICES ASSUME Inv, Layered, [Next]_vars PROVE Layered'
    OBVIOUS
  <2>1. CASE Register
    <3> DEFINE n == Len(chain)
    <3>1. /\ n \in Nat /\ Len(chain') = n + 1
          /\ \A i \in 1 .. n : chain'[i] = chain[i]
          /\ chain'[n + 1] = freezeAdapter(n)
      BY <2>1, RegisterShape DEF Inv, TypeOK
    <3>2. FacesAt(n) \cap Optional = impl \cap Optional
      BY <3>1 DEF FacesAt, Inv, ExactOptional
    <3>3. freezeAdapter(n).faces = (impl \cap Optional) \cup Accessors
      BY <3>2, WrapperExact DEF freezeAdapter
    <3> QED BY <2>1, <3>1, <3>3 DEF Layered, Register
  <2>2. CASE UNCHANGED <<impl, chain>>
    BY <2>2 DEF Layered
  <2> QED BY <2>1, <2>2 DEF Next, Redeclare, vars
<1> QED BY <1>1, <1>2, Invariant, PTL DEF Spec

\* The OAuth authorizer resolves through any number of registries, and for
\* the providers that have one only.
THEOREM AuthorizersSurvive == Spec => []AuthorizerSurvives
<1>1. Inv /\ Layered => AuthorizerSurvives
  <2> SUFFICES ASSUME Inv, Layered PROVE AuthorizerSurvives
    OBVIOUS
  <2> DEFINE Wrong == {i \in 0 .. Len(chain) :
                         ~(Authorizes[i] <=> "OAuthAuthorizer" \in impl)}
  <2>1. Len(chain) \in Nat
    BY DEF Inv, TypeOK
  <2>2. SUFFICES ASSUME Wrong # {} PROVE FALSE
    BY DEF AuthorizerSurvives
  <2>3. PICK i \in Wrong : \A j \in Wrong : i <= j
    <3>1. Wrong \in SUBSET Nat
      BY <2>1
    <3> HIDE DEF Wrong
    <3> QED BY <2>2, <3>1, LeastNumber
  <2>4. i \in Nat /\ i <= Len(chain)
    BY <2>1, <2>3
  <2>5. CASE i = 0
    BY <2>3, <2>5, AuthorizesEquation DEF FacesAt
  <2>6. CASE i > 0
    <3>1. i - 1 \in Nat /\ i - 1 \notin Wrong
      BY <2>3, <2>4, <2>6
    <3>2. Authorizes[i - 1] <=> "OAuthAuthorizer" \in impl
      BY <2>4, <3>1
    <3>3. FacesAt(i) = (impl \cap Optional) \cup Accessors
      BY <2>4, <2>6 DEF FacesAt, Layered
    <3>4. /\ "OAuthAuthorizer" \notin FacesAt(i)
          /\ "OAuthAuthorizationCapability" \in FacesAt(i)
      BY <3>3 DEF Accessors, Optional, V, T, W, R
    <3>5. Authorizes[i] <=> "OAuthAuthorizer" \in impl
      BY <2>4, <2>6, <3>2, <3>4, AuthorizesEquation
    <3> QED BY <2>3, <3>5
  <2> QED BY <2>4, <2>5, <2>6
<1> QED BY <1>1, Invariant, LayersInvariant, PTL

\* How far BackgroundSurvives is true: the first registry shows the background
\* interfaces a provider has, and every registry after it shows none.
BackgroundAtFirst ==
  \A i \in 1 .. Len(chain) :
    /\ Processes(i) <=> i = 1 /\ "BackgroundProcessor" \in impl
    /\ CleansUp(i) <=> i = 1 /\ "BackgroundCleanup" \in impl

\* registry.go:52: what the accessors of the background interfaces answer in
\* each registry a provider passes through.
THEOREM BackgroundLost == Spec => []BackgroundAtFirst
<1>1. Inv /\ Layered => BackgroundAtFirst
  <2> SUFFICES ASSUME Inv, Layered, NEW i \in 1 .. Len(chain)
               PROVE  /\ Processes(i) <=> i = 1 /\ "BackgroundProcessor" \in impl
                      /\ CleansUp(i) <=> i = 1 /\ "BackgroundCleanup" \in impl
    BY DEF BackgroundAtFirst
  <2>1. CASE i = 1
    BY <2>1 DEF Processes, CleansUp, FacesAt
  <2>2. CASE i # 1
    <3>1. FacesAt(i - 1) = (impl \cap Optional) \cup Accessors
      BY <2>2 DEF FacesAt, Layered, Inv, TypeOK
    <3>2. /\ "BackgroundProcessor" \notin FacesAt(i - 1)
          /\ "BackgroundCleanup" \notin FacesAt(i - 1)
      BY <3>1 DEF Accessors, Optional, V, T, W, R
    <3> QED BY <2>2, <3>2 DEF Processes, CleansUp
  <2> QED BY <2>1, <2>2
<1> QED BY <1>1, Invariant, LayersInvariant, PTL
===============================================================================
