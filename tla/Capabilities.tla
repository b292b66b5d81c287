----------------------------- MODULE Capabilities -----------------------------
(***************************************************************************)
(* What a provider still is once registries froze it.  Registry.Providers  *)
(* hands out frozen adapters, and a frozen adapter can be registered       *)
(* again, so a provider may sit behind any number of them: chain[i] is     *)
(* the i-th, its delegate is chain[i-1], and below the first stands the    *)
(* provider itself.  freezeAdapter picks one of sixteen wrapper types from *)
(* the optional interfaces of its delegate, and snapshots its OAuth        *)
(* scope declarations, which the provider may answer differently later.    *)
(***************************************************************************)
EXTENDS Naturals, Sequences

CONSTANTS
  Operation,  \* operation keys
  Described,  \* those of the provider's descriptor
  MaxChain    \* bound: registries the provider passes through

\* The interfaces a provider may implement beside Adapter.
V == "ConfigValidator"
T == "ConnectionTester"
W == "WebhookVerifier"
R == "Reconciler"
Optional  == {V, T, W, R}
Protocol  == {"OAuthAuthorizer", "BackgroundProcessor", "BackgroundCleanup"}
\* Mutant: a frozen adapter does not resolve the authorizer.
AccessorsPartial == {"BackgroundCapability", "BackgroundCleanupCapability"}

\* What a frozen adapter answers for, each by a method of its own.
Accessors == {"OAuthAuthorizationCapability", "BackgroundCapability",
              "BackgroundCleanupCapability"}
Interface == Optional \cup Protocol \cup Accessors

\* A scope question: an operation key, or the connection test.
Probe    == "connection test"
Question == Operation \cup {Probe}

\* "none" is a declared empty alternative: no scope is required.
Answers == {"undeclared", "none", "scopes"}

ASSUME Shape ==
  /\ Described \subseteq Operation
  /\ Probe \notin Operation
  /\ MaxChain \in Nat

Layer == [faces : SUBSET Interface, scopes : [Question -> Answers]]

VARIABLES
  impl,      \* the interfaces the provider itself implements
  lookup,    \* RequiresReconciler holds of its descriptor
  declares,  \* what it answers about scopes now
  chain      \* the frozen adapters around it, innermost first

vars == <<impl, lookup, declares, chain>>

\* Mutant: the case for a validator that verifies webhooks comes before the
\* case for one that reconciles as well.
CasesShuffled == <<{V, T, W, R}, {V, T, W}, {V, T, R}, {V, W}, {V, T}, {V, W, R},
                   {V, R}, {V}, {T, W, R}, {T, W}, {T, R}, {W, R}, {T}, {W}, {R}, {}>>

\* The cases of the switch in freezeAdapter, in their order.
Cases == <<{V, T, W, R}, {V, T, W}, {V, T, R}, {V, W, R}, {V, T}, {V, W},
           {V, R}, {V}, {T, W, R}, {T, W}, {T, R}, {W, R}, {T}, {W}, {R}, {}>>

\* The interfaces of the wrapper the first matching case builds.
Wrapper(faces) ==
  LET i == CHOOSE i \in DOMAIN Cases :
             /\ Cases[i] \subseteq faces
             /\ \A j \in 1 .. i - 1 : ~(Cases[j] \subseteq faces)
  IN  Cases[i]

FacesAt(i) == IF i = 0 THEN impl ELSE chain[i].faces

ScopesAt(i) == IF i = 0 THEN declares ELSE chain[i].scopes

\* Mutant: answers are kept for any operation, described or not.
FrozenScopesAll(answers) == answers

\* Mutant: an operation without an answer is not in the map at all.
FrozenScopesPartial(answers) ==
  [q \in Described \cup {Probe} |-> answers[q]]

FrozenScopes(answers) ==
  [q \in Question |-> IF q \in Described \cup {Probe} THEN answers[q]
                                                       ELSE "undeclared"]

freezeAdapter(i) ==
  [faces |-> Wrapper(FacesAt(i)) \cup Accessors,
   scopes |-> FrozenScopes(ScopesAt(i))]

\* Register refuses a descriptor that needs a Reconciler from an adapter
\* that does not implement it.
Accepts(i) == lookup => R \in FacesAt(i)

Init ==
  /\ impl \in SUBSET (Optional \cup Protocol)
  /\ lookup \in BOOLEAN
  /\ declares \in [Question -> Answers]
  /\ chain = <<>>

Register ==
  /\ Len(chain) < MaxChain
  /\ Accepts(Len(chain))
  /\ chain' = Append(chain, freezeAdapter(Len(chain)))
  /\ UNCHANGED <<impl, lookup, declares>>

\* The provider's scope methods are code: they may answer anew at any time.
Redeclare ==
  /\ \E q \in Question, a \in Answers :
       declares' = [declares EXCEPT ![q] = a]
  /\ UNCHANGED <<impl, lookup, chain>>

Next == Register \/ Redeclare

Spec == Init /\ [][Next]_vars

-----------------------------------------------------------------------------
\* ResolveOAuthAuthorizer: the adapter itself, or whatever its accessor
\* resolves, which asks the delegate the same way.
Authorizes[i \in Nat] ==
  \/ "OAuthAuthorizer" \in FacesAt(i)
  \/ /\ i > 0
     /\ "OAuthAuthorizationCapability" \in FacesAt(i)
     /\ Authorizes[i - 1]

\* The accessors of the background interfaces look at the delegate only.
Processes(i) == i > 0 /\ "BackgroundProcessor" \in FacesAt(i - 1)
CleansUp(i)  == i > 0 /\ "BackgroundCleanup" \in FacesAt(i - 1)

TypeOK ==
  /\ impl \in SUBSET (Optional \cup Protocol)
  /\ lookup \in BOOLEAN
  /\ declares \in [Question -> Answers]
  /\ chain \in Seq(Layer)
  /\ Len(chain) <= MaxChain

(* However often a provider is frozen, it implements exactly the optional   *)
(* interfaces it was written with: the host, which discovers them by type   *)
(* assertion, neither loses one nor sees one that is not there.             *)
ExactOptional ==
  \A i \in 1 .. Len(chain) : chain[i].faces \cap Optional = impl \cap Optional

(* The OAuth authorizer resolves through any number of registries, for the  *)
(* providers that have one and for no other.                                *)
AuthorizerSurvives ==
  \A i \in 0 .. Len(chain) : Authorizes[i] <=> "OAuthAuthorizer" \in impl

(* A frozen provider can be registered anew: the Reconciler its descriptor  *)
(* asks for is still there to be checked.                                   *)
ReRegisters == Len(chain) > 0 => Accepts(Len(chain))

(* What a registry snapshot says about scopes is what the provider declared *)
(* when it was first registered: later registries copy that answer, never a *)
(* newer one, and an operation outside the descriptor stays undeclared,     *)
(* which grants nothing.                                                    *)
SnapshotsAgree ==
  \A i \in 1 .. Len(chain) :
    /\ chain[i].scopes = chain[1].scopes
    /\ \A q \in Operation \ Described : chain[i].scopes[q] = "undeclared"

(* A snapshot once taken never changes, whatever the provider says next.    *)
SnapshotsKeep ==
  [][\A i \in 1 .. Len(chain) :
       ScopesAt(i)' = ScopesAt(i) /\ FacesAt(i)' = FacesAt(i)]_vars

(* contract_identity.go:98: a registration keeps the exact optional         *)
(* capabilities, background processing included; background.go:136 says the *)
(* accessor answers false when the concrete provider has no such capability.*)
BackgroundSurvives ==
  \A i \in 1 .. Len(chain) :
    /\ Processes(i) <=> "BackgroundProcessor" \in impl
    /\ CleansUp(i) <=> "BackgroundCleanup" \in impl
===============================================================================
