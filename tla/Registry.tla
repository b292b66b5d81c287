------------------------------- MODULE Registry -------------------------------
(***************************************************************************)
(* The Provider registry (src/registry.go): a map of frozen adapters       *)
(* behind a sync.RWMutex, used concurrently by callers that register, set  *)
(* up batches, freeze and read.  One action per step a goroutine can be    *)
(* pre-empted at: the checks a registration makes before it takes the      *)
(* lock, the two halves of RWMutex.Lock, the clone of the descriptor, the  *)
(* calls into the provider for its OAuth scopes, each write of the map,    *)
(* each read of it.                                                        *)
(*                                                                         *)
(* Provider content is abstracted to what registration tells apart: the    *)
(* keys of its operations, whether ProviderDescriptor.Validate accepts it  *)
(* and whether RequiresReconciler holds.  An adapter written by hand may   *)
(* hand out its own slices, so its content can change under a registration *)
(* that already read it (Mutate).                                          *)
(***************************************************************************)
EXTENDS Sequences, FiniteSets

CONSTANTS
  Caller,      \* goroutines that share the registry
  Adapter,     \* provider adapters
  NilAdapter,  \* the nil Adapter
  Key,         \* provider identities
  Operation,   \* operation keys
  Ident,       \* Ident[a]: the identity in a's descriptor
  Reconciles,  \* adapters that implement Reconciler
  Declares,    \* Declares[a]: operations a declares OAuth scopes for
  Initial,     \* Initial[a]: the content a starts with
  Edits,       \* Edits[a]: contents its owner may write in place ({}: none)
  Singles,     \* adapters passed to Register
  Batches,     \* sequences of adapters passed to RegisterProviderSet
  Reentrant,   \* adapters whose scope callback calls Registry.Frozen
  Quiet,       \* adapters whose owners leave them alone during registrations
  NoEntry,     \* an absent map entry
  Free         \* the lock has no writer

Offered == Adapter \cup {NilAdapter}
Content == [ops : SUBSET Operation, sound : BOOLEAN, lookup : BOOLEAN]
Entry   == [of : Adapter, meta : Content, scopes : SUBSET Operation]

Registrations == {"register", "set"}
Readings      == {"frozen", "provider", "list"}
Kinds         == Registrations \cup Readings \cup {"freeze", "none"}
Refusals      == {"required", "invalid", "noreconciler", "duplicate", "frozen"}
Replies       == Refusals \cup {"none", "ok", "yes", "no"}
Stages        == {"idle", "check", "lock", "drain", "decide", "snapshot",
                  "scopes", "publish", "rlock", "read", "done"}

ASSUME Sorts ==
  /\ NilAdapter \notin Adapter
  /\ NoEntry \notin Entry
  /\ Free \notin Caller

ASSUME Tables ==
  /\ Ident \in [Adapter -> Key]
  /\ Reconciles \subseteq Adapter
  /\ Declares \in [Adapter -> SUBSET Operation]
  /\ Initial \in [Adapter -> Content]
  /\ Edits \in [Adapter -> SUBSET Content]
  /\ Singles \subseteq Offered
  /\ Batches \subseteq Seq(Offered)
  /\ Reentrant \subseteq Adapter
  /\ Quiet \subseteq Adapter

Slot   == Entry \cup {NoEntry}
Absent == [k \in Key |-> NoEntry]

\* A call: what it does, the adapters it is given, the keys it looks up.
Request(kind, args, keys) == [kind |-> kind, args |-> args, keys |-> keys]
NoCall == Request("none", <<>>, {})

VARIABLES
  meta,      \* meta[a]: the content behind a's descriptor
  frozen,    \* Registry.frozen
  providers, \* Registry.providers
  writer,    \* the caller that holds or announced the write lock
  readers,   \* the callers that hold the read lock
  pc,        \* pc[c]: where c stands in its call
  call,      \* call[c]: the call c is in
  todo,      \* todo[c]: adapters of the call not frozen yet
  staged,    \* staged[c]: frozen adapters not yet in the map
  want,      \* want[c]: keys c has still to read
  seen,      \* seen[c]: what c read of the map
  reply      \* reply[c]: what the finished call returns

lockVars == <<writer, readers>>
tabVars  == <<frozen, providers>>
ctlVars  == <<pc, call, todo>>
readVars == <<want, seen>>
vars     == <<meta, tabVars, lockVars, ctlVars, staged, readVars, reply>>

Init ==
  /\ meta = Initial
  /\ frozen = FALSE
  /\ providers = Absent
  /\ writer = Free
  /\ readers = {}
  /\ pc = [c \in Caller |-> "idle"]
  /\ call = [c \in Caller |-> NoCall]
  /\ todo = [c \in Caller |-> <<>>]
  /\ staged = [c \in Caller |-> Absent]
  /\ want = [c \in Caller |-> {}]
  /\ seen = [c \in Caller |-> Absent]
  /\ reply = [c \in Caller |-> "none"]

-----------------------------------------------------------------------------
(* Calls and returns. *)

Goto(c, stage) == pc' = [pc EXCEPT ![c] = stage]

Begin(c, request, stage) ==
  /\ pc[c] = "idle"
  /\ Goto(c, stage)
  /\ call' = [call EXCEPT ![c] = request]
  /\ todo' = [todo EXCEPT ![c] = request.args]
  /\ want' = [want EXCEPT ![c] = request.keys]
  /\ UNCHANGED <<meta, tabVars, lockVars, staged, seen, reply>>

CallRegister(c) ==
  \E a \in Singles : Begin(c, Request("register", <<a>>, {}), "check")

CallRegisterProviderSet(c) ==
  \E batch \in Batches :
    Begin(c, Request("set", batch, {}),
          IF batch = <<>> THEN "lock" ELSE "check")

CallFreeze(c) == Begin(c, Request("freeze", <<>>, {}), "lock")

CallFrozen(c) == Begin(c, Request("frozen", <<>>, {}), "rlock")

CallProvider(c) ==
  \E k \in Key : Begin(c, Request("provider", <<>>, {k}), "rlock")

\* Descriptors and Providers.
CallList(c) == Begin(c, Request("list", <<>>, Key), "rlock")

Answer(c, value) ==
  /\ Goto(c, "done")
  /\ reply' = [reply EXCEPT ![c] = value]

\* The locals of the call go with it.
Return(c) ==
  /\ pc[c] = "done"
  /\ Goto(c, "idle")
  /\ call' = [call EXCEPT ![c] = NoCall]
  /\ todo' = [todo EXCEPT ![c] = <<>>]
  /\ staged' = [staged EXCEPT ![c] = Absent]
  /\ want' = [want EXCEPT ![c] = {}]
  /\ seen' = [seen EXCEPT ![c] = Absent]
  /\ reply' = [reply EXCEPT ![c] = "none"]
  /\ UNCHANGED <<meta, tabVars, lockVars>>

-----------------------------------------------------------------------------
(* Checking and freezing one adapter. *)

Single(c)  == call[c].kind = "register"
Current(c) == Head(todo[c])

\* Why the adapter in hand is refused, in the order the code asks.  Only a
\* batch has anything staged when it checks.
Fault(c) ==
  LET a == Current(c) IN
  IF a = NilAdapter THEN "required"
  ELSE IF ~meta[a].sound THEN "invalid"
  ELSE IF meta[a].lookup /\ a \notin Reconciles THEN "noreconciler"
  ELSE IF staged[c][Ident[a]] # NoEntry THEN "duplicate"
  ELSE "none"

CheckFails(c) ==
  /\ pc[c] = "check"
  /\ Fault(c) # "none"
  /\ Answer(c, Fault(c))
  /\ UNCHANGED <<meta, tabVars, lockVars, call, todo, staged, readVars>>

\* Register takes the lock next; a batch freezes the adapter first.
CheckPasses(c) ==
  /\ pc[c] = "check"
  /\ Fault(c) = "none"
  /\ Goto(c, IF Single(c) THEN "lock" ELSE "snapshot")
  /\ UNCHANGED <<meta, tabVars, lockVars, call, todo, staged, readVars, reply>>

\* freezeAdapter clones the descriptor it was handed.
Snapshot(c) ==
  LET a == Current(c) IN
  /\ pc[c] = "snapshot"
  /\ staged' = [staged EXCEPT ![c][Ident[a]] =
                 [of |-> a, meta |-> meta[a], scopes |-> {}]]
  /\ Goto(c, "scopes")
  /\ UNCHANGED <<meta, tabVars, lockVars, call, todo, readVars, reply>>

\* What a frozen adapter describes is its own clone.
DescriptorOf(e) == e.meta

\* Mutant: scopes kept for operations the descriptor does not have.
ScopesUnfiltered(a) == Declares[a]

\* It then asks the provider for the scopes of every operation of the
\* descriptor it was handed, which still aliases the adapter's own slices.
ScopesOf(a) == meta[a].ops \cap Declares[a]

\* A callback that takes the read lock waits for the writer, its caller too.
CaptureScopes(c) ==
  LET a == Current(c) IN
  /\ pc[c] = "scopes"
  /\ a \in Reentrant => writer = Free
  /\ staged' = [staged EXCEPT ![c][Ident[a]].scopes = ScopesOf(a)]
  /\ todo' = [todo EXCEPT ![c] = Tail(@)]
  /\ Goto(c, IF Single(c) THEN "publish"
             ELSE IF Tail(todo[c]) = <<>> THEN "lock" ELSE "check")
  /\ UNCHANGED <<meta, tabVars, lockVars, call, readVars, reply>>

-----------------------------------------------------------------------------
(* Under the write lock. *)

\* Mutant: a second writer gets in.
LockBarging(c) ==
  /\ pc[c] = "lock"
  /\ writer' = c
  /\ Goto(c, "drain")
  /\ UNCHANGED <<meta, tabVars, readers, call, todo, staged, readVars, reply>>

\* RWMutex.Lock keeps other writers and new readers out, then waits for the
\* readers that are in.
Lock(c) ==
  /\ pc[c] = "lock"
  /\ writer = Free
  /\ writer' = c
  /\ Goto(c, "drain")
  /\ UNCHANGED <<meta, tabVars, readers, call, todo, staged, readVars, reply>>

\* Mutant: the writer does not wait for the readers that are in.
DrainedEarly == TRUE

Drained == readers = {}

Drain(c) ==
  /\ pc[c] = "drain"
  /\ Drained
  /\ Goto(c, "decide")
  /\ UNCHANGED <<meta, tabVars, lockVars, call, todo, staged, readVars, reply>>

\* The identities the registration is about to add.
Claimed(c) ==
  IF Single(c) /\ pc[c] # "publish"
    THEN {Ident[Current(c)]}
    ELSE {k \in Key : staged[c][k] # NoEntry}

\* Mutant: a batch is checked against itself only.
TakenSingle(c) == Single(c) /\ \E k \in Claimed(c) : providers[k] # NoEntry

Taken(c) == \E k \in Claimed(c) : providers[k] # NoEntry

Deciding(c) == pc[c] = "decide" /\ call[c].kind \in Registrations

\* Mutant: a refusal returns without releasing the lock.
RefuseHolding(c) ==
  /\ Deciding(c)
  /\ frozen \/ Taken(c)
  /\ Answer(c, IF frozen THEN "frozen" ELSE "duplicate")
  /\ UNCHANGED <<meta, tabVars, lockVars, call, todo, staged, readVars>>

Refuse(c) ==
  /\ Deciding(c)
  /\ frozen \/ Taken(c)
  /\ Answer(c, IF frozen THEN "frozen" ELSE "duplicate")
  /\ writer' = Free
  /\ UNCHANGED <<meta, tabVars, readers, call, todo, staged, readVars>>

\* Mutant: the frozen flag is not looked at under the lock.
AdmitLate(c) ==
  /\ Deciding(c)
  /\ ~Taken(c)
  /\ Goto(c, IF Single(c) THEN "snapshot" ELSE "publish")
  /\ UNCHANGED <<meta, tabVars, lockVars, call, todo, staged, readVars, reply>>

\* A batch was frozen before the lock; Register freezes its adapter now.
Admit(c) ==
  /\ Deciding(c)
  /\ ~frozen
  /\ ~Taken(c)
  /\ Goto(c, IF Single(c) THEN "snapshot" ELSE "publish")
  /\ UNCHANGED <<meta, tabVars, lockVars, call, todo, staged, readVars, reply>>

\* Mutant: the adapter itself goes into the map, not the frozen one.
PublishRaw(c) ==
  /\ pc[c] = "publish"
  /\ \E k \in Key :
       /\ staged[c][k] # NoEntry
       /\ providers' = [providers EXCEPT ![k] = staged[c][k].of]
       /\ staged' = [staged EXCEPT ![c][k] = NoEntry]
  /\ UNCHANGED <<meta, frozen, lockVars, ctlVars, readVars, reply>>

Publish(c) ==
  /\ pc[c] = "publish"
  /\ \E k \in Key :
       /\ staged[c][k] # NoEntry
       /\ providers' = [providers EXCEPT ![k] = staged[c][k]]
       /\ staged' = [staged EXCEPT ![c][k] = NoEntry]
  /\ UNCHANGED <<meta, frozen, lockVars, ctlVars, readVars, reply>>

Published(c) ==
  /\ pc[c] = "publish"
  /\ staged[c] = Absent
  /\ Answer(c, "ok")
  /\ writer' = Free
  /\ UNCHANGED <<meta, tabVars, readers, call, todo, staged, readVars>>

SetFrozen(c) ==
  /\ pc[c] = "decide"
  /\ call[c].kind = "freeze"
  /\ frozen' = TRUE
  /\ Answer(c, "ok")
  /\ writer' = Free
  /\ UNCHANGED <<meta, providers, readers, call, todo, staged, readVars>>

-----------------------------------------------------------------------------
(* Under the read lock. *)

RLock(c) ==
  /\ pc[c] = "rlock"
  /\ writer = Free
  /\ readers' = readers \cup {c}
  /\ Goto(c, "read")
  /\ UNCHANGED <<meta, tabVars, writer, call, todo, staged, readVars, reply>>

ReadEntry(c) ==
  /\ pc[c] = "read"
  /\ \E k \in want[c] :
       /\ seen' = [seen EXCEPT ![c][k] = providers[k]]
       /\ want' = [want EXCEPT ![c] = @ \ {k}]
  /\ UNCHANGED <<meta, tabVars, lockVars, ctlVars, staged, reply>>

RUnlock(c) ==
  /\ pc[c] = "read"
  /\ want[c] = {}
  /\ readers' = readers \ {c}
  /\ Answer(c, IF call[c].kind # "frozen" THEN "ok"
               ELSE IF frozen THEN "yes" ELSE "no")
  /\ UNCHANGED <<meta, tabVars, writer, call, todo, staged, readVars>>

-----------------------------------------------------------------------------
(* The owner of an adapter writes the slices its descriptor shares. *)

InHand(a) ==
  \E c \in Caller :
    /\ pc[c] \in {"lock", "drain", "decide", "snapshot", "scopes"}
    /\ todo[c] # <<>>
    /\ Current(c) = a

Mutate(a) ==
  /\ a \in Quiet => ~InHand(a)
  /\ \E m \in Edits[a] : meta' = [meta EXCEPT ![a] = m]
  /\ UNCHANGED <<tabVars, lockVars, ctlVars, staged, readVars, reply>>

-----------------------------------------------------------------------------
Calls(c) ==
  \/ CallRegister(c) \/ CallRegisterProviderSet(c) \/ CallFreeze(c)
  \/ CallFrozen(c) \/ CallProvider(c) \/ CallList(c)

\* The steps that may wait for the lock; the scope callback's is CaptureScopes.
Acquire(c) == Lock(c) \/ RLock(c) \/ CaptureScopes(c)

Work(c) ==
  \/ CheckFails(c) \/ CheckPasses(c) \/ Snapshot(c)
  \/ Drain(c) \/ Refuse(c) \/ Admit(c) \/ Publish(c) \/ Published(c)
  \/ SetFrozen(c) \/ ReadEntry(c) \/ RUnlock(c) \/ Return(c)

Next ==
  \/ \E c \in Caller : Calls(c) \/ Acquire(c) \/ Work(c)
  \/ \E a \in Adapter : Mutate(a)

Spec == Init /\ [][Next]_vars

\* A goroutine that can run does; the runtime's mutex serves a waiter that
\* can get the lock again and again.
Fairness == \A c \in Caller : WF_vars(Work(c)) /\ SF_vars(Acquire(c))

FairSpec == Spec /\ Fairness

-----------------------------------------------------------------------------
(* Every variable has its type. *)
TypeOK ==
  /\ meta \in [Adapter -> Content]
  /\ frozen \in BOOLEAN
  /\ providers \in [Key -> Slot]
  /\ writer \in Caller \cup {Free}
  /\ readers \subseteq Caller
  /\ pc \in [Caller -> Stages]
  /\ call \in [Caller -> [kind : Kinds, args : Seq(Offered),
                          keys : SUBSET Key]]
  /\ todo \in [Caller -> Seq(Offered)]
  /\ staged \in [Caller -> [Key -> Slot]]
  /\ want \in [Caller -> SUBSET Key]
  /\ seen \in [Caller -> [Key -> Slot]]
  /\ reply \in [Caller -> Replies]

\* What the Integration host may rely on in an entry it looks up: it sits
\* under its own identity, its descriptor passed Validate, a descriptor that
\* asks for provider lookups comes with a Reconciler, and every operation it
\* has scopes for is one of the descriptor's.
Checked(k, e) ==
  LET descriptor == DescriptorOf(e) IN
  /\ Ident[e.of] = k
  /\ descriptor.sound
  /\ descriptor.lookup => e.of \in Reconciles
  /\ e.scopes \subseteq descriptor.ops

(* Register checks a descriptor before it takes the lock and clones it      *)
(* after; whatever owners write between calls, and into other adapters      *)
(* meanwhile, every entry a lookup can return is a validated snapshot if    *)
(* its own adapter was left alone during registrations.                     *)
PublishedChecked ==
  \A k \in Key :
    (providers[k] # NoEntry /\ providers[k].of \in Quiet) => Checked(k, providers[k])

\* The caller has been let through by its checks under the lock.
Admitted(c) ==
  \/ pc[c] = "publish"
  \/ Single(c) /\ pc[c] \in {"snapshot", "scopes"}

(* What a registration decided under the lock still holds at its last write *)
(* of the map: the registry is open and none of the identities it has yet   *)
(* to write was taken, through the calls into providers Register makes in   *)
(* between and the writes a batch makes one by one.                         *)
DecisionStands ==
  \A c \in Caller : Admitted(c) =>
    /\ ~frozen
    /\ \A k \in Claimed(c) : providers[k] = NoEntry

(* Freezing is final: from then on the flag stays and the map is the same   *)
(* for every reader, whatever registrations were under way.                 *)
FrozenForever == [][frozen => frozen' /\ providers' = providers]_vars

(* A provider that was published is never replaced or dropped, by a second  *)
(* Register of its identity or by a batch, and no edit of its owner shows   *)
(* in the descriptor it is published with.                                  *)
NeverReplaced ==
  [][\A k \in Key :
       providers[k] # NoEntry =>
         /\ providers'[k] = providers[k]
         /\ DescriptorOf(providers[k])' = DescriptorOf(providers[k])]_vars

\* Register asked an adapter for its scopes and is called back, while it holds
\* the write lock the callback waits for.
CalledBack(c) ==
  pc[c] = "scopes" /\ Single(c) /\ Current(c) \in Reentrant

(* Every call returns, past readers that keep coming, refusals, and adapters *)
(* of a batch that read the registry from their scope callback, unless some  *)
(* Register ran into such an adapter: freezeAdapter asks for the scopes      *)
(* under the write lock there, and that is the only way to lose the lock.    *)
CallsReturn ==
  \A c \in Caller :
    pc[c] # "idle" ~> (pc[c] = "idle" \/ \E d \in Caller : CalledBack(d))
=============================================================================
