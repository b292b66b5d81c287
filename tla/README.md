# A verification project for the connector SDK

This directory holds TLA+ models of the Go module `domainry-connector-sdk`, the
TLC configurations that check them on small instances, and proofs that TLAPS
checks for every value of the constants. `PROJECT.json` indexes all of it: which
definition models which lines, what each run checks, which mutation of the code
each property catches, the hazards behind the properties, and the theorems.

## 1. The system

The SDK is the contract between an *Integration host* (not in this repository)
and *providers* that talk to vendors. It is a library: it has no process,
network or storage of its own. Its behaviour is in the parts below; the hard
cases come from goroutines that share the registry, from provider code the SDK
calls back into, from requests that outlive the providers they were made for,
and from data that was checked at one moment and used at another.

| part (source) | state | operations | what makes it hard | what must hold |
|---|---|---|---|---|
| Provider registry (`registry.go`) | map of frozen adapters, `frozen` flag, `RWMutex` | `Register`, `RegisterProviderSet`, `Freeze`, `Frozen`, `Provider`, `Descriptors`, `Providers` | checks before the lock, callbacks under it, batches written one entry at a time, adapters whose owners keep editing | a batch is atomic, freezing is final, no provider is replaced, only validated snapshots are published, every call returns unless a provider calls back into the lock |
| Frozen adapters (`registry.go`, `oauth*.go`, `background.go`) | the delegate, its capabilities, a snapshot of its scopes | `freezeAdapter`, the accessors, `ResolveOAuth*` | sixteen wrappers chosen by an ordered switch; a frozen adapter may be frozen again | exactly the provider's capabilities, the same scopes, however often it is registered |
| Operation binding and invocation (`operation.go`, `provider.go`, `error.go`) | the provider's table of bound operations | `NewProvider`, `BindCall`, `BindEnqueueDelivery`, `BindStartOperationDelivery`, `Call` | a request meets a provider deployed later; effects that happened and answers that get lost; error chains | what runs and what returns is of the requested contract; errors classed as the handler said; what a failure reports is kept |
| Provider schema and defaults (`schema.go`) | the schema; the stored config | `ProviderSchema.Validate`, `ApplyConfigDefaults` | one pass in declaration order over fields that depend on each other, applied again to edited configs | no supplied value replaced, no default without its dependencies, a default-safe start is complete |
| Calendar availability (`calendar/availability.go`) | the sweep's cursor and result | `ResolveAvailability` | overlapping, touching, nested and outlying windows; partial or failed answers; an unstable sort | no invented free time, none lost |
| Calendar writes (`calendarwrite/`) | none; requests and receipts are the host's, events the vendor's | validation of snapshots, updates and results | preview, check and write at three different moments, with other writers, redelivery and lost answers | only the previewed version is changed, once, in the scope asked for; receipts are the request's own |
| Operation reliability (`reliability.go`, `provider.go`) | none; the outbox is the host's, keys and effects the vendor's | validation of contracts, compensations and lookup answers | lost, late and repeated requests, crashes, keys a vendor forgets, `not_found` while the first request is on its way | one effect at most, nothing recorded that did not happen, compensation of what is known only, an end without a person where the contract promises it |
| Background processing (`background.go`) | none; the task's state, its events and their order in storage are the host's | validation of one result | all that is hard is in the host | a capability like the others (Capabilities); the rest is not modelled, see 5 |
| Mail reads (`mail/`) | none; the walk is the client's | validation of page requests, pages and summaries | pages that are cut, capped, empty, mislabelled or repeat rows of others, address lists that are cut | a walk that ends as complete found every message, as far as its provider kept its side |
| Mail writes (`mailwrite/`) | none; requests and receipts are the host's | a message alone, a reply against its original, a result against its request | the original changes after it was listed; results that come early or cross | a reply reaches all it is to reach; a receipt proves this request's mail |
| Local times (`calendar/local_time.go`) | none | `LocalDateTime` | wall-clock times that daylight saving skips or repeats | the one instant, or a refusal |
| Web reads, transport, contract identities, MCP tool contract, `contracttest`, `examples` | none | validation of single values, hashes of constant texts, interfaces | nothing that depends on order or other state | not modelled |

How they interact: `NewProvider` (Invocation) makes an adapter out of bound
operations; the registry validates its descriptor, freezes it (Capabilities) and
hands the frozen adapter to the host; the host sets up a connection with
`ApplyConfigDefaults` (ConfigDefaults), finds the adapter by identity and calls
it, through `Call` or from a delivery of its own (Invocation), under the
reliability contract of the operation (Delivery). Calendar and mail
packages define the payloads such calls carry (Availability, LocalTime,
CalendarWrite, MailRead, MailWrite).

## 2. Modules

**`Registry`**: one action per step a goroutine can be pre-empted at. `pc[c]`
walks a call through `check` (pre-lock checks of one adapter, `registry.go:217`
and `244`), `lock`/`drain` (the two halves of `RWMutex.Lock`: announce, then
wait for the readers), `decide` (frozen and duplicates), `snapshot` and `scopes`
(`freezeAdapter`, with the calls into the provider), `publish` (one map write),
`rlock`/`read` (one map read per step) and `done`. The two registrations differ
as in the code: `Register` decides and then calls the provider's scope methods
with the lock held, a batch freezes all its adapters first and decides after.
A `Reentrant` adapter reads the registry from its scope callback; from inside
`Register` that blocks for ever, and everyone after it (a Go `RWMutex` is not
reentrant). The liveness run registers such an adapter both ways, and
`CallsReturn` says that this state (`CalledBack`) is the only way a call is
stuck; from a batch, the callback comes before the lock and returns. `Mutate` is an owner who
writes the slices its hand-written descriptor shares; `Quiet` is the set of
adapters whose owners keep their hands off while a registration has them, and
the others may be edited between any two steps. Content is reduced to operation
keys, whether `Validate` accepts it, whether it needs a `Reconciler`.

**`RegistryContract`** is what callers rely on: a flag, a map, and calls that
each take effect at one instant between call and return. **`RegistryRefinement`**
maps the first to the second: a registration takes effect when its entries are
ready under the write lock (`Table` counts entries staged but not yet written,
`Answers` gives the answer from then on), a reader when it lets go of the read
lock (`Views`). A call of the contract draws its answer from the table of that
instant, so `Linearizable` covers the answers as well as the map.

**`Capabilities`**: a provider with any subset of the optional interfaces and a
chain of frozen adapters around it. `Cases` is the switch of `freezeAdapter` in
its order; `FrozenScopes`, `ScopesAt` the snapshot; `Authorizes` and `Processes`
the two ways an accessor looks for a capability behind a frozen adapter. Whether
the descriptor asks for lookups (`lookup`) is part of the initial state, so that
providers without a `Reconciler` register and all sixteen wrappers are built.

**`ConfigDefaults`**: `ProviderSchema.Validate` as far as keys, defaults,
`RequiredWith` and startup policy go, and the loop of `ApplyConfigDefaults`, one
field a step; the host stores, edits and defaults the config again (`Reapply`).

**`Availability`**: `ResolveAvailability` over integer instants; `sort.Slice` is
not stable, so `NextBusy` takes windows that start together in any order.
**`LocalTime`**: `LocalDateTime` as a function of a zone, that is a function
from instants to offsets and the bounds of the period they are in force for;
`ZoneValid` is what is asked of a zone, `Instants` the definition to compare with.

**`Invocation`**: requests made with `Call` or by the host, providers deployed
in between, `validateInvocation` in the code's order, the handler, the
translation of its result and error, redelivery, and decoding at the caller.
A contract hash stands for the types; `Decodes` says for which contracts strict
decoding cannot tell payloads apart, so that the hash check has work to do. An
error is the sequence in which `errors.As` visits it: a wrapped cause comes
after its wrapper, the branches of a joined error one after the other. A layer
may be a `ProviderError` no constructor made (class `zero`): it is found first,
gives no class and hides what is behind it (`error.go:91`).

**`Delivery`**: `ReliabilityContract.Validate`, the compensation rules of
`ProviderDescriptor.Validate` and `ReconcileResult.Validate`, in the
surroundings they are made for: a host with an outbox that sends, waits, crashes
and looks up, a network that loses, delays and repeats, a vendor that remembers
keys for a while, and a provider whose lookup answers may contradict themselves,
with any outcome, result and delay. Two lies are trusted not to happen because
every check passes them: a failure code for what the vendor did not refuse, and
a success where the vendor has nothing.
A request may outlive its key: the retention says until when requests are
*sent*. The entries that happens to are in `outlived`; nothing more is promised
of them, and everything still is of the others.
Host, network and vendor are external and do what `contract_identity.go`
promises of the runtime: no retry without the idempotency policy, no blind retry
of what is uncertain, compensation through the outbox. **`OnceOnly`** is the
abstract specification: an operation and its compensation are each decided at
most once, who asked learns that or nothing, and only what is known is undone.
What a mechanism gives no promise for is its set `excused`: `outlived` here,
requests answered with `accepted` too early in mail, nothing in the calendar.

**`MailRead`**: a mailbox whose owner edits it, summaries with lists that may be
cut, pages of any rows with any labels (empty, overlapping with others, past
rows left behind, complete or capped or with a cursor as they like), and a
client that walks from cursor to cursor and takes a page only if
`MessagesPage.Validate` does. What one page cannot show is not checked by the
code: that the next page goes on where the last one ended, and that no rows are
left in silence (`Owed`). The model lets providers fail in it and remembers
that they did (`walk.honest`). The listing is of the messages that match a query
throughout the walk; others may come and go. **`MailWrite`**
extends it: clients write or answer what their walk found, a worker checks a
reply against the original it reads afresh (`ReplyRequest.ValidateAgainst`),
sends once, and answers in time, early, wrongly or not at all; the host keeps
results that pass `Result.Validate`. A worker that says `accepted` before it
sends passes it too; such requests are recorded in `hasty`. Mailbox, workers and host are external.

**`CalendarWrite`**: `Snapshot.Validate`, `Patch.Validate`,
`UpdateRequest.ValidateAgainst` and `Result.Validate`, in the surroundings the
comments of the package describe: clients that preview, a provider that reads
afresh, checks and writes with the vendor's `If-Match`, an owner who edits, a
host that delivers again. Those surroundings are external (marked so in the
map); the checks are the repository's. The package's contract tells hosts never
to replay an uncertain write; the model's host replays all the same, to show
that safety does not depend on it.

`MC*` modules give the constants values; `*Proofs` hold the theorems.

## 3. Runs

| run | question | bounds, and why they are enough |
|---|---|---|
| `registry_safety` | Does everything hold with every call, bad arguments and editing owners? | 3 callers, 3 adapters of 2 identities; `Register` of `nil` or of an adapter whose owner edits it in the middle of a registration; batches that are empty, hold `nil`, repeat an identity or lack a Reconciler. A third caller sees what two writers leave between them; two identities give a batch a middle. 1.2 million states. |
| `registry_liveness` | Does every call return, unless a scope callback meets the lock of its own registration? | 2 callers, no edits, an adapter that calls back, registered alone and in a batch. The deadlock stops everything, so `CHECK_DEADLOCK FALSE`. 14,034 states. |
| `capabilities` | Do wrappers keep exactly what a provider is? | all 128 combinations of interfaces, with a descriptor that needs lookups and with one that does not, all scope answers, chains of 3: the third layer is the first to wrap a wrapper of a wrapper. |
| `capabilities_background` | Do background capabilities survive too? (violated) | as above |
| `defaults` | What does one pass in order make of any schema? | 3 fields with distinct or repeated keys (then a dependency may be undeclared), any dependencies, so chains of length two, any defaults, default-safe, edits without end. 19 million states, about a minute and a half. |
| `defaults_safe` | Has a default-safe start all it requires? (violated) | as above, good defaults only |
| `availability` | Is the free time right? | request of 4 units inside 6 units of time, all pairs of windows of one calendar with each of another, and answers that fall short in every way. The run also evaluates `LocalTimes`: all zones of three periods with offsets four apart. |
| `invocation` | Does a late request do what it was made for? | 2 requests, 2 providers, 7 builds that change contract or mode, drop or repeat an operation, or are refused; 8 outcomes, with chains or joins of two errors, and a zero `ProviderError` before a retryable one. |
| `invocation_health` | Is reported health kept on success? (violated) | as above |
| `calendar_write` | Is exactly the previewed version changed, once, and is a request that was carried out refused when it comes again? | 2 events, 2 requests, 2 workers, 3 versions of an event: two writes after the first version, by the owner or the other request. |
| `delivery` | Does an operation take effect once at most, with its record true, and its compensation sound, and does it end? | one operation with every contract, perhaps a second one, sound or unsound, that undoes it; 4 faults (crash, lost or given-up request, retryable failure, lookup that is not final or contradictory): two make a request late and its repetition uncertain, two are left for lookup and compensation. 160,631 states, checked for liveness too. |
| `mail` | Does a walk find everything, a reply reach everyone, a receipt prove the mail? | 2 messages of four kinds, one edit, summaries of one address, pages of at most 2 asked for with limits from -1 to 3, 2 requests, six messages of which three are refused alone. Two messages make a walk of several pages that overlap or leave gaps, one edit is all that fits between listing, check and sending. 6.4 million states, about a minute and a half. |

Bounds in guards: `MaxChain` (Capabilities: registries in a row), `MaxTag`
(CalendarWrite: versions of an event), `MaxFaults` (Delivery: faults in one
behaviour), `MaxVersion` (MailRead: versions of a message, so edits). Nothing else is cut off; a call, a defaulting
or a delivery can be repeated for ever. Symmetry is used in the safety run of
Registry, in CalendarWrite and in MailWrite over elements the modules treat
alike; the runs with liveness use none. Deadlock is checked in Capabilities,
Invocation and the safety run of Registry, which never stop; a callback from
inside `Register` stops the liveness run, the sweep ends, a rejected schema
ends, calendar and mail requests run out and so does what is delivered, so their
runs say `CHECK_DEADLOCK FALSE`.

**Fairness** is assumed in two runs. In `registry_liveness` a goroutine that can
step does (weak, `Work`), and one that can get the lock again and again gets it
(strong, `Acquire`). Go's scheduler is preemptive and `sync.Mutex` turns to
hand-off for a waiter that starved; `RWMutex` stops new readers once a writer
has announced itself and lets the waiting readers in when it leaves. Nobody is
assumed to *make* calls. In `delivery` the host works off its outbox (weak, on
sending, refraining, giving up, looking up and compensating), a request on its
way arrives unless it is lost, and a host that waits for a request that is no
longer on its way stops waiting. That is the runtime's part of the contract; a
fault is never forced, keys need not be forgotten, and nobody has to ask or to
call off.

### Disagreements with what the repository says

1. **Background capabilities are lost on re-registration** (`registry.go:52`;
   run `capabilities_background`). The accessors assert their delegate to
   `BackgroundProcessor` and to the clean-up of background work; a frozen
   adapter is no such thing. `contract_identity.go:98`
   promises exact optional capabilities including these. The OAuth accessor
   above it resolves through the delegate and survives (`AuthorizerSurvives`).
2. **A default-safe schema can start without a required value**
   (`schema.go:171`; run `defaults_safe`), when a required field depends on an
   optional one without a default or on one declared later.
   `SafeStartWhenOrdered` states what is enough.
3. **Health reported on success can be dropped** (`operation.go:161`; run
   `invocation_health`), with the secret updates and response reference, when
   the output does not encode. `contract_identity.go:24` promises otherwise.

## 4. Proofs

Every listed theorem holds for all values of the constants that meet the named
assumptions (`Sorts`, `Tables`, `Shape`, `Sorted`, `MailboxSorts`, `WriteSorts`
and so on): sorts of the parameters, and that the markers for "nothing there"
are not values. TLC evaluates them in every run.

* **Registry** (`RegistryProofs`). `IInv` adds to the types the lock discipline
  (`LockInv`: a writer past `drain` is alone, readers are who holds the read
  lock) and what a stage of a call owns (`StageInv`: which entries are staged,
  for which adapters). From these `DecisionStands` is inductive: only the holder
  of the lock writes flag or map. `FrozenForever` and `NeverReplaced` follow step
  by step: the one map write meets an open registry and an absent entry.
  `PublishedChecked` speaks of the adapters in `Quiet`, and no assumption is made
  of the others: their owner's edit between check and clone publishes an
  unvalidated descriptor, which the code does not prevent. `FreshInv` adds that
  a quiet adapter in hand is still what was checked. `Linearized` proves the
  refinement: `CallInv` ties the call to what is frozen of its arguments
  (`ProgressOf`: the adapters before the one in hand, each in a place of its
  own), `SeenInv` a half-done read to the map; then each step is the contract's
  step at the instant named above, or a stutter.

  Three theorems are the safety half of `CallsReturn`. `Waits` says where a call
  is blocked (announcing, draining, reading, or called back inside `Register`).
  `NoCircularWait`: if no adapter passed to `Register` calls back for its scopes,
  whoever waits does so for another caller that is inside the lock and runs.
  `ReentryBlocks` is why `CallsReturn` excepts `CalledBack`: a registration in
  that state stays in it, with the write lock, for ever. `CallsAreFinite`: with
  finitely many identities `Left` (adapters to freeze, entries to write, keys to
  read, and the stage) is a natural number that each step of the call lowers
  and no other step raises.
* **Capabilities**. `ExactOptional` and `SnapshotsAgree` are inductive with the
  types once the cases are known to cover each subset exactly.
  `AuthorizerSurvives` needs induction along the chain, on a recursive function.
  `LeastNumber` stands in for it: a nonempty set of naturals has a least member
  (from the library's facts about the strict subset ordering of finite sets), so
  the first layer with a wrong answer is examined, whose delegate is right.
  That `Authorizes` satisfies its recursive equation is proved by a function that
  does (`Passed`: some layer up to this one has the authorizer, and every layer
  after it hands on). `BackgroundLost` gives the extent of
  disagreement 1: the first registry shows the background interfaces, no other.
* **ConfigDefaults**. `Added` (each key that differs was absent, and has a field
  with that default whose dependencies are present) implies both properties; it
  is inductive because a present value is never taken away during a pass.
  `PassInv` (a field the loop has left behind is not filled any more, if
  dependencies are declared first) gives `OnePassCompletes`, and `SafeInv` (the
  required fields left behind have their default) `SafeStartWhenOrdered`, both
  for any number of fields. `OneMeaning` compares the pass with what a schema
  declares, read without any order (`Declared`: what was supplied, every default
  that is due, nothing else): for ordered schemas the result is the only config
  of that kind. `AgreesInv` says so of the fields behind the loop.
* **Availability**. `Inv` says of the middle of a sweep: swept windows end by
  the cursor, pending ones do not start before swept ones, each free window is
  apart from every busy one, and what is before the cursor is busy or in a free
  window. `ResultDetermined` turns the three properties into equality: two
  sequences of windows that are in order, apart and cover the same time are the
  same (`SpacedUnique`, at the least index where they differ), so ties the
  unstable sort breaks either way, the order of calendars and overlaps cannot
  show. `LocalTimeExact` is about an operator, not a behaviour: in a zone where
  offsets differ by at most `spread` and no period with two ends is shorter than
  that, an instant that shows the wall-clock time lies in the period of the
  guess or next to it, so its offset is among those tried.
* **Invocation**. `Inv` ties each stage of a request to what ran and what was
  answered; a deployment disturbs none of it, because a run records the
  operation it ran. `TypeCorrect` and `ClassesFromHandlers` rest on the same
  invariant, and so does what a host may conclude: `SuccessesAreReal` (no answer
  without error but from a handler of the requested contract that succeeded,
  complete), `FailuresAreTold`
  (no error but for a refusal, a handler's error or an output that does not
  encode) and `HealthLostOnly`, the extent of disagreement 3.
* **CalendarWrite**. `Inv` says that no version is ahead of the event's current
  one; an event at the version of a preview is as previewed (`Current`); a
  request past its check has the preview's version and scope (`FromPreview`,
  `Passed`); results and receipts are of logged mutations. `AppliedOnce` follows:
  two mutations for one request would both have been made to the version of the
  one preview, and a mutation moves the version on. `WrittenBefore` (a request
  that was carried out asks for a version in the past; requests stay, versions
  grow) gives the price of it: such a request is refused for ever
  (`RefusedByItsOwnWrite`, the property `OutdatedByItself` of the run) and never
  answered a second time (`NoSecondAnswer`).
  `UpdatesOnce` maps each request to `OnceOnly`: its fate is whether the log has
  a mutation for it, what its host was told is the receipt; only `Apply` and
  `Accept` are steps of it. An update is never refused for good there: the
  model's host asks again as long as it has no receipt.
* **Delivery**. `IInv` says of each entry of the outbox (`EntryOf`) why a request
  that arrives late or again is harmless: while one is on its way, or the host
  counts on a key, the vendor still knows what it decided, unless the entry is in
  `outlived`; an operation without
  idempotency was sent once; an entry is recorded as settled only as the vendor
  decided it. `EffectsOnce` maps this to `OnceOnly` step by step, a late request
  of an outlived entry to its `Slip`.
  `NobodyIsNeeded` and `NoRunaround` are the safety half of `Settles`. The first
  rests on `EquipInv` (a descriptor that requires a Reconciler is registered with
  one) and `PathInv` (an entry of such a contract is in no stage but those
  that lead on): it is never a person's or nobody's matter, and an action for
  it is enabled in substance (`CanMove`). The second ranks the stages
  (`Distance`): with all faults spent, every step that moves the entry lowers it.
* **Mail**. `WalkInv`: an honest walk got at least the listing up to its cursor,
  and all of it once it is complete; what it got otherwise may have gaps;
  `ReplyInv`: a reply past its check fits a version of the
  original that is on record; `ResultInv`: a result that says accepted is of a
  request whose mail the vendor took, or of a hasty one. The three safety
  properties follow. `SentOver`
  (a mail that went out ends its request) makes each request implement `OnceOnly`
  (`MailsOnce`): it is accepted by `Send`, or rejected by a check or an end
  without a mail, and only accepted mails are told of, hasty requests excused. `NeverRepeated`: a mail
  that went out is not sent again.

`OnceOnly` is thus implemented three times: by outbox deliveries, where keys and
lookups make repetition safe, by calendar updates, where the version does, and by
mail, which is not repeated.

Model-checked only: `CallsReturn` and `Settles`. Liveness under fairness is out
of the proof system's reach; what is proved of the two is that nobody waits in a
circle or with nothing to do, and that steps count down. What remains to be
believed is that fair steps happen. All other properties of the passing runs are
theorems.

## 5. What is left out

Text: names, localization, formatting, JSON syntax (decoding is modelled as
which contracts it tells apart), RFC 3339, web addresses, mail bodies and search
queries. Checks of a single value, which neither order nor other state can
change: types and rules of config fields, localized texts, the fields of
`ReconcileRequest`, of background tasks and requests, attendees, dates, the
requests of `calendar/` other than availability, all of `web/`. Creating a
calendar event, which no earlier state guards. Contexts and cancellation, which
the SDK only passes on. `transport.go`, `mcptool/` and the identities are data
types, interfaces and hashes of constant texts; `contracttest/` and `examples/`
are a test helper and a sample provider.

The host is not in this repository. Where the properties need one (deliveries,
mail and calendar requests), the modules have the one the
documents of the contract describe, marked external; leases, tokens, storage
and a host's own policies beyond that are left out. Background processing is
left out with them: `background.go:79` asks the host to store state, events and
operations before it acknowledges, and the repository has no step of that order;
what it does have is the validation of a single result.
What a provider may make up in a lookup answer that passes every check is taken
on trust (Delivery, above).

Three hazards have no property. A gateway that drops a payload
(`operation.go:251`) is outside the repository; instants that print with a year
RFC 3339 does not read back (`availability.go:69`) are a matter of formatting;
local times (`local_time.go:33`) are an operator, with the theorem
`LocalTimeExact` in place of a property.

## 6. Where to go on

The plan is carried out: the registry with its contract and the proof that it
implements it, capabilities, defaults, availability and local times, invocation,
calendar writes, deliveries, mail. What could be added is
detail of the modelled packages, each of it a check of single values: the
texts and attendees of a calendar write, the localized texts of a schema. Of the
two liveness properties the ranking arguments are theorems, their conclusion is
not; more of them is out of reach of the provers at hand. Open for proof
are the contract checks by themselves: what `DescriptorValid` and
`ReliabilityContract.Validate` are equivalent to, apart from what deliveries
need of them.
