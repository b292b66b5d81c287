---------------------------- MODULE ConfigDefaults ----------------------------
(***************************************************************************)
(* How a provider's configuration gets its defaults (src/schema.go): the   *)
(* schema is validated, then ApplyConfigDefaults walks its fields once, in *)
(* declaration order, and materializes a default only where the fields it  *)
(* is RequiredWith are present by then.  The host stores the result, lets  *)
(* a tenant edit it and applies the defaults again.                        *)
(*                                                                         *)
(* Values are abstracted to what the code tells apart: absent, null,       *)
(* blank text, or anything else ("set").                                   *)
(***************************************************************************)
EXTENDS Naturals

CONSTANTS
  Key,           \* configuration keys
  N,             \* number of config fields
  KeyLists,      \* the key of each field, in declaration order
  DefaultKinds,  \* the defaults fields may have
  Starts,        \* the configs defaults are first applied to
  RequiredSets,  \* which fields are Required
  Startups,      \* "manual" or "default_safe"
  SecretNeeds    \* whether a secret field is Required

Fields   == 1 .. N
Values   == {"null", "blank", "set"}
Defaults == {"none", "bad", "blank", "set"}
Config   == [Key -> Values \cup {"absent"}]

ASSUME Shape ==
  /\ N \in Nat
  /\ KeyLists \subseteq [Fields -> Key]
  /\ DefaultKinds \subseteq Defaults
  /\ Starts \subseteq Config
  /\ RequiredSets \subseteq SUBSET Fields
  /\ Startups \subseteq {"manual", "default_safe"}
  /\ SecretNeeds \subseteq BOOLEAN

Empty == [k \in Key |-> "absent"]

VARIABLES
  schema,   \* the fields: key, default, needs (RequiredWith), required
  checked,  \* the schema passed Validate
  phase,    \* validate, apply, done, rejected or failed
  at,       \* the field the loop is at
  input,    \* the config ApplyConfigDefaults was given
  result    \* the config it is building

vars == <<schema, checked, phase, at, input, result>>

Schemas ==
  [key : KeyLists, default : [Fields -> DefaultKinds], needs : [Fields -> SUBSET Key],
   required : RequiredSets, startup : Startups, secret : SecretNeeds]

\* ApplyConfigDefaults is exported: a caller need not validate first.
Init ==
  /\ schema \in Schemas
  /\ checked = FALSE
  /\ phase \in {"validate", "apply"}
  /\ at = 1
  /\ input \in Starts
  /\ result = input

-----------------------------------------------------------------------------
\* Of a single field.  A default that decodes but breaks its field's type or
\* rules is refused here like a bad one, and applied like any other when a
\* caller does not validate; it has no kind of its own.
FieldValid(i) ==
  /\ schema.default[i] # "bad"
  /\ schema.key[i] \notin schema.needs[i]

\* Mutant: a required field may come without a default.
SafeBySecrets == ~schema.secret

SafeByDefault ==
  /\ \A i \in schema.required : schema.default[i] # "none"
  /\ ~schema.secret

SchemaValid ==
  /\ \A i \in Fields : FieldValid(i)
  /\ \A i, j \in Fields : schema.key[i] = schema.key[j] => i = j
  /\ \A i \in Fields : schema.needs[i] \subseteq {schema.key[j] : j \in Fields}
  /\ schema.startup = "default_safe" => SafeByDefault

Validate ==
  /\ phase = "validate"
  /\ checked' = SchemaValid
  /\ phase' = IF SchemaValid THEN "apply" ELSE "rejected"
  /\ UNCHANGED <<schema, at, input, result>>

\* Neither absent, nor null, nor blank text.
configValuePresent(config, k) == config[k] = "set"

Ready(i) == \A k \in schema.needs[i] : configValuePresent(result, k)

\* Mutant: a supplied null or blank counts as absent.
FillsBlank(i) ==
  /\ ~configValuePresent(result, schema.key[i])
  /\ schema.default[i] # "none"
  /\ Ready(i)

\* Mutant: a default does not wait for the fields it is required with.
FillsEager(i) ==
  /\ result[schema.key[i]] = "absent"
  /\ schema.default[i] # "none"

\* Mutant: a field without a default is filled.
FillsUndeclared(i) ==
  /\ result[schema.key[i]] = "absent"
  /\ Ready(i)

Fills(i) ==
  /\ result[schema.key[i]] = "absent"
  /\ schema.default[i] # "none"
  /\ Ready(i)

\* Mutant: the loop ends at the first field it does not fill.
Break ==
  /\ phase = "apply"
  /\ at \in Fields
  /\ ~Fills(at)
  /\ at' = N + 1
  /\ UNCHANGED <<schema, checked, phase, input, result>>

Skip ==
  /\ phase = "apply"
  /\ at \in Fields
  /\ ~Fills(at)
  /\ at' = at + 1
  /\ UNCHANGED <<schema, checked, phase, input, result>>

Fill ==
  /\ phase = "apply"
  /\ at \in Fields
  /\ Fills(at)
  /\ schema.default[at] # "bad"
  /\ result' = [result EXCEPT ![schema.key[at]] = schema.default[at]]
  /\ at' = at + 1
  /\ UNCHANGED <<schema, checked, phase, input>>

\* A default that does not decode fails the call: no config is returned.
Fail ==
  /\ phase = "apply"
  /\ at \in Fields
  /\ Fills(at)
  /\ schema.default[at] = "bad"
  /\ phase' = "failed"
  /\ UNCHANGED <<schema, checked, at, input, result>>

Finish ==
  /\ phase = "apply"
  /\ at = N + 1
  /\ phase' = "done"
  /\ UNCHANGED <<schema, checked, at, input, result>>

\* The host applies the defaults anew, to the stored config as it is or with
\* one value edited.
Reapply ==
  /\ phase = "done"
  /\ \E config \in {result} \cup
          {[result EXCEPT ![k] = v] : k \in Key, v \in Values \cup {"absent"}} :
       /\ input' = config
       /\ result' = config
  /\ phase' = "apply"
  /\ at' = 1
  /\ UNCHANGED <<schema, checked>>

Next == Validate \/ Skip \/ Fill \/ Fail \/ Finish \/ Reapply

Spec == Init /\ [][Next]_vars

-----------------------------------------------------------------------------
TypeOK ==
  /\ schema \in Schemas
  /\ checked \in BOOLEAN
  /\ phase \in {"validate", "apply", "done", "rejected", "failed"}
  /\ at \in 1 .. N + 1
  /\ input \in Config
  /\ result \in Config

(* No value a manifest, a tenant or an administrator supplied is replaced,  *)
(* an explicit null or blank included, and every value that was added is    *)
(* the default of a field with that key.                                    *)
SuppliedKept ==
  \A k \in Key :
    result[k] # input[k] =>
      /\ input[k] = "absent"
      /\ \E i \in Fields : schema.key[i] = k /\ schema.default[i] = result[k]

(* A default never appears without the fields it is required with: each     *)
(* value that was added belongs to a field whose dependencies are there.    *)
NoOrphanDefault ==
  \A k \in Key :
    result[k] # input[k] =>
      \E i \in Fields : /\ schema.key[i] = k
                        /\ schema.default[i] = result[k]
                        /\ Ready(i)

\* Every dependency is declared before the field that has it.
Ordered ==
  \A i \in Fields : schema.needs[i] \subseteq {schema.key[j] : j \in 1 .. i - 1}

(* With dependencies declared first, one pass is enough: when it is done, a *)
(* default that was left out is missing a dependency, so applying the       *)
(* defaults again to what was stored changes nothing.                       *)
OnePassCompletes ==
  checked /\ Ordered /\ phase = "done" => \A i \in Fields : ~Fills(i)

(* schema.go lets a default-safe schema through only with a default for     *)
(* every required field.  Where fields come after their dependencies, no    *)
(* required field has a blank default and none depends on an optional one,  *)
(* that is enough to start from nothing: all that is required is there.     *)
SafeStartWhenOrdered ==
  (/\ checked /\ Ordered /\ phase = "done"
   /\ schema.startup = "default_safe"
   /\ input = Empty
   /\ \A i \in schema.required :
        /\ schema.default[i] # "blank"
        /\ schema.needs[i] \subseteq {schema.key[j] : j \in schema.required}) =>
     \A i \in schema.required : configValuePresent(result, schema.key[i])

(* contract_identity.go:85: a default-safe startup has all required config  *)
(* defaulted.                                                               *)
AllRequiredConfigDefaulted ==
  (/\ checked /\ phase = "done"
   /\ schema.startup = "default_safe"
   /\ input = Empty) =>
     \A i \in schema.required : result[schema.key[i]] # "absent"
===============================================================================
