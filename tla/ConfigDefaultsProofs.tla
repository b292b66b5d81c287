------------------------- MODULE ConfigDefaultsProofs -------------------------
(***************************************************************************)
(* What ApplyConfigDefaults never does, for any number of fields, keys and *)
(* dependencies between them, validated or not.                            *)
(***************************************************************************)
EXTENDS ConfigDefaults, TLAPS

\* The parts of a schema have their types.
LEMMA SchemaTypes ==
  ASSUME NEW s \in Schemas
  PROVE  /\ s.key \in [Fields -> Key]
         /\ s.default \in [Fields -> Defaults]
         /\ s.needs \in [Fields -> SUBSET Key]
<1>1. /\ s.key \in KeyLists /\ s.default \in [Fields -> DefaultKinds]
      /\ s.needs \in [Fields -> SUBSET Key]
  BY DEF Schemas
<1>2. DefaultKinds \subseteq Defaults /\ KeyLists \subseteq [Fields -> Key]
  BY Shape
<1> QED BY <1>1, <1>2

\* Every step keeps the types.
LEMMA TypeStep ==
  ASSUME TypeOK, [Next]_vars
  PROVE  TypeOK'
<1> USE Shape DEF TypeOK
<1>1. CASE Validate
  BY <1>1 DEF Validate, SchemaValid
<1>2. CASE Skip
  BY <1>2 DEF Skip, Fields
<1>3. CASE Fill
  <2>1. schema.default[at] \in Values /\ schema.key[at] \in Key
    BY <1>3, SchemaTypes DEF Fill, Fills, Defaults, Values
  <2>2. result' \in Config
    BY <1>3, <2>1 DEF Fill, Config
  <2> QED BY <1>3, <2>2 DEF Fill, Fields
<1>4. CASE Fail
  BY <1>4 DEF Fail
<1>5. CASE Finish
  BY <1>5 DEF Finish
<1>6. CASE Reapply
  <2>1. \A k \in Key, v \in Values \cup {"absent"} :
          [result EXCEPT ![k] = v] \in Config
    BY DEF Config
  <2>2. input' \in Config /\ result' \in Config
    BY <1>6, <2>1 DEF Reapply
  <2> QED BY <1>6, <2>2 DEF Reapply
<1>7. CASE UNCHANGED vars
  BY <1>7 DEF vars
<1> HIDE DEF TypeOK
<1> QED BY <1>1, <1>2, <1>3, <1>4, <1>5, <1>6, <1>7 DEF Next

\* The configs ApplyConfigDefaults reads and builds have their types.
THEOREM TypeCorrect == Spec => []TypeOK
<1>1. Init => TypeOK
  <2> SUFFICES ASSUME Init PROVE TypeOK
    OBVIOUS
  <2>1. at \in 1 .. N + 1
    BY Shape DEF Init
  <2>2. input \in Config /\ result \in Config
    BY Shape DEF Init
  <2>3. checked \in BOOLEAN
    BY DEF Init
  <2>4. phase \in {"validate", "apply", "done", "rejected", "failed"}
    BY DEF Init
  <2>5. schema \in Schemas
    BY DEF Init
  <2> QED BY <2>1, <2>2, <2>3, <2>4, <2>5 DEF TypeOK
<1>2. TypeOK /\ [Next]_vars => TypeOK'
  BY TypeStep
<1> QED BY <1>1, <1>2, PTL DEF Spec

-----------------------------------------------------------------------------
\* What filling the field at hand does to the config.
LEMMA FillShape ==
  ASSUME TypeOK, Fill
  PROVE  /\ schema.key[at] \in Key
         /\ result[schema.key[at]] = "absent"
         /\ result'[schema.key[at]] = schema.default[at]
         /\ schema.default[at] # "absent"
         /\ \A k \in Key \ {schema.key[at]} : result'[k] = result[k]
         /\ at \in Fields
         /\ Ready(at)
         /\ UNCHANGED <<schema, input>>
<1>1. schema.key[at] \in Key
  BY SchemaTypes DEF Fill, TypeOK
<1>2. schema.default[at] \in Defaults
  BY SchemaTypes DEF Fill, TypeOK
<1> QED BY <1>1, <1>2 DEF Fill, Fills, TypeOK, Config, Defaults

\* Filling one more field takes nothing away from the others.
LEMMA ReadyStays ==
  ASSUME TypeOK, Fill, NEW i \in Fields, Ready(i)
  PROVE  Ready(i)'
<1>1. schema.needs[i] \subseteq Key
  BY SchemaTypes DEF TypeOK
<1>2. \A k \in Key : result[k] = "set" => result'[k] = "set"
  BY FillShape
<1> QED BY <1>1, <1>2, FillShape DEF Ready, configValuePresent

\* The invariant behind both: an added value stands where nothing stood and
\* is the default of a field that is ready.
Added ==
  \A k \in Key :
    result[k] # input[k] =>
      /\ input[k] = "absent"
      /\ \E i \in Fields : /\ schema.key[i] = k
                           /\ schema.default[i] = result[k]
                           /\ Ready(i)

\* Every step keeps it: only Fill adds, and what was ready stays ready.
LEMMA AddedStep ==
  ASSUME TypeOK, Added, [Next]_vars
  PROVE  Added'
<1>1. CASE Fill
  <2> SUFFICES ASSUME NEW k \in Key, result'[k] # input'[k]
               PROVE  /\ input'[k] = "absent"
                      /\ \E i \in Fields : /\ schema'.key[i] = k
                                           /\ schema'.default[i] = result'[k]
                                           /\ Ready(i)'
    BY DEF Added
  <2>1. CASE k = schema.key[at]
    <3>1. at \in Fields /\ Ready(at)
      BY <1>1, FillShape
    <3>2. input[k] = "absent"
      BY <1>1, <2>1, FillShape DEF Added
    <3>3. \A i \in Fields : Ready(i) => Ready(i)'
      BY <1>1, ReadyStays
    <3>4. /\ schema'.key[at] = k
          /\ schema'.default[at] = result'[k]
      BY <1>1, <2>1, FillShape
    <3> QED BY <1>1, <3>1, <3>2, <3>3, <3>4, FillShape
  <2>2. CASE k # schema.key[at]
    <3>1. result'[k] = result[k] /\ result[k] # input[k]
      BY <1>1, <2>2, FillShape
    <3>2. PICK i \in Fields : /\ schema.key[i] = k
                             /\ schema.default[i] = result[k]
                             /\ Ready(i)
      BY <3>1 DEF Added
    <3>3. Ready(i)'
      BY <1>1, <3>2, ReadyStays
    <3> QED BY <1>1, <3>1, <3>2, <3>3, FillShape DEF Added
  <2> QED BY <2>1, <2>2
<1>2. CASE Reapply
  <2>1. input' = result'
    BY <1>2 DEF Reapply
  <2> QED BY <2>1 DEF Added
<1>3. CASE Validate \/ Skip \/ Fail \/ Finish \/ UNCHANGED vars
  <2>1. UNCHANGED <<schema, input, result>>
    BY <1>3 DEF Validate, Skip, Fail, Finish, vars
  <2> QED BY <2>1 DEF Added, Ready, configValuePresent
<1> QED BY <1>1, <1>2, <1>3 DEF Next

\* It holds in every config ApplyConfigDefaults builds.
LEMMA AddedHolds == Spec => []Added
<1>1. Init => Added
  BY DEF Init, Added
<1>2. TypeOK /\ Added /\ [Next]_vars => Added'
  BY AddedStep
<1> QED BY <1>1, <1>2, TypeCorrect, PTL DEF Spec

\* ApplyConfigDefaults replaces no supplied value and adds only defaults.
THEOREM SuppliedAlwaysKept == Spec => []SuppliedKept
<1>1. Added => SuppliedKept
  BY DEF Added, SuppliedKept
<1> QED BY <1>1, AddedHolds, PTL

\* A default that was added has every field it is required with present.
THEOREM NeverOrphan == Spec => []NoOrphanDefault
<1>1. Added => NoOrphanDefault
  BY DEF Added, NoOrphanDefault
<1> QED BY <1>1, AddedHolds, PTL

-----------------------------------------------------------------------------
(* One pass in order. *)

\* Fields the loop has left behind are not filled any more, if dependencies
\* are declared first.
PassInv ==
  /\ checked => SchemaValid
  /\ phase = "validate" => at = 1
  /\ phase = "done" => at = N + 1
  /\ checked /\ Ordered => \A i \in Fields : i < at => ~Fills(i)

\* A schema that passed Validate, of the field i.
LEMMA CheckedField ==
  ASSUME TypeOK, checked, PassInv, NEW i \in Fields
  PROVE  /\ schema.key[i] \in Key /\ schema.needs[i] \subseteq Key
         /\ schema.default[i] # "bad"
         /\ \A j \in Fields : schema.key[i] = schema.key[j] => i = j
         /\ schema.startup = "default_safe" =>
              \A j \in schema.required : schema.default[j] # "none"
<1>1. schema.key[i] \in Key /\ schema.needs[i] \subseteq Key
  BY SchemaTypes DEF TypeOK
<1> QED BY <1>1 DEF PassInv, SchemaValid, FieldValid, SafeByDefault

\* Filling a field does not make an earlier one ready.
LEMMA FillPass ==
  ASSUME TypeOK, PassInv, Fill
  PROVE  PassInv'
<1>1. /\ at' = at + 1 /\ UNCHANGED <<checked, phase>> /\ phase = "apply"
      /\ at \in Fields /\ Fields = 1 .. N /\ N \in Nat
  BY Shape DEF Fill, Fields
<1>2. UNCHANGED <<SchemaValid, Ordered>>
  BY FillShape DEF SchemaValid, FieldValid, SafeByDefault, Ordered
<1>3. ASSUME checked, Ordered, NEW i \in Fields, i < at + 1
      PROVE  ~Fills(i)'
  <2>1. CASE i = at
    BY <2>1, FillShape DEF Fills
  <2>2. CASE i < at
    <3>1. ~Fills(i)
      BY <1>3, <2>2 DEF PassInv
    <3>2. \A k \in schema.needs[i] : result'[k] = result[k]
      <4> SUFFICES ASSUME NEW k \in schema.needs[i] PROVE result'[k] = result[k]
        OBVIOUS
      <4>1. PICK j \in 1 .. i - 1 : schema.key[j] = k
        BY <1>3 DEF Ordered
      <4>2. j \in Fields /\ j # at
        BY <1>1, <2>2, <4>1
      <4>3. k # schema.key[at] /\ k \in Key
        BY <1>1, <1>3, <4>1, <4>2, CheckedField
      <4> QED BY <4>3, FillShape
    <3>3. schema.key[i] # schema.key[at] /\ schema.key[i] \in Key
      BY <1>1, <1>3, <2>2, CheckedField
    <3>4. result'[schema.key[i]] = result[schema.key[i]]
      BY <3>3, FillShape
    <3> QED BY <3>1, <3>2, <3>4, FillShape DEF Fills, Ready, configValuePresent
  <2> QED BY <1>1, <1>3, <2>1, <2>2
<1> QED BY <1>1, <1>2, <1>3 DEF PassInv

\* Every step keeps it.
LEMMA PassStep ==
  ASSUME TypeOK, PassInv, [Next]_vars
  PROVE  PassInv'
<1>0. Fields = 1 .. N /\ N \in Nat /\ at \in 1 .. N + 1
  BY Shape DEF Fields, TypeOK
<1>1. CASE Fill
  BY <1>1, FillPass
<1>2. CASE Skip
  <2>1. UNCHANGED <<schema, checked, phase, result>> /\ at' = at + 1 /\ ~Fills(at)
    BY <1>2 DEF Skip
  <2>2. UNCHANGED <<SchemaValid, Ordered>> /\ \A i \in Fields : Fills(i)' = Fills(i)
    BY <2>1 DEF SchemaValid, FieldValid, SafeByDefault, Ordered, Fills, Ready,
                configValuePresent
  <2>3. phase = "apply"
    BY <1>2 DEF Skip
  <2>4. \A i \in Fields : i < at + 1 => i < at \/ i = at
    BY <1>0
  <2> QED BY <2>1, <2>2, <2>3, <2>4 DEF PassInv
<1>3. CASE Validate \/ Reapply
  <2>1. UNCHANGED schema /\ at' = 1 /\ phase' \in {"apply", "rejected"}
    BY <1>3 DEF Validate, Reapply, PassInv
  <2>2. checked' => SchemaValid
    <3>1. CASE Validate
      BY <3>1 DEF Validate
    <3>2. CASE Reapply
      BY <3>2 DEF Reapply, PassInv
    <3> QED BY <1>3, <3>1, <3>2
  <2>3. SchemaValid' = SchemaValid
    BY <2>1 DEF SchemaValid, FieldValid, SafeByDefault
  <2>4. \A i \in Fields : ~(i < 1)
    BY <1>0
  <2> QED BY <2>1, <2>2, <2>3, <2>4 DEF PassInv
<1>4. CASE Fail \/ Finish \/ UNCHANGED vars
  <2>1. /\ UNCHANGED <<schema, checked, at, result>>
        /\ phase' = "done" => at = N + 1
        /\ phase' = "validate" => at = 1
    BY <1>4 DEF Fail, Finish, vars, PassInv
  <2>2. /\ UNCHANGED <<SchemaValid, Ordered>>
        /\ \A i \in Fields : Fills(i)' = Fills(i)
    BY <2>1 DEF SchemaValid, FieldValid, SafeByDefault, Ordered, Fills, Ready,
                configValuePresent
  <2> QED BY <2>1, <2>2 DEF PassInv
<1> QED BY <1>1, <1>2, <1>3, <1>4 DEF Next

\* A pass leaves behind what it will not fill.
LEMMA PassHolds == Spec => []PassInv
<1>1. Init => PassInv
  BY Shape DEF Init, PassInv, Fields
<1>2. TypeOK /\ PassInv /\ [Next]_vars => PassInv'
  BY PassStep
<1> QED BY <1>1, <1>2, TypeCorrect, PTL DEF Spec

\* With dependencies declared first, a second pass would fill nothing.
THEOREM OnePassIsEnough == Spec => []OnePassCompletes
<1>1. PassInv => OnePassCompletes
  <2> SUFFICES ASSUME PassInv, checked, Ordered, phase = "done", NEW i \in Fields
               PROVE  ~Fills(i)
    BY DEF OnePassCompletes
  <2>1. i < at
    BY Shape DEF PassInv, Fields
  <2> QED BY <2>1 DEF PassInv
<1> QED BY <1>1, PassHolds, PTL

\* What SafeStartWhenOrdered asks of the schema and the start.
Unattended ==
  /\ checked
  /\ Ordered
  /\ schema.startup = "default_safe"
  /\ input = Empty
  /\ \A i \in schema.required :
       /\ schema.default[i] # "blank"
       /\ schema.needs[i] \subseteq {schema.key[j] : j \in schema.required}

SafeInv ==
  Unattended => \A i \in schema.required : i < at => result[schema.key[i]] = "set"

LEMMA RequiredFields ==
  ASSUME TypeOK PROVE schema.required \subseteq Fields
BY Shape DEF TypeOK, Schemas

\* The default of a required field of an unattended schema.
LEMMA RequiredDefault ==
  ASSUME TypeOK, PassInv, Unattended, NEW i \in schema.required
  PROVE  schema.default[i] = "set"
<1>1. i \in Fields
  BY RequiredFields
<1>2. schema.default[i] \in Defaults
  BY <1>1, SchemaTypes DEF TypeOK
<1> QED BY <1>1, <1>2, CheckedField DEF Unattended, Defaults

\* What a required field needs is there when the loop comes to it.
LEMMA RequiredReady ==
  ASSUME TypeOK, PassInv, SafeInv, Unattended, at \in schema.required
  PROVE  Ready(at)
<1> SUFFICES ASSUME NEW k \in schema.needs[at] PROVE result[k] = "set"
  BY DEF Ready, configValuePresent
<1>1. at \in Fields /\ Fields = 1 .. N /\ N \in Nat
  BY Shape, RequiredFields DEF Fields
<1>2. PICK j \in schema.required : schema.key[j] = k
  BY DEF Unattended
<1>3. PICK l \in 1 .. at - 1 : schema.key[l] = k
  BY <1>1 DEF Unattended, Ordered
<1>4. l \in Fields /\ j \in Fields
  BY <1>1, RequiredFields
<1>5. j = l
  BY <1>2, <1>3, <1>4, CheckedField DEF Unattended
<1> QED BY <1>1, <1>2, <1>3, <1>5 DEF SafeInv

\* Every step keeps it: the loop leaves no required field empty.
LEMMA SafeStep ==
  ASSUME TypeOK, Added, PassInv, SafeInv, [Next]_vars
  PROVE  SafeInv'
<1>0. Fields = 1 .. N /\ N \in Nat /\ at \in 1 .. N + 1 /\ schema.required \subseteq Fields
  BY Shape, RequiredFields DEF Fields, TypeOK
<1>1. CASE Skip \/ Fill
  <2>1. UNCHANGED <<schema, checked, input>> /\ at' = at + 1
    BY <1>1 DEF Skip, Fill
  <2>2. Unattended' = Unattended
    BY <2>1 DEF Unattended, Ordered
  <2>3. ASSUME Unattended, NEW i \in schema.required, i < at + 1
        PROVE  result'[schema.key[i]] = "set"
    <3>1. schema.key[i] \in Key /\ schema.default[i] = "set"
      BY <1>0, <2>3, CheckedField, RequiredDefault DEF Unattended
    <3>2. result[schema.key[i]] # "absent" => result[schema.key[i]] = "set"
      <4> SUFFICES ASSUME result[schema.key[i]] # "absent"
                   PROVE  result[schema.key[i]] = "set"
        OBVIOUS
      <4>1. input[schema.key[i]] = "absent"
        BY <2>3, <3>1 DEF Unattended, Empty
      <4>2. PICK j \in Fields : schema.key[j] = schema.key[i]
                              /\ schema.default[j] = result[schema.key[i]]
        BY <3>1, <4>1 DEF Added
      <4>3. j = i
        BY <1>0, <2>3, <4>2, CheckedField DEF Unattended
      <4> QED BY <3>1, <4>2, <4>3
    <3>3. result[schema.key[i]] # "absent" =>
            result'[schema.key[i]] = result[schema.key[i]]
      BY <1>1, <3>1, FillShape DEF Skip
    <3>4. CASE i < at
      BY <2>3, <3>3, <3>4 DEF SafeInv
    <3>5. CASE i = at
      <4>1. Ready(at)
        BY <2>3, <3>5, RequiredReady
      <4>2. result[schema.key[at]] = "absent" => Fills(at)
        BY <3>1, <3>5, <4>1 DEF Fills
      <4>3. CASE Skip
        BY <3>2, <3>3, <3>5, <4>2, <4>3 DEF Skip
      <4>4. CASE Fill
        BY <3>1, <3>5, <4>4, FillShape
      <4> QED BY <1>1, <4>3, <4>4
    <3> QED BY <1>0, <2>3, <3>4, <3>5
  <2> QED BY <2>1, <2>2, <2>3 DEF SafeInv
<1>2. CASE Validate \/ Reapply
  <2>1. UNCHANGED schema /\ at' = 1
    BY <1>2 DEF Validate, Reapply, PassInv
  <2>2. \A i \in schema.required : ~(i < 1)
    BY <1>0
  <2> QED BY <2>1, <2>2 DEF SafeInv
<1>3. CASE Fail \/ Finish \/ UNCHANGED vars
  <2>1. UNCHANGED <<schema, checked, at, input, result>>
    BY <1>3 DEF Fail, Finish, vars
  <2> QED BY <2>1 DEF SafeInv, Unattended, Ordered
<1> QED BY <1>1, <1>2, <1>3 DEF Next

\* An unattended start from nothing has all that is required.
THEOREM StartsSafely == Spec => []SafeStartWhenOrdered
<1>1. Init => SafeInv
  BY Shape DEF Init, SafeInv, Unattended
<1>2. TypeOK /\ Added /\ PassInv /\ SafeInv /\ [Next]_vars => SafeInv'
  BY SafeStep
<1>3. TypeOK /\ PassInv /\ SafeInv => SafeStartWhenOrdered
  <2> SUFFICES ASSUME TypeOK, PassInv, SafeInv, Unattended, phase = "done",
                      NEW i \in schema.required
               PROVE  configValuePresent(result, schema.key[i])
    BY DEF SafeStartWhenOrdered, Unattended
  <2>1. i \in 1 .. N /\ N \in Nat /\ at = N + 1
    BY Shape, RequiredFields DEF PassInv, Fields
  <2>2. i < at
    BY <2>1
  <2> QED BY <2>2 DEF SafeInv, configValuePresent
<1> QED BY <1>1, <1>2, <1>3, TypeCorrect, AddedHolds, PassHolds, PTL DEF Spec

-----------------------------------------------------------------------------
(* The order of declarations. *)

\* A field's default is due in config g.
Asks(g, i) ==
  /\ schema.default[i] # "none"
  /\ \A k \in schema.needs[i] : configValuePresent(g, k)

\* g is what the declarations say of the input, in whatever order they stand:
\* what was supplied, the defaults that are due, and nothing else.
Declared(g) ==
  \A k \in Key :
    IF input[k] # "absent" THEN g[k] = input[k]
    ELSE /\ \A i \in Fields : (schema.key[i] = k /\ Asks(g, i)) => g[k] = schema.default[i]
         /\ g[k] # "absent" => \E i \in Fields : schema.key[i] = k /\ Asks(g, i)

OrderIrrelevant ==
  (checked /\ Ordered /\ phase = "done") =>
    \A g \in Config : Declared(g) <=> g = result

\* Behind the loop the config is any such g, ahead of it the input.
AgreesInv ==
  /\ at = 1 => result = input
  /\ (checked /\ Ordered) =>
       \A g \in Config : Declared(g) =>
         \A k \in Key :
           result[k] = IF \E j \in 1 .. at - 1 : schema.key[j] = k THEN g[k] ELSE input[k]

\* The field at hand: the pass does what the declarations say.
LEMMA AgreesAt ==
  ASSUME TypeOK, PassInv, AgreesInv, Skip \/ Fill, checked, Ordered,
         NEW g \in Config, Declared(g)
  PROVE  result'[schema.key[at]] = g[schema.key[at]]
<1> DEFINE k == schema.key[at]
<1>1. at \in Fields /\ Fields = 1 .. N /\ N \in Nat
  BY Shape DEF Skip, Fill, Fields
<1>2. /\ k \in Key /\ schema.needs[at] \subseteq Key
      /\ \A j \in Fields : schema.key[j] = k => j = at
  BY <1>1, CheckedField
<1>3. result[k] = input[k]
  BY <1>1, <1>2 DEF AgreesInv
<1>4. \A d \in schema.needs[at] : result[d] = g[d]
  BY <1>1, <1>2 DEF AgreesInv, Ordered
<1>5. Fills(at) <=> input[k] = "absent" /\ Asks(g, at)
  BY <1>3, <1>4 DEF Fills, Ready, Asks, configValuePresent
<1>6. CASE Fill
  <2>1. g[k] = schema.default[at]
    BY <1>1, <1>2, <1>5, <1>6 DEF Declared, Fill
  <2> QED BY <1>6, <2>1, FillShape
<1>7. CASE Skip
  <2>1. result' = result /\ ~Fills(at)
    BY <1>7 DEF Skip
  <2>2. g[k] = input[k]
    BY <1>1, <1>2, <1>5, <2>1 DEF Declared
  <2> QED BY <1>3, <2>1, <2>2
<1> QED BY <1>6, <1>7

LEMMA AgreesStep ==
  ASSUME TypeOK, PassInv, AgreesInv, [Next]_vars
  PROVE  AgreesInv'
<1>0. Fields = 1 .. N /\ N \in Nat /\ at \in 1 .. N + 1
  BY Shape DEF Fields, TypeOK
<1>1. CASE Skip \/ Fill
  <2>1. UNCHANGED <<schema, checked, input>> /\ at' = at + 1 /\ at \in Fields
    BY <1>1 DEF Skip, Fill
  <2>2. Ordered' = Ordered /\ \A g : Declared(g)' = Declared(g)
    BY <2>1 DEF Ordered, Declared, Asks
  <2>3. ASSUME checked, Ordered, NEW g \in Config, Declared(g), NEW k \in Key
        PROVE  result'[k] = IF \E j \in 1 .. at : schema.key[j] = k THEN g[k] ELSE input[k]
    <3>1. CASE k = schema.key[at]
      <4>1. at \in 1 .. at
        BY <1>0
      <4> QED BY <1>1, <2>3, <3>1, <4>1, AgreesAt
    <3>2. CASE k # schema.key[at]
      <4>1. result'[k] = result[k]
        BY <1>1, <3>2, FillShape DEF Skip
      <4>2. (\E j \in 1 .. at : schema.key[j] = k) <=>
              \E j \in 1 .. at - 1 : schema.key[j] = k
        BY <1>0, <3>2
      <4> QED BY <2>3, <4>1, <4>2 DEF AgreesInv
    <3> QED BY <3>1, <3>2
  <2>4. 1 .. at' - 1 = 1 .. at /\ at' # 1
    BY <1>0, <2>1
  <2>5. ASSUME checked', Ordered', NEW g \in Config, Declared(g)', NEW k \in Key
        PROVE  result'[k] = IF \E j \in 1 .. at' - 1 : schema'.key[j] = k
                              THEN g[k] ELSE input'[k]
    <3>1. checked /\ Ordered /\ Declared(g)
      BY <2>1, <2>2, <2>5
    <3> QED BY <2>1, <2>3, <2>4, <3>1
  <2> QED BY <2>4, <2>5 DEF AgreesInv
<1>2. CASE Validate \/ Reapply
  <2>1. UNCHANGED schema /\ at' = 1
    BY <1>2 DEF Validate, Reapply, PassInv
  <2>2. CASE Reapply
    <3>1. input' = result'
      BY <2>2 DEF Reapply
    <3> QED BY <2>1, <3>1 DEF AgreesInv
  <2>3. CASE Validate
    <3>1. result' = input'
      BY <2>3 DEF Validate, AgreesInv, PassInv
    <3> QED BY <2>1, <3>1 DEF AgreesInv
  <2> QED BY <1>2, <2>2, <2>3
<1>3. CASE Fail \/ Finish \/ UNCHANGED vars
  <2>1. UNCHANGED <<schema, checked, at, input, result>>
    BY <1>3 DEF Fail, Finish, vars
  <2> QED BY <2>1 DEF AgreesInv, Ordered, Declared, Asks
<1> QED BY <1>1, <1>2, <1>3 DEF Next

\* With dependencies declared first the order of the fields does not matter
\* otherwise: the config ApplyConfigDefaults returns is the only one that has
\* what was supplied, every default that is due and nothing else.
THEOREM OneMeaning == Spec => []OrderIrrelevant
<1>1. Init => AgreesInv
  BY DEF Init, AgreesInv
<1>2. TypeOK /\ PassInv /\ AgreesInv /\ [Next]_vars => AgreesInv'
  BY AgreesStep
<1>3. TypeOK /\ PassInv /\ Added /\ AgreesInv => OrderIrrelevant
  <2> SUFFICES ASSUME TypeOK, PassInv, Added, AgreesInv, checked, Ordered, phase = "done"
               PROVE  \A g \in Config : Declared(g) <=> g = result
    BY DEF OrderIrrelevant
  <2>1. /\ at = N + 1 /\ Fields = 1 .. N /\ N \in Nat
        /\ \A i \in Fields : ~Fills(i)
    BY Shape DEF PassInv, Fields
  <2>2. Declared(result)
    <3> SUFFICES ASSUME NEW k \in Key
                 PROVE  IF input[k] # "absent" THEN result[k] = input[k]
                        ELSE /\ \A i \in Fields : (schema.key[i] = k /\ Asks(result, i)) =>
                                  result[k] = schema.default[i]
                             /\ result[k] # "absent" =>
                                  \E i \in Fields : schema.key[i] = k /\ Asks(result, i)
      BY DEF Declared
    <3>1. input[k] # "absent" => result[k] = input[k]
      BY DEF Added
    <3>2. ASSUME input[k] = "absent", NEW i \in Fields, schema.key[i] = k, Asks(result, i)
          PROVE  result[k] = schema.default[i]
      <4>1. result[k] # "absent"
        BY <2>1, <3>2 DEF Fills, Ready, Asks
      <4>2. PICK j \in Fields : schema.key[j] = k /\ schema.default[j] = result[k]
        BY <3>2, <4>1 DEF Added
      <4>3. j = i
        BY <3>2, <4>2, CheckedField
      <4> QED BY <4>2, <4>3
    <3>3. ASSUME input[k] = "absent", result[k] # "absent"
          PROVE  \E i \in Fields : schema.key[i] = k /\ Asks(result, i)
      <4>1. PICK j \in Fields :
              schema.key[j] = k /\ schema.default[j] = result[k] /\ Ready(j)
        BY <3>3 DEF Added
      <4>2. result[k] \in Values
        BY <3>3 DEF TypeOK, Config
      <4> QED BY <4>1, <4>2 DEF Asks, Ready, Values
    <3> QED BY <3>1, <3>2, <3>3
  <2>3. ASSUME NEW g \in Config, Declared(g)
        PROVE  g = result
    <3>1. ASSUME NEW k \in Key PROVE g[k] = result[k]
      <4>1. CASE \E j \in Fields : schema.key[j] = k
        BY <2>1, <2>3, <4>1 DEF AgreesInv
      <4>2. CASE ~ \E j \in Fields : schema.key[j] = k
        <5>1. result[k] = input[k]
          BY <2>1, <2>3, <4>2 DEF AgreesInv
        <5>2. g[k] = input[k]
          BY <2>3, <4>2 DEF Declared
        <5> QED BY <5>1, <5>2
      <4> QED BY <4>1, <4>2
    <3> QED BY <3>1 DEF TypeOK, Config
  <2>4. result \in Config
    BY DEF TypeOK
  <2> QED BY <2>2, <2>3, <2>4
<1> QED BY <1>1, <1>2, <1>3, TypeCorrect, PassHolds, AddedHolds, PTL DEF Spec
===============================================================================
