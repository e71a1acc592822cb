----------------------------- MODULE VariantProofs -----------------------------
(***************************************************************************)
(* For every width of integers and all record types: the counter is as far *)
(* as the constants that were used, so that it never overflows, and when   *)
(* it has arrived at the largest ordinal every ordinal has its variant.    *)
(***************************************************************************)
EXTENDS VariantPart, FiniteSetTheorems, SequenceTheorems, WellFoundedInduction, TLAPS

Indices == UNION {[S -> Nat] : S \in SUBSET Int}
Frames ==
    [part : Nat, variant : Nat, constant : Nat, fields : BOOLEAN,
     counter : Int, used : SUBSET Int, index : Indices]

(* The ordinals of the first k - 1 constants of variant v.                 *)
OrdinalsBefore(part, v, k) == {part.variants[v].constants[j].ordinal : j \in 1 .. k - 1}

(* Where a call is in its variant part.                                    *)
Placed(part, f) ==
    /\ f.variant \in 1 .. Len(part.variants) + 1
    /\ f.variant \in DOMAIN part.variants =>
          f.constant \in 1 .. Len(part.variants[f.variant].constants) + 1
    /\ f.variant = Len(part.variants) + 1 => f.constant = 1
    /\ f.fields =>
          /\ f.variant \in DOMAIN part.variants
          /\ f.constant = Len(part.variants[f.variant].constants) + 1

(* The counter counts the ordinals that were used.                         *)
Counted(part, f) ==
    /\ f.used \subseteq part.smallest .. part.largest
    /\ f.counter = part.smallest - 1 + Cardinality(f.used)

(* These belong to the variants that were added and to the one at hand.    *)
Mapped(part, f) ==
    /\ f.used = DOMAIN f.index \cup OrdinalsBefore(part, f.variant, f.constant)
    /\ \A o \in DOMAIN f.index :
          f.index[o] \in DOMAIN part.variants /\ HasConstant(part, f.index[o], o)

GoodFrame(r, f) ==
    f.part \in DOMAIN r /\ Placed(r[f.part], f) /\ Counted(r[f.part], f) /\ Mapped(r[f.part], f)

Good(r, calls) ==
    calls \in Seq(Frames) /\ \A k \in DOMAIN calls : GoodFrame(r, calls[k])

ErrorsRight == \A e \in errors : e.code \in Codes /\ e.part \in DOMAIN parts

Inv ==
    /\ parts \in Records
    /\ Good(parts, stack)
    /\ ErrorsRight
    /\ DOMAIN index \subseteq DOMAIN parts
    /\ current \in DOMAIN parts \cup {NoPart}
    /\ EveryOrdinalHasItsVariant

-----------------------------------------------------------------------------
(* What a record type is made of.                                          *)

LEMMA PartsRight ==
    ASSUME parts \in Records
    PROVE  /\ DOMAIN parts = 1 .. Len(parts) /\ Len(parts) \in Nat
           /\ \A p \in DOMAIN parts : IsVariantPart(parts[p])
           /\ \A p \in DOMAIN parts : \A v \in DOMAIN parts[p].variants :
                parts[p].variants[v].inside \in DOMAIN parts \cup {NoPart}
<1>1. IsRecord(parts)
  BY RecordsAssumption
<1>2. DOMAIN parts = 1 .. Len(parts) /\ Len(parts) \in Nat
  BY <1>1 DEF IsRecord
<1>3. ASSUME NEW p \in DOMAIN parts, NEW v \in DOMAIN parts[p].variants
      PROVE  parts[p].variants[v].inside \in DOMAIN parts \cup {NoPart}
  <2>1. parts[p].variants[v].inside \in {NoPart} \cup (p + 1 .. Len(parts))
    BY <1>1 DEF IsRecord
  <2> QED
    BY <2>1, <1>2
<1> QED
  BY <1>1, <1>2, <1>3 DEF IsRecord

LEMMA PartRight ==
    ASSUME parts \in Records, NEW p \in DOMAIN parts
    PROVE  /\ parts[p].smallest \in Int /\ parts[p].largest \in Int
           /\ -IntegerMax <= parts[p].smallest /\ parts[p].smallest <= parts[p].largest
           /\ parts[p].largest <= IntegerMax /\ IntegerMax \in Nat
           /\ parts[p].flaw \in TagFlaws
           /\ DOMAIN parts[p].variants = 1 .. Len(parts[p].variants)
           /\ Len(parts[p].variants) \in Nat
           /\ p \in Nat
<1>1. IsVariantPart(parts[p]) /\ p \in Nat
  BY PartsRight
<1> QED
  BY <1>1, IntegerMaxAssumption DEF IsVariantPart, Ordinals

LEMMA ConstantsRight ==
    ASSUME parts \in Records, NEW p \in DOMAIN parts, NEW v \in DOMAIN parts[p].variants
    PROVE  /\ Len(parts[p].variants[v].constants) \in Nat
           /\ DOMAIN parts[p].variants[v].constants = 1 .. Len(parts[p].variants[v].constants)
           /\ \A k \in DOMAIN parts[p].variants[v].constants :
                /\ parts[p].variants[v].constants[k].ordinal \in Int
                /\ parts[p].variants[v].constants[k].flaw \in ConstantFlaws
<1>1. IsVariant(parts[p].variants[v])
  BY PartsRight DEF IsVariantPart
<1>2. parts[p].variants[v].constants \in Seq([flaw : ConstantFlaws, ordinal : Ordinals])
  BY <1>1 DEF IsVariant
<1>3. Ordinals \subseteq Int
  BY IntegerMaxAssumption DEF Ordinals
<1> DEFINE constants == parts[p].variants[v].constants
<1>4. Len(constants) \in Nat /\ DOMAIN constants = 1 .. Len(constants)
  BY <1>2
<1>5. \A k \in DOMAIN constants : constants[k] \in [flaw : ConstantFlaws, ordinal : Ordinals]
  <2> DEFINE S == [flaw : ConstantFlaws, ordinal : Ordinals]
  <2>1. constants \in Seq(S)
    BY <1>2
  <2> HIDE DEF S, constants
  <2>2. \A k \in DOMAIN constants : constants[k] \in S
    BY <2>1, <1>4, ElementOfSeq
  <2> QED
    BY <2>2 DEF S
<1> QED
  BY <1>3, <1>4, <1>5

-----------------------------------------------------------------------------
(* The stack.                                                              *)

LEMMA TopAndBelow ==
    ASSUME Good(parts, stack), stack # <<>>
    PROVE  Top \in Frames /\ GoodFrame(parts, Top) /\ Good(parts, Below)
<1>1. stack \in Seq(Frames) /\ Len(stack) \in Nat /\ Len(stack) > 0
  BY DEF Good
<1>2. Len(stack) \in DOMAIN stack
  BY <1>1
<1>3. Below \in Seq(Frames) /\ Len(Below) = Len(stack) - 1
      /\ \A k \in 1 .. Len(stack) - 1 : Below[k] = stack[k]
  <2>1. \A k \in 1 .. Len(stack) - 1 : stack[k] \in Frames
    BY <1>1
  <2> DEFINE n == Len(stack) - 1
  <2>2. n \in Int /\ 1 \in Int /\ \A k \in 1 .. n : 1 + k - 1 = k
    BY <1>1
  <2>3. SubSeq(stack, 1, n) \in Seq(Frames)
        /\ Len(SubSeq(stack, 1, n)) = (IF 1 <= n THEN n - 1 + 1 ELSE 0)
        /\ \A k \in 1 .. n - 1 + 1 : SubSeq(stack, 1, n)[k] = stack[1 + k - 1]
    BY <2>1, <2>2, SubSeqProperties
  <2>4. n - 1 + 1 = n /\ (IF 1 <= n THEN n - 1 + 1 ELSE 0) = n
    <3>1. n \in Int /\ n >= 0
      BY <1>1
    <3> HIDE DEF n
    <3> QED
      BY <3>1
  <2>5. \A k \in 1 .. n : SubSeq(stack, 1, n)[k] = stack[k]
    BY <2>2, <2>3, <2>4
  <2> QED
    BY <2>3, <2>4, <2>5 DEF Below
<1>4. \A k \in DOMAIN Below : k \in DOMAIN stack /\ Below[k] = stack[k]
  BY <1>1, <1>3
<1> QED
  BY <1>1, <1>2, <1>3, <1>4 DEF Good, Top

LEMMA Pushed ==
    ASSUME NEW r, NEW calls, Good(r, calls), NEW f \in Frames, GoodFrame(r, f)
    PROVE  Good(r, Append(calls, f))
<1>1. calls \in Seq(Frames) /\ Len(calls) \in Nat
  BY DEF Good
<1>2. Append(calls, f) \in Seq(Frames) /\ Len(Append(calls, f)) = Len(calls) + 1
  BY <1>1
<1>3. \A k \in DOMAIN Append(calls, f) :
        (k \in DOMAIN calls /\ Append(calls, f)[k] = calls[k]) \/ Append(calls, f)[k] = f
  BY <1>1, <1>2
<1> QED
  BY <1>2, <1>3 DEF Good

LEMMA NewFrame ==
    ASSUME parts \in Records, NEW p \in DOMAIN parts
    PROVE  Frame(p) \in Frames /\ GoodFrame(parts, Frame(p))
<1>1. Frame(p) \in Frames
  <2>1. <<>> = [x \in {} |-> 0] /\ [x \in {} |-> 0] \in [{} -> Nat]
    OBVIOUS
  <2>2. <<>> \in Indices
    BY <2>1 DEF Indices
  <2> QED
    BY <2>2, PartRight DEF Frame, Frames
<1>2. Placed(parts[p], Frame(p))
  BY PartRight, ConstantsRight DEF Frame, Placed
<1>3. Counted(parts[p], Frame(p))
  <2>1. Cardinality({}) = 0
    BY FS_EmptySet
  <2> QED
    BY <2>1, PartRight DEF Frame, Counted
<1>4. Mapped(parts[p], Frame(p))
  <2>1. DOMAIN <<>> = {} /\ 1 .. 1 - 1 = {}
    OBVIOUS
  <2> QED
    BY <2>1 DEF Frame, Mapped, OrdinalsBefore
<1>5. Frame(p).part = p
  BY DEF Frame
<1> QED
  BY <1>1, <1>2, <1>3, <1>4, <1>5 DEF GoodFrame

(* Begin() enters a variant part, or reports an error and does not.        *)
LEMMA Begun ==
    ASSUME parts \in Records, ErrorsRight, NEW p \in DOMAIN parts,
           NEW calls, Good(parts, calls), Begin(p, calls), parts' = parts
    PROVE  Good(parts, stack') /\ ErrorsRight'
<1>1. CASE parts[p].flaw = "none"
  <2>1. stack' = Append(calls, Frame(p)) /\ errors' = errors
    BY <1>1 DEF Begin
  <2>2. Good(parts, Append(calls, Frame(p)))
    BY NewFrame, Pushed
  <2> QED
    BY <2>1, <2>2 DEF ErrorsRight
<1>2. CASE parts[p].flaw # "none"
  <2>1. stack' = calls /\ errors' = errors \cup {Error(TagError(parts[p].flaw), p)}
    BY <1>2 DEF Begin
  <2>2. TagError(parts[p].flaw) \in Codes
    BY <1>2, PartRight DEF TagError, TagFlaws, Codes
  <2> QED
    BY <2>1, <2>2 DEF ErrorsRight, Error
<1> QED
  BY <1>1, <1>2

-----------------------------------------------------------------------------
(* The steps of resolveFieldList().                                        *)

(* What all of them start from.                                            *)
LEMMA AtTop ==
    ASSUME Inv, stack # <<>>
    PROVE  /\ parts \in Records /\ Top.part \in DOMAIN parts /\ Part = parts[Top.part]
           /\ Top \in Frames /\ GoodFrame(parts, Top) /\ Good(parts, Below)
           /\ Placed(Part, Top) /\ Counted(Part, Top) /\ Mapped(Part, Top)
BY TopAndBelow DEF Inv, GoodFrame, Part

(* An error that the variant part is given up for.                         *)
LEMMA GivenUp ==
    ASSUME Inv, stack # <<>>, NEW code \in Codes, GiveUp(code), parts' = parts
    PROVE  Good(parts, stack') /\ ErrorsRight'
BY AtTop DEF GiveUp, Inv, ErrorsRight, Error

LEMMA GivenUpCodes ==
    ASSUME NEW flaw \in ConstantFlaws
    PROVE  ConstantError(flaw) \in Codes
BY DEF ConstantError, ConstantFlaws, Codes

LEMMA CounterBounds ==
    ASSUME NEW f, NEW part, Counted(part, f),
           part.smallest \in Int, part.largest \in Int, part.smallest <= part.largest
    PROVE  f.counter \in part.smallest - 1 .. part.largest
<1> DEFINE all == part.smallest .. part.largest
<1>1. IsFiniteSet(all) /\ Cardinality(all) = part.largest - part.smallest + 1
  BY FS_Interval
<1>2. f.used \in SUBSET all
  BY DEF Counted
<1>3. Cardinality(f.used) <= Cardinality(all) /\ Cardinality(f.used) \in Nat
  BY <1>1, <1>2, FS_Subset, FS_CardinalityType
<1> QED
  BY <1>1, <1>3 DEF Counted

(* The counter never stands at the largest ordinal while there is another  *)
(* to be used.                                                             *)
LEMMA CounterBelowLargest ==
    ASSUME NEW f \in Frames, NEW part, Counted(part, f), NEW o \in Int,
           part.smallest \in Int, part.largest \in Int, part.smallest <= part.largest,
           part.smallest <= o, o <= part.largest, o \notin f.used
    PROVE  /\ f.counter \in Int /\ f.counter < part.largest
           /\ Cardinality(f.used \cup {o}) = Cardinality(f.used) + 1
<1> DEFINE all == part.smallest .. part.largest
<1>1. IsFiniteSet(all) /\ Cardinality(all) = part.largest - part.smallest + 1
  BY FS_Interval
<1>2. f.used \in SUBSET all /\ f.used \cup {o} \in SUBSET all
  BY DEF Counted
<1>3. IsFiniteSet(f.used) /\ Cardinality(f.used \cup {o}) <= Cardinality(all)
  BY <1>1, <1>2, FS_Subset
<1>4. Cardinality(f.used \cup {o}) = Cardinality(f.used) + 1 /\ Cardinality(f.used) \in Nat
  BY <1>3, FS_AddElement, FS_CardinalityType
<1> QED
  BY <1>1, <1>3, <1>4 DEF Counted
LEMMA OneMore ==
    ASSUME NEW part, NEW v, NEW k \in Nat \ {0}
    PROVE  OrdinalsBefore(part, v, k + 1)
             = OrdinalsBefore(part, v, k) \cup {part.variants[v].constants[k].ordinal}
<1>1. 1 .. k + 1 - 1 = (1 .. k - 1) \cup {k}
  OBVIOUS
<1> QED
  BY <1>1 DEF OrdinalsBefore

(* A case constant that is used.                                           *)
LEMMA UsedConstant ==
    ASSUME Inv, AtConstant, InRange(Case.ordinal), Case.ordinal \notin Top.used
    PROVE  LET f == [Top EXCEPT !.used = @ \cup {Case.ordinal},
                                !.counter = Incremented(@), !.constant = @ + 1]
           IN  f \in Frames /\ GoodFrame(parts, f) /\ Top.counter # IntegerMax
<1> DEFINE o == Case.ordinal
           constants == Part.variants[Top.variant].constants
           f == [Top EXCEPT !.used = @ \cup {Case.ordinal},
                            !.counter = Incremented(@), !.constant = @ + 1]
<1>1. stack # <<>> /\ Top.variant \in DOMAIN Part.variants
      /\ Top.constant \in DOMAIN constants /\ ~Top.fields /\ o = constants[Top.constant].ordinal
  BY DEF AtConstant, InVariant, Case, Variant
<1>2. /\ parts \in Records /\ Top.part \in DOMAIN parts /\ Part = parts[Top.part]
      /\ Top \in Frames /\ Placed(Part, Top) /\ Counted(Part, Top) /\ Mapped(Part, Top)
  BY <1>1, AtTop
<1>3. /\ o \in Int /\ Part.smallest \in Int /\ Part.largest \in Int
      /\ Part.smallest <= Part.largest /\ Part.largest <= IntegerMax /\ IntegerMax \in Nat
      /\ Part.smallest <= o /\ o <= Part.largest
      /\ DOMAIN Part.variants = 1 .. Len(Part.variants) /\ Len(Part.variants) \in Nat
      /\ DOMAIN constants = 1 .. Len(constants) /\ Len(constants) \in Nat
  BY <1>1, <1>2, PartRight, ConstantsRight DEF InRange
<1>4. /\ Top.counter \in Int /\ Top.counter < Part.largest
      /\ Cardinality(Top.used \cup {o}) = Cardinality(Top.used) + 1
  BY <1>2, <1>3, CounterBelowLargest
<1>5. Incremented(Top.counter) = Top.counter + 1
  BY <1>3, <1>4 DEF Incremented
<1>6. /\ f.part = Top.part /\ f.variant = Top.variant /\ f.constant = Top.constant + 1
      /\ f.fields = Top.fields /\ f.counter = Top.counter + 1
      /\ f.used = Top.used \cup {o} /\ f.index = Top.index
  BY <1>2, <1>5 DEF Frames
<1> HIDE DEF constants
<1>7. f \in Frames
  <2> DEFINE U == Top.used \cup {o}
             C == Top.counter + 1
             K == Top.constant + 1
  <2>1. U \in SUBSET Int /\ C \in Int /\ K \in Nat
    BY <1>1, <1>2, <1>3, <1>4 DEF Frames
  <2>2. f = [Top EXCEPT !.used = U, !.counter = C, !.constant = K]
    BY <1>5
  <2> HIDE DEF U, C, K, f
  <2> QED
    BY <1>2, <2>1, <2>2 DEF Frames
<1> HIDE DEF f
<1>8. Placed(Part, f)
  <2>1. ~f.fields
    BY <1>1, <1>6
  <2>2. Top.variant # Len(Part.variants) + 1
    BY <1>1, <1>3
  <2>3. Top.constant + 1 \in 1 .. Len(constants) + 1
    BY <1>1, <1>3
  <2> QED
    BY <1>1, <1>2, <1>6, <2>1, <2>2, <2>3 DEF Placed, constants
<1>9. Counted(Part, f)
  <2>1. f.used \subseteq Part.smallest .. Part.largest
    BY <1>2, <1>3, <1>6 DEF Counted
  <2>2. Top.counter = Part.smallest - 1 + Cardinality(Top.used)
    BY <1>2 DEF Counted
  <2>3. IsFiniteSet(Part.smallest .. Part.largest)
        /\ Top.used \in SUBSET (Part.smallest .. Part.largest)
    BY <1>2, <1>3, FS_Interval DEF Counted
  <2>4. Cardinality(Top.used) \in Nat
    BY <2>3, FS_Subset, FS_CardinalityType
  <2> QED
    BY <1>3, <1>4, <1>6, <2>1, <2>2, <2>4 DEF Counted
<1>10. Mapped(Part, f)
  <2>1. OrdinalsBefore(Part, Top.variant, Top.constant + 1)
          = OrdinalsBefore(Part, Top.variant, Top.constant) \cup {o}
    <3>1. Top.constant \in Nat \ {0}
      BY <1>1, <1>3
    <3> DEFINE k == Top.constant
               v == Top.variant
    <3>2. k \in Nat \ {0} /\ Case.ordinal = Part.variants[v].constants[k].ordinal
      BY <1>1, <3>1 DEF constants
    <3> HIDE DEF k, v
    <3>3. OrdinalsBefore(Part, v, k + 1)
            = OrdinalsBefore(Part, v, k) \cup {Part.variants[v].constants[k].ordinal}
      BY <3>2, OneMore
    <3> QED
      BY <3>2, <3>3 DEF k, v
  <2> QED
    BY <1>2, <1>6, <2>1 DEF Mapped
<1> QED
  <2>1. GoodFrame(parts, f) /\ Top.counter # IntegerMax
    BY <1>2, <1>3, <1>4, <1>6, <1>8, <1>9, <1>10 DEF GoodFrame
  <2> QED
    BY <1>7, <2>1 DEF f

(* A variant that is added leaves its constants behind in the map.         *)
LEMMA AddedVariant ==
    ASSUME Inv, InVariant, Top.fields
    PROVE  LET f == [Top EXCEPT !.index = Indexed(Variant.constants, Top.variant, @),
                                !.variant = @ + 1, !.constant = 1, !.fields = FALSE]
           IN  f \in Frames /\ GoodFrame(parts, f)
<1> DEFINE f == [Top EXCEPT !.index = Indexed(Variant.constants, Top.variant, @),
                            !.variant = @ + 1, !.constant = 1, !.fields = FALSE]
           constants == Part.variants[Top.variant].constants
           ordinals == OrdinalsOf(constants)
<1>1. stack # <<>> /\ Top.variant \in DOMAIN Part.variants /\ Variant.constants = constants
  BY DEF InVariant, Variant
<1>2. /\ parts \in Records /\ Top.part \in DOMAIN parts /\ Part = parts[Top.part]
      /\ Top \in Frames /\ Placed(Part, Top) /\ Counted(Part, Top) /\ Mapped(Part, Top)
  BY <1>1, AtTop
<1>3. /\ DOMAIN Part.variants = 1 .. Len(Part.variants) /\ Len(Part.variants) \in Nat
      /\ DOMAIN constants = 1 .. Len(constants) /\ Len(constants) \in Nat
      /\ \A k \in DOMAIN constants : constants[k].ordinal \in Int
  BY <1>1, <1>2, PartRight, ConstantsRight
<1>4. Top.index \in Indices /\ DOMAIN Top.index \subseteq Int
      /\ \A o \in DOMAIN Top.index : Top.index[o] \in Nat
  BY <1>2 DEF Frames, Indices
<1>5. f.index = [o \in ordinals \cup DOMAIN Top.index |->
                    IF o \in ordinals THEN Top.variant ELSE Top.index[o]]
  BY <1>1, <1>2 DEF Frames, Indexed
<1>6. f.index \in [ordinals \cup DOMAIN Top.index -> Nat] /\ ordinals \subseteq Int
  <2>1. Top.variant \in Nat
    BY <1>1, <1>3
  <2>2. ordinals \subseteq Int
    BY <1>3 DEF OrdinalsOf
  <2> HIDE DEF ordinals
  <2> QED
    BY <1>4, <1>5, <2>1, <2>2
<1>7. f.index \in Indices
  BY <1>4, <1>6 DEF Indices
<1>8. /\ f.part = Top.part /\ f.variant = Top.variant + 1 /\ f.constant = 1
      /\ f.fields = FALSE /\ f.counter = Top.counter /\ f.used = Top.used
  BY <1>2 DEF Frames
<1>9. f \in Frames
  <2>1. Top.variant + 1 \in Nat
    BY <1>1, <1>3
  <2>2. f = [Top EXCEPT !.index = f.index, !.variant = Top.variant + 1, !.constant = 1,
                        !.fields = FALSE]
    BY <1>2 DEF Frames
  <2> QED
    BY <1>2, <1>7, <2>1, <2>2 DEF Frames
<1> HIDE DEF f
<1>10. Placed(Part, f)
  <2>1. f.variant \in DOMAIN Part.variants =>
          Len(Part.variants[f.variant].constants) \in Nat
    BY <1>2, ConstantsRight
  <2>2. ~f.fields
    BY <1>8
  <2>3. f.variant \in 1 .. Len(Part.variants) + 1
    BY <1>1, <1>3, <1>8
  <2>4. f.variant \in DOMAIN Part.variants =>
          f.constant \in 1 .. Len(Part.variants[f.variant].constants) + 1
    BY <1>8, <2>1
  <2> QED
    BY <1>8, <2>2, <2>3, <2>4 DEF Placed
<1>11. Counted(Part, f)
  BY <1>2, <1>8 DEF Counted
<1>12. Mapped(Part, f)
  <2>1. OrdinalsBefore(Part, Top.variant, Top.constant) = ordinals
    <3>1. Top.constant = Len(constants) + 1
      BY <1>2 DEF Placed
    <3>2. 1 .. Top.constant - 1 = DOMAIN constants
      BY <1>3, <3>1
    <3> QED
      BY <3>2 DEF OrdinalsBefore, OrdinalsOf
  <2>2. DOMAIN f.index = ordinals \cup DOMAIN Top.index
    BY <1>5
  <2>3. OrdinalsBefore(Part, f.variant, 1) = {}
    BY DEF OrdinalsBefore
  <2>4. f.used = DOMAIN f.index \cup OrdinalsBefore(Part, f.variant, f.constant)
    BY <1>2, <1>8, <2>1, <2>2, <2>3 DEF Mapped
  <2>5. ASSUME NEW o \in ordinals PROVE HasConstant(Part, Top.variant, o)
    BY DEF OrdinalsOf, HasConstant
  <2>6. ASSUME NEW o \in DOMAIN f.index
        PROVE  f.index[o] \in DOMAIN Part.variants /\ HasConstant(Part, f.index[o], o)
    <3>1. CASE o \in ordinals
      BY <1>1, <1>5, <2>5, <3>1
    <3>2. CASE o \notin ordinals
      <4>1. o \in DOMAIN Top.index /\ f.index[o] = Top.index[o]
        BY <1>5, <2>2, <3>2
      <4> QED
        BY <1>2, <4>1 DEF Mapped
    <3> QED
      BY <3>1, <3>2
  <2> QED
    BY <2>4, <2>6 DEF Mapped
<1>13. GoodFrame(parts, f)
  BY <1>2, <1>8, <1>10, <1>11, <1>12 DEF GoodFrame
<1> QED
  BY <1>9, <1>13 DEF f

(* A variant part whose counter has arrived covers its tag type.           *)
LEMMA Finished ==
    ASSUME Inv, stack # <<>>, Top.variant = Len(Part.variants) + 1,
           Top.counter = Part.largest
    PROVE  /\ DOMAIN Top.index = Part.smallest .. Part.largest
           /\ \A o \in DOMAIN Top.index :
                Top.index[o] \in DOMAIN Part.variants /\ HasConstant(Part, Top.index[o], o)
<1> DEFINE all == Part.smallest .. Part.largest
<1>1. /\ parts \in Records /\ Top.part \in DOMAIN parts /\ Part = parts[Top.part]
      /\ Top \in Frames /\ Placed(Part, Top) /\ Counted(Part, Top) /\ Mapped(Part, Top)
  BY AtTop
<1>2. Part.smallest \in Int /\ Part.largest \in Int /\ Part.smallest <= Part.largest
  BY <1>1, PartRight
<1>3. IsFiniteSet(all) /\ Cardinality(all) = Part.largest - Part.smallest + 1
  BY <1>2, FS_Interval
<1>4. Top.used \in SUBSET all /\ Part.largest = Part.smallest - 1 + Cardinality(Top.used)
  BY <1>1 DEF Counted
<1>5. Cardinality(Top.used) \in Nat
  BY <1>3, <1>4, FS_Subset, FS_CardinalityType
<1>6. Cardinality(all) = Cardinality(Top.used)
  BY <1>2, <1>3, <1>4, <1>5
<1>7. Top.used = all
  BY <1>3, <1>4, <1>6, FS_Subset
<1>8. OrdinalsBefore(Part, Top.variant, Top.constant) = {}
  BY <1>1 DEF Placed, OrdinalsBefore
<1> QED
  BY <1>1, <1>7, <1>8 DEF Mapped
-----------------------------------------------------------------------------
(* The invariant.                                                          *)

LEMMA InitInv == Init => Inv
<1> SUFFICES ASSUME Init PROVE Inv
  OBVIOUS
<1>1. parts \in Records
  BY DEF Init
<1>2. /\ DOMAIN parts = 1 .. Len(parts) /\ Len(parts) \in Nat
      /\ \A p \in DOMAIN parts : parts[p].flaw \in TagFlaws
  BY <1>1, PartsRight, PartRight
<1>3. parts # <<>> => 1 \in DOMAIN parts
  <2>1. CASE Len(parts) = 0
    BY <1>2, <2>1, RecordsAssumption DEF Init
  <2>2. CASE Len(parts) # 0
    BY <1>2, <2>2
  <2> QED
    BY <2>1, <2>2
<1>4. <<>> \in Seq(Frames) /\ DOMAIN <<>> = {}
  OBVIOUS
<1>5. Good(parts, <<>>)
  BY <1>4 DEF Good
<1>6. Good(parts, stack) /\ ErrorsRight
  <2>1. CASE parts = <<>>
    BY <1>5, <2>1 DEF Init, ErrorsRight
  <2>2. CASE parts # <<>> /\ parts[1].flaw = "none"
    <3>1. stack = <<Frame(1)>> /\ errors = {}
      BY <2>2 DEF Init
    <3>2. Frame(1) \in Frames /\ GoodFrame(parts, Frame(1))
      BY <1>1, <1>3, <2>2, NewFrame
    <3>3. Append(<<>>, Frame(1)) = <<Frame(1)>>
      OBVIOUS
    <3>4. Good(parts, <<Frame(1)>>)
      BY <1>5, <3>2, <3>3, Pushed
    <3> QED
      BY <3>1, <3>4 DEF ErrorsRight
  <2>3. CASE parts # <<>> /\ parts[1].flaw # "none"
    <3>1. stack = <<>> /\ errors = {Error(TagError(parts[1].flaw), 1)}
      BY <2>3 DEF Init
    <3>2. TagError(parts[1].flaw) \in Codes
      BY <1>2, <1>3, <2>3 DEF TagError, TagFlaws, Codes
    <3> QED
      BY <1>3, <1>5, <2>3, <3>1, <3>2 DEF ErrorsRight, Error
  <2> QED
    BY <2>1, <2>2, <2>3
<1>7. DOMAIN index = {} /\ current \in DOMAIN parts \cup {NoPart}
  BY <1>3, <1>4 DEF Init, Root
<1>8. EveryOrdinalHasItsVariant
  BY <1>7 DEF Init, EveryOrdinalHasItsVariant
<1> QED
  BY <1>1, <1>6, <1>7, <1>8 DEF Inv

(* The steps of resolveFieldList() keep what is known about the call.      *)
LEMMA Resolving ==
    ASSUME Inv, Good(parts, stack'), ErrorsRight', parts' = parts, index' = index,
           UNCHANGED calling
    PROVE  Inv'
BY DEF Inv, EveryOrdinalHasItsVariant, calling

LEMMA NextInv == Inv /\ [Next]_vars => Inv'
<1> SUFFICES ASSUME Inv, [Next]_vars PROVE Inv'
  OBVIOUS
<1>1. CASE ResolveCaseConstant
  <2>1. stack # <<>> /\ AtConstant /\ parts' = parts /\ UNCHANGED calling
    BY <1>1 DEF ResolveCaseConstant, AtConstant, InVariant
  <2>2. ASSUME NEW code \in Codes, GiveUp(code) PROVE Inv'
    <3>1. index' = index
      BY <2>2 DEF GiveUp
    <3> QED
      BY <2>1, <2>2, <3>1, GivenUp, Resolving
  <2>3. CASE Case.flaw # "none" /\ GiveUp(ConstantError(Case.flaw))
    <3>1. ConstantError(Case.flaw) \in Codes
      BY DEF ConstantError, Codes
    <3> QED
      BY <2>2, <2>3, <3>1
  <2>4. CASE GiveUp("OUT_OF_RANGE")
    BY <2>2, <2>4 DEF Codes
  <2>5. CASE GiveUp("DUPLICATE_CASE")
    BY <2>2, <2>5 DEF Codes
  <2>6. CASE /\ InRange(Case.ordinal) /\ Case.ordinal \notin Top.used
             /\ stack' = Append(Below,
                   [Top EXCEPT !.used = @ \cup {Case.ordinal},
                               !.counter = Incremented(@), !.constant = @ + 1])
             /\ UNCHANGED <<index, errors>>
    <3>1. Good(parts, stack')
      BY <2>1, <2>6, UsedConstant, AtTop, Pushed
    <3> QED
      BY <2>1, <2>6, <3>1, Resolving DEF Inv, ErrorsRight
  <2> QED
    BY <1>1, <2>3, <2>4, <2>5, <2>6 DEF ResolveCaseConstant
<1>2. CASE ResolveVariantFields
  <2> DEFINE f == [Top EXCEPT !.fields = TRUE]
             calls == Append(Below, f)
  <2>1. /\ stack # <<>> /\ Top.variant \in DOMAIN Part.variants
        /\ Top.constant = Len(Part.variants[Top.variant].constants) + 1
        /\ parts' = parts /\ index' = index /\ UNCHANGED calling
    BY <1>2 DEF ResolveVariantFields, InVariant, Variant
  <2>2. /\ parts \in Records /\ Top.part \in DOMAIN parts /\ Part = parts[Top.part]
        /\ Top \in Frames /\ GoodFrame(parts, Top) /\ Good(parts, Below)
    BY <2>1, AtTop
  <2>3. f \in Frames /\ f.part = Top.part /\ f.variant = Top.variant
        /\ f.constant = Top.constant /\ f.used = Top.used /\ f.index = Top.index
        /\ f.counter = Top.counter
    BY <2>2 DEF Frames
  <2>4. GoodFrame(parts, f)
    BY <2>1, <2>2, <2>3 DEF GoodFrame, Placed, Counted, Mapped
  <2>5. Good(parts, calls)
    BY <2>2, <2>3, <2>4, Pushed
  <2> HIDE DEF f
  <2>6. CASE Variant.inside = NoPart /\ stack' = calls /\ UNCHANGED errors
    BY <2>1, <2>5, <2>6, Resolving DEF Inv, ErrorsRight
  <2>7. CASE Variant.inside # NoPart /\ Begin(Variant.inside, calls)
    <3>1. Variant.inside \in DOMAIN parts
      BY <2>1, <2>2, <2>7, PartsRight DEF Variant
    <3>2. Good(parts, stack') /\ ErrorsRight'
      BY <2>1, <2>2, <2>5, <2>7, <3>1, Begun DEF Inv
    <3> QED
      BY <2>1, <3>2, Resolving
  <2> QED
    BY <1>2, <2>6, <2>7 DEF ResolveVariantFields, f
<1>3. CASE AddVariant
  <2>1. stack # <<>> /\ InVariant /\ Top.fields /\ parts' = parts /\ index' = index
        /\ UNCHANGED calling /\ errors' = errors
    BY <1>3 DEF AddVariant, InVariant
  <2>2. Good(parts, stack')
    BY <1>3, <2>1, AddedVariant, AtTop, Pushed DEF AddVariant
  <2> QED
    BY <2>1, <2>2, Resolving DEF Inv, ErrorsRight
<1>4. CASE FinishVariantPart
  <2>1. stack # <<>> /\ Top.variant = Len(Part.variants) + 1 /\ parts' = parts
        /\ UNCHANGED calling
    BY <1>4 DEF FinishVariantPart
  <2>2. CASE GiveUp("MISSING_CASE")
    <3>1. index' = index /\ "MISSING_CASE" \in Codes
      BY <2>2 DEF GiveUp, Codes
    <3> QED
      BY <2>1, <2>2, <3>1, GivenUp, Resolving
  <2>3. CASE /\ Top.counter = Part.largest
             /\ index' = [p \in {Top.part} \cup DOMAIN index |->
                             IF p = Top.part THEN Top.index ELSE index[p]]
             /\ stack' = Below
             /\ UNCHANGED errors
    <3>1. /\ DOMAIN Top.index = Part.smallest .. Part.largest
          /\ \A o \in DOMAIN Top.index :
                Top.index[o] \in DOMAIN Part.variants /\ HasConstant(Part, Top.index[o], o)
      BY <2>1, <2>3, Finished
    <3>2. Top.part \in DOMAIN parts /\ Part = parts[Top.part] /\ Good(parts, Below)
      BY <2>1, AtTop
    <3>3. DOMAIN index' = {Top.part} \cup DOMAIN index
          /\ \A p \in DOMAIN index' : index'[p] = IF p = Top.part THEN Top.index ELSE index[p]
      BY <2>3
    <3>4. ASSUME NEW p \in DOMAIN index'
          PROVE  /\ DOMAIN index'[p] = parts[p].smallest .. parts[p].largest
                 /\ \A o \in DOMAIN index'[p] :
                       index'[p][o] \in DOMAIN parts[p].variants
                       /\ HasConstant(parts[p], index'[p][o], o)
      <4>1. CASE p = Top.part
        BY <3>1, <3>2, <3>3, <4>1
      <4>2. CASE p # Top.part
        <5>1. p \in DOMAIN index /\ index'[p] = index[p]
          BY <3>3, <4>2
        <5> QED
          BY <5>1 DEF Inv, EveryOrdinalHasItsVariant
      <4> QED
        BY <4>1, <4>2
    <3>5. EveryOrdinalHasItsVariant'
      BY <2>1, <3>4 DEF Inv, EveryOrdinalHasItsVariant, calling
    <3>6. DOMAIN index' \subseteq DOMAIN parts
      BY <3>2, <3>3 DEF Inv
    <3> QED
      BY <2>1, <2>3, <3>2, <3>5, <3>6 DEF Inv, ErrorsRight, calling
  <2> QED
    BY <1>4, <2>2, <2>3 DEF FinishVariantPart
<1>5. CASE FollowCaseConstant
  <2>1. PICK o \in Ordinals :
          /\ current \in DOMAIN index /\ ~OutOfRange(parts[current], o)
          /\ \/ o \notin DOMAIN index[current]
             \/ /\ o \in DOMAIN index[current]
                /\ current' = parts[current].variants[index[current][o]].inside
                /\ UNCHANGED <<thrown, pc>>
    BY <1>5 DEF FollowCaseConstant
  <2>2. /\ parts \in Records /\ current \in DOMAIN parts
        /\ DOMAIN index[current] = parts[current].smallest .. parts[current].largest
    BY <2>1 DEF Inv, EveryOrdinalHasItsVariant
  <2>3. o \in DOMAIN index[current]
    <3>1. o \in Int
      BY IntegerMaxAssumption DEF Ordinals
    <3> QED
      BY <2>1, <2>2, <3>1, PartRight DEF OutOfRange
  <2>4. index[current][o] \in DOMAIN parts[current].variants
    BY <2>1, <2>3 DEF Inv, EveryOrdinalHasItsVariant
  <2>5. current' \in DOMAIN parts \cup {NoPart} /\ thrown' = thrown
    BY <2>1, <2>2, <2>3, <2>4, PartsRight
  <2>6. UNCHANGED <<parts, stack, index, errors>>
    BY <1>5 DEF FollowCaseConstant, resolving
  <2> QED
    BY <2>5, <2>6 DEF Inv, ErrorsRight, EveryOrdinalHasItsVariant
<1>6. CASE UNCHANGED <<parts, stack, index, errors, current, thrown>>
  BY <1>6 DEF Inv, ErrorsRight, EveryOrdinalHasItsVariant
<1>7. StartCall \/ RejectCaseConstant \/ EndCall \/ Done \/ UNCHANGED vars
        => UNCHANGED <<parts, stack, index, errors, current, thrown>>
  BY DEF StartCall, RejectCaseConstant, EndCall, Done, vars, resolving, calling
<1> QED
  BY <1>1, <1>2, <1>3, <1>4, <1>5, <1>6, <1>7 DEF Next

LEMMA Invariant == Spec => []Inv
BY InitInv, NextInv, PTL DEF Spec

-----------------------------------------------------------------------------

(* For every record type and any width of integers, each call works inside *)
(* its variant part, on ordinals of its tag type.                          *)
THEOREM VariantPartTypeCorrect == Spec => []TypeOK
<1>1. ASSUME Inv PROVE TypeOK
  <2>1. ASSUME NEW k \in DOMAIN stack
        PROVE  /\ stack[k].part \in DOMAIN parts
               /\ stack[k].variant \in 1 .. Len(parts[stack[k].part].variants) + 1
               /\ stack[k].used \subseteq parts[stack[k].part].smallest .. parts[stack[k].part].largest
               /\ stack[k].counter \in -IntegerMax - 1 .. IntegerMax
    <3> DEFINE f == stack[k]
               part == parts[f.part]
    <3>1. parts \in Records /\ GoodFrame(parts, f)
      BY <1>1 DEF Inv, Good
    <3>2. f.part \in DOMAIN parts /\ Placed(part, f) /\ Counted(part, f)
      BY <3>1 DEF GoodFrame
    <3> HIDE DEF f
    <3>3. /\ part.smallest \in Int /\ part.largest \in Int /\ IntegerMax \in Nat
          /\ -IntegerMax <= part.smallest /\ part.smallest <= part.largest
          /\ part.largest <= IntegerMax
      BY <3>1, <3>2, PartRight
    <3>4. f.counter \in part.smallest - 1 .. part.largest
      BY <3>2, <3>3, CounterBounds
    <3>5. f.counter \in -IntegerMax - 1 .. IntegerMax
      BY <3>3, <3>4
    <3> QED
      BY <3>2, <3>5 DEF f, part, Placed, Counted
  <2> QED
    BY <1>1, <2>1 DEF Inv, ErrorsRight, TypeOK
<1> QED
  BY <1>1, Invariant, PTL

(* The assertion before ++counter holds for every record type and any      *)
(* width of integers.                                                      *)
THEOREM VariantPartCounter == Spec => []CounterNeverOverflows
<1>1. Inv => CounterNeverOverflows
  BY UsedConstant DEF CounterNeverOverflows
<1> QED
  BY <1>1, Invariant, PTL

(* Every variant part that was accepted leads each ordinal of its tag type *)
(* to a variant that has it, and no call of new ever makes at() throw.     *)
THEOREM VariantPartIndex == Spec => []EveryOrdinalHasItsVariant
<1>1. Inv => EveryOrdinalHasItsVariant
  BY DEF Inv
<1> QED
  BY <1>1, Invariant, PTL

-----------------------------------------------------------------------------
(* The verdict.  The counter is compared, and nothing else; that this is   *)
(* enough follows from what is known of the constants a call has gone past *)
(* and of the variant parts inside the variants it has gone past.          *)

(* The case constants that a call has gone past.                           *)
Passed(part, f, v, k) ==
    /\ v \in DOMAIN part.variants /\ k \in DOMAIN part.variants[v].constants
    /\ v < f.variant \/ (v = f.variant /\ k < f.constant)
OrdinalAt(part, v, k) == part.variants[v].constants[k].ordinal
InsideOf(p, v) == parts[p].variants[v].inside

(* These are right, and all different; the others are not used.            *)
Clean(part, f) ==
    /\ part.flaw = "none"
    /\ \A v \in DOMAIN part.variants : \A k \in DOMAIN part.variants[v].constants :
          Passed(part, f, v, k) =>
             part.variants[v].constants[k].flaw = "none" /\ OrdinalAt(part, v, k) \in f.used
    /\ \A o \in f.used :
          \E v \in DOMAIN part.variants : \E k \in DOMAIN part.variants[v].constants :
             Passed(part, f, v, k) /\ OrdinalAt(part, v, k) = o
    /\ \A v, w \in DOMAIN part.variants :
       \A k \in DOMAIN part.variants[v].constants, l \in DOMAIN part.variants[w].constants :
          Passed(part, f, v, k) /\ Passed(part, f, w, l)
             /\ OrdinalAt(part, v, k) = OrdinalAt(part, w, l) => v = w /\ k = l

(* Each call was made by the one below it.                                 *)
Called(calls) ==
    \A k \in 1 .. Len(calls) - 1 :
        calls[k].fields /\ InsideOf(calls[k].part, calls[k].variant) = calls[k + 1].part

(* Without errors, the variant parts inside what was dealt with are set.   *)
Complete ==
    /\ parts # <<>> => 1 \in DOMAIN index \/ (stack # <<>> /\ stack[1].part = 1)
    /\ \A p \in DOMAIN index : \A v \in DOMAIN parts[p].variants :
          InsideOf(p, v) \in DOMAIN index \cup {NoPart}
    /\ \A k \in DOMAIN stack : \A v \in DOMAIN parts[stack[k].part].variants :
          v < stack[k].variant \/ (v = stack[k].variant /\ stack[k].fields /\ k = Len(stack)) =>
             InsideOf(stack[k].part, v) \in DOMAIN index \cup {NoPart}

Covering ==
    /\ \A k \in DOMAIN stack : Clean(parts[stack[k].part], stack[k])
    /\ Called(stack)
    /\ \A e \in errors : ~Covered(e.part)
    /\ \A p \in DOMAIN index : Covered(p)
    /\ errors = {} => Complete
    /\ pc # "resolving" => stack = <<>>

(* The constants of a variant part are finitely many.                      *)
LEMMA FinitelyManyConstants ==
    ASSUME parts \in Records, NEW p \in DOMAIN parts
    PROVE  IsFiniteSet(ConstantsOf(p))
<1> DEFINE D == DOMAIN parts[p].variants
           C(v) == DOMAIN parts[p].variants[v].constants
           Row(v) == {<<v, k>> : k \in C(v)}
           Rows == {Row(v) : v \in D}
           f == [v \in D |-> Row(v)]
<1>1. IsFiniteSet(D) /\ \A v \in D : IsFiniteSet(C(v))
  <2>1. D = 1 .. Len(parts[p].variants) /\ Len(parts[p].variants) \in Nat
    BY PartRight
  <2>2. \A v \in D : C(v) = 1 .. Len(parts[p].variants[v].constants)
                     /\ Len(parts[p].variants[v].constants) \in Nat
    BY ConstantsRight
  <2> HIDE DEF D, C
  <2>3. IsFiniteSet(D)
    BY <2>1, FS_Interval
  <2>4. ASSUME NEW v \in D PROVE IsFiniteSet(C(v))
    BY <2>2, FS_Interval
  <2>5. QED BY <2>3, <2>4
<1>2. ConstantsOf(p) = UNION Rows
  BY DEF ConstantsOf
<1> HIDE DEF D, C
<1>3. ASSUME NEW v \in D PROVE IsFiniteSet(Row(v))
  <2>1. IsFiniteSet({v}) /\ IsFiniteSet(C(v))
    BY <1>1, FS_Singleton
  <2>2. IsFiniteSet({v} \X C(v))
    BY <2>1, FS_Product
  <2>3. Row(v) = {v} \X C(v)
    OBVIOUS
  <2>4. QED BY <2>2, <2>3
<1>4. f \in Surjection(D, Rows)
  BY DEF Surjection
<1>5. IsFiniteSet(Rows)
  BY <1>1, <1>4, FS_Surjection
<1>6. \A row \in Rows : IsFiniteSet(row)
  BY <1>3
<1> HIDE DEF Rows
<1>7. QED BY <1>2, <1>5, <1>6, FS_UNION

(* What it means for a variant part to cover its tag type.                 *)
LEMMA CoveredMeans ==
    ASSUME parts \in Records, NEW p \in DOMAIN parts
    PROVE  Covered(p) <=>
             /\ parts[p].flaw = "none"
             /\ \A v \in DOMAIN parts[p].variants :
                \A k \in DOMAIN parts[p].variants[v].constants :
                   /\ parts[p].variants[v].constants[k].flaw = "none"
                   /\ OrdinalAt(parts[p], v, k) \in parts[p].smallest .. parts[p].largest
             /\ \A o \in parts[p].smallest .. parts[p].largest :
                   \E v \in DOMAIN parts[p].variants :
                   \E k \in DOMAIN parts[p].variants[v].constants :
                      OrdinalAt(parts[p], v, k) = o
             /\ \A v, w \in DOMAIN parts[p].variants :
                \A k \in DOMAIN parts[p].variants[v].constants :
                \A l \in DOMAIN parts[p].variants[w].constants :
                   OrdinalAt(parts[p], v, k) = OrdinalAt(parts[p], w, l)
                      /\ OrdinalAt(parts[p], v, k) \in parts[p].smallest .. parts[p].largest
                   => v = w /\ k = l
<1> DEFINE D == DOMAIN parts[p].variants
           C(v) == DOMAIN parts[p].variants[v].constants
           O(v, k) == OrdinalAt(parts[p], v, k)
           all == parts[p].smallest .. parts[p].largest
           Those(o) == {at \in ConstantsOf(p) : ConstantAt(p, at).ordinal = o}
<1>1. \A at : at \in ConstantsOf(p) <=> \E v \in D : \E k \in C(v) : at = <<v, k>>
  BY DEF ConstantsOf
<1>2. \A v, k : ConstantAt(p, <<v, k>>) = parts[p].variants[v].constants[k]
                /\ ConstantAt(p, <<v, k>>).ordinal = O(v, k)
  BY DEF ConstantAt, OrdinalAt
<1>3. ASSUME NEW o PROVE IsFiniteSet(Those(o))
  BY FinitelyManyConstants, FS_Subset
<1>4. ASSUME NEW o PROVE Cardinality(Those(o)) = 1 <=> \E at : Those(o) = {at}
  BY <1>3, FS_Singleton
<1>5. \A o : \A v \in D : \A k \in C(v) : O(v, k) = o => <<v, k>> \in Those(o)
  BY <1>1, <1>2
<1>6. \A o : \A at \in Those(o) : \E v \in D : \E k \in C(v) : at = <<v, k>> /\ O(v, k) = o
  BY <1>1, <1>2
<1> DEFINE Exists(o) == \E v \in D : \E k \in C(v) : O(v, k) = o
           Only(o) == \A v, w \in D : \A k \in C(v) : \A l \in C(w) :
                         O(v, k) = o /\ O(w, l) = o => v = w /\ k = l
           Sound == \A v \in D : \A k \in C(v) :
                       parts[p].variants[v].constants[k].flaw = "none" /\ O(v, k) \in all
           AllSound == \A at \in ConstantsOf(p) :
                          ConstantAt(p, at).flaw = "none" /\ ConstantAt(p, at).ordinal \in all
<1>7. AllSound <=> Sound
  <2>1. ASSUME AllSound, NEW v \in D, NEW k \in C(v)
        PROVE  parts[p].variants[v].constants[k].flaw = "none" /\ O(v, k) \in all
    <3>1. <<v, k>> \in ConstantsOf(p)
      BY <1>1
    <3>2. ConstantAt(p, <<v, k>>).flaw = "none" /\ ConstantAt(p, <<v, k>>).ordinal \in all
      BY <2>1, <3>1
    <3>3. QED BY <1>2, <3>2
  <2>2. ASSUME Sound, NEW at \in ConstantsOf(p)
        PROVE  ConstantAt(p, at).flaw = "none" /\ ConstantAt(p, at).ordinal \in all
    <3>1. PICK v \in D : \E k \in C(v) : at = <<v, k>>
      BY <1>1
    <3>2. PICK k \in C(v) : at = <<v, k>>
      BY <3>1
    <3>3. QED BY <1>2, <2>2, <3>2
  <2>3. QED BY <2>1, <2>2
<1> HIDE DEF D, C, O, Those
<1>8. ASSUME NEW o PROVE Cardinality(Those(o)) = 1 <=> Exists(o) /\ Only(o)
  <2>1. ASSUME NEW at, Those(o) = {at} PROVE Exists(o) /\ Only(o)
    <3>1. Exists(o)
      BY <2>1, <1>6
    <3>2. ASSUME NEW v \in D, NEW w \in D, NEW k \in C(v), NEW l \in C(w),
                 O(v, k) = o, O(w, l) = o
          PROVE  v = w /\ k = l
      <4>1. <<v, k>> \in Those(o) /\ <<w, l>> \in Those(o)
        BY <1>5, <3>2
      <4>2. <<v, k>> = <<w, l>>
        BY <2>1, <4>1
      <4>3. QED BY <4>2
    <3>3. QED BY <3>1, <3>2
  <2>2. ASSUME Exists(o), Only(o) PROVE \E at : Those(o) = {at}
    <3>1. PICK v \in D : \E k \in C(v) : O(v, k) = o
      BY <2>2
    <3>2. PICK k \in C(v) : O(v, k) = o
      BY <3>1
    <3>3. <<v, k>> \in Those(o)
      BY <1>5, <3>2
    <3>4. ASSUME NEW at \in Those(o) PROVE at = <<v, k>>
      <4>1. PICK w \in D : \E l \in C(w) : at = <<w, l>> /\ O(w, l) = o
        BY <1>6
      <4>2. PICK l \in C(w) : at = <<w, l>> /\ O(w, l) = o
        BY <4>1
      <4>3. w = v /\ l = k
        BY <2>2, <3>2, <4>2
      <4>4. QED BY <4>2, <4>3
    <3>5. Those(o) = {<<v, k>>}
      BY <3>3, <3>4
    <3>6. QED BY <3>5
  <2>3. QED BY <1>4, <2>1, <2>2
<1>9. Covered(p) <=> /\ parts[p].flaw = "none" /\ Sound
                     /\ \A o \in all : Exists(o) /\ Only(o)
  BY <1>7, <1>8 DEF Covered, Those
<1>10. (\A o \in all : Only(o)) <=>
          \A v, w \in D : \A k \in C(v) : \A l \in C(w) :
             O(v, k) = O(w, l) /\ O(v, k) \in all => v = w /\ k = l
  OBVIOUS
<1>11. QED BY <1>9, <1>10 DEF D, C, O

(* Moving on in a variant part keeps what was passed right and different.  *)
LEMMA CleanFrame ==
    ASSUME parts \in Records, NEW p \in DOMAIN parts, parts[p].flaw = "none"
    PROVE  Clean(parts[p], Frame(p))
<1>1. DOMAIN parts[p].variants \subseteq Nat \ {0}
  BY PartRight
<1>2. \A v \in DOMAIN parts[p].variants :
         DOMAIN parts[p].variants[v].constants \subseteq Nat \ {0}
  BY ConstantsRight
<1>3. Frame(p).variant = 1 /\ Frame(p).constant = 1 /\ Frame(p).used = {}
  BY DEF Frame
<1>4. \A v, k : ~Passed(parts[p], Frame(p), v, k)
  BY <1>1, <1>2, <1>3 DEF Passed
<1>5. QED BY <1>3, <1>4 DEF Clean

LEMMA CleanSame ==
    ASSUME NEW part, NEW f, NEW g, Clean(part, f), g.used = f.used,
           \A v \in DOMAIN part.variants : \A k \in DOMAIN part.variants[v].constants :
              Passed(part, g, v, k) <=> Passed(part, f, v, k)
    PROVE  Clean(part, g)
BY DEF Clean

LEMMA CleanUsed ==
    ASSUME Inv, AtConstant, Case.flaw = "none", Case.ordinal \notin Top.used,
           Clean(Part, Top), NEW f, f.used = Top.used \cup {Case.ordinal},
           f.variant = Top.variant, f.constant = Top.constant + 1
    PROVE  Clean(Part, f)
<1> DEFINE a == Top.variant
           c == Top.constant
           o == Case.ordinal
           P(v, k) == Passed(Part, Top, v, k)
           Q(v, k) == Passed(Part, f, v, k)
           At(v) == DOMAIN Part.variants[v].constants
           O(v, k) == OrdinalAt(Part, v, k)
           D == DOMAIN Part.variants
<1>1. /\ stack # <<>> /\ a \in D /\ c \in At(a)
      /\ o = O(a, c) /\ Part.variants[a].constants[c].flaw = "none"
  BY DEF AtConstant, InVariant, Case, Variant, OrdinalAt
<1>2. parts \in Records /\ Top.part \in DOMAIN parts /\ Part = parts[Top.part]
  BY <1>1, AtTop
<1>3. D \subseteq Nat /\ \A v \in D : At(v) \subseteq Nat
  BY <1>2, PartRight, ConstantsRight
<1>4. ASSUME NEW v \in D, NEW k \in At(v) PROVE Q(v, k) <=> P(v, k) \/ (v = a /\ k = c)
  <2>1. v \in Nat /\ k \in Nat /\ a \in Nat /\ c \in Nat
    BY <1>1, <1>3
  <2>2. P(v, k) <=> v < a \/ (v = a /\ k < c)
    BY DEF Passed
  <2>3. Q(v, k) <=> v < a \/ (v = a /\ k < c + 1)
    BY DEF Passed
  <2> HIDE DEF a, c, P, Q
  <2>4. QED BY <2>1, <2>2, <2>3
<1>5. ~P(a, c)
  BY <1>1, <1>3 DEF Passed
<1> DEFINE Flawless(v, k) == Part.variants[v].constants[k].flaw = "none"
<1>6. /\ \A v \in D : \A k \in At(v) : P(v, k) => Flawless(v, k) /\ O(v, k) \in Top.used
      /\ \A x \in Top.used : \E v \in D : \E k \in At(v) : P(v, k) /\ O(v, k) = x
      /\ \A v, w \in D : \A k \in At(v), l \in At(w) :
            P(v, k) /\ P(w, l) /\ O(v, k) = O(w, l) => v = w /\ k = l
      /\ Part.flaw = "none"
  BY DEF Clean
<1>7. Flawless(a, c)
  BY <1>1
<1> HIDE DEF P, Q, O, At, D, Flawless, a, c, o
<1>8. ASSUME NEW v \in D, NEW k \in At(v), Q(v, k)
      PROVE  Flawless(v, k) /\ O(v, k) \in f.used
  <2>1. CASE P(v, k)
    BY <1>6, <2>1
  <2>2. CASE v = a /\ k = c
    BY <1>1, <1>7, <2>2 DEF o
  <2>3. QED BY <1>4, <1>8, <2>1, <2>2
<1>9. ASSUME NEW x \in f.used PROVE \E v \in D : \E k \in At(v) : Q(v, k) /\ O(v, k) = x
  <2>1. CASE x \in Top.used
    BY <1>4, <1>6, <2>1
  <2>2. CASE x = o
    BY <1>1, <1>4, <2>2
  <2>3. QED BY <2>1, <2>2 DEF o
<1>10. ASSUME NEW v \in D, NEW w \in D, NEW k \in At(v), NEW l \in At(w),
              Q(v, k), Q(w, l), O(v, k) = O(w, l)
       PROVE  v = w /\ k = l
  <2>1. P(v, k) => O(v, k) # o
    BY <1>6 DEF o
  <2>2. P(w, l) => O(w, l) # o
    BY <1>6 DEF o
  <2>3. CASE P(v, k) /\ P(w, l)
    BY <1>6, <1>10, <2>3
  <2>4. CASE ~P(v, k)
    <3>1. v = a /\ k = c
      BY <1>4, <1>10, <2>4
    <3>2. ~P(w, l)
      BY <1>1, <1>10, <2>2, <3>1
    <3>3. w = a /\ l = c
      BY <1>4, <1>10, <3>2
    <3>4. QED BY <3>1, <3>3
  <2>5. CASE ~P(w, l)
    <3>1. w = a /\ l = c
      BY <1>4, <1>10, <2>5
    <3>2. ~P(v, k)
      BY <1>1, <1>10, <2>1, <3>1
    <3>3. v = a /\ k = c
      BY <1>4, <1>10, <3>2
    <3>4. QED BY <3>1, <3>3
  <2>6. QED BY <2>3, <2>4, <2>5
<1>11. QED BY <1>6, <1>8, <1>9, <1>10 DEF Clean, P, Q, O, At, D, Flawless

(* Every error is about a variant part that does not cover its tag type.   *)
LEMMA WrongConstant ==
    ASSUME Inv, AtConstant, Clean(Part, Top),
           \/ Case.flaw # "none" \/ ~InRange(Case.ordinal) \/ Case.ordinal \in Top.used
    PROVE  ~Covered(Top.part)
<1> DEFINE p == Top.part
           a == Top.variant
           c == Top.constant
           o == Case.ordinal
<1>1. /\ stack # <<>> /\ a \in DOMAIN Part.variants
      /\ c \in DOMAIN Part.variants[a].constants
      /\ o = OrdinalAt(Part, a, c) /\ Case = Part.variants[a].constants[c]
  BY DEF AtConstant, InVariant, Case, Variant, OrdinalAt
<1>2. parts \in Records /\ p \in DOMAIN parts /\ Part = parts[p]
  BY <1>1, AtTop
<1>3. o \in Int /\ Part.smallest \in Int /\ Part.largest \in Int
  BY <1>1, <1>2, PartRight, ConstantsRight
<1>4. ASSUME Covered(p), o \in Top.used PROVE FALSE
  <2>1. PICK v \in DOMAIN Part.variants : \E k \in DOMAIN Part.variants[v].constants :
               Passed(Part, Top, v, k) /\ OrdinalAt(Part, v, k) = o
    BY <1>4 DEF Clean
  <2>2. PICK k \in DOMAIN Part.variants[v].constants :
               Passed(Part, Top, v, k) /\ OrdinalAt(Part, v, k) = o
    BY <2>1
  <2>3. a \in Nat /\ c \in Nat
    <3>1. DOMAIN parts[p].variants = 1 .. Len(parts[p].variants)
      BY <1>2, PartRight
    <3>2. a \in DOMAIN parts[p].variants /\ c \in DOMAIN parts[p].variants[a].constants
      BY <1>1, <1>2
    <3> HIDE DEF p, a, c
    <3>3. DOMAIN parts[p].variants[a].constants = 1 .. Len(parts[p].variants[a].constants)
      BY <1>2, <3>2, ConstantsRight
    <3>4. QED BY <3>1, <3>2, <3>3
  <2>4. ~(v = a /\ k = c)
    BY <2>2, <2>3 DEF Passed
  <2>5. /\ \A w \in DOMAIN parts[p].variants :
           \A l \in DOMAIN parts[p].variants[w].constants :
              OrdinalAt(parts[p], w, l) \in parts[p].smallest .. parts[p].largest
        /\ \A u, w \in DOMAIN parts[p].variants :
           \A i \in DOMAIN parts[p].variants[u].constants :
           \A l \in DOMAIN parts[p].variants[w].constants :
              OrdinalAt(parts[p], u, i) = OrdinalAt(parts[p], w, l) => u = w /\ i = l
    BY <1>2, <1>4, CoveredMeans
  <2>6. v = a /\ k = c
    <3> HIDE DEF p, a, c, o
    <3>1. /\ a \in DOMAIN parts[p].variants /\ c \in DOMAIN parts[p].variants[a].constants
          /\ OrdinalAt(parts[p], a, c) = o
      BY <1>1, <1>2
    <3>2. /\ v \in DOMAIN parts[p].variants /\ k \in DOMAIN parts[p].variants[v].constants
          /\ OrdinalAt(parts[p], v, k) = o
      BY <1>2, <2>2
    <3>3. QED BY <2>5, <3>1, <3>2
  <2>7. QED BY <2>4, <2>6
<1>5. ASSUME Covered(p) PROVE Case.flaw = "none" /\ InRange(o)
  <2>1. \A v \in DOMAIN Part.variants : \A k \in DOMAIN Part.variants[v].constants :
           /\ Part.variants[v].constants[k].flaw = "none"
           /\ OrdinalAt(Part, v, k) \in Part.smallest .. Part.largest
    BY <1>2, <1>5, CoveredMeans
  <2>2. Case.flaw = "none" /\ o \in Part.smallest .. Part.largest
    BY <1>1, <2>1
  <2>3. QED BY <1>3, <2>2 DEF InRange
<1>6. QED BY <1>4, <1>5

(* At the end, all constants have been passed.                             *)
LEMMA AllPassed ==
    ASSUME Inv, stack # <<>>, Top.variant = Len(Part.variants) + 1
    PROVE  \A v \in DOMAIN Part.variants : \A k \in DOMAIN Part.variants[v].constants :
              Passed(Part, Top, v, k)
<1>1. parts \in Records /\ Top.part \in DOMAIN parts /\ Part = parts[Top.part]
  BY AtTop
<1>2. DOMAIN Part.variants = 1 .. Len(Part.variants) /\ Len(Part.variants) \in Nat
  BY <1>1, PartRight
<1>3. QED BY <1>2 DEF Passed

LEMMA EndVerdict ==
    ASSUME Inv, stack # <<>>, Top.variant = Len(Part.variants) + 1, Clean(Part, Top)
    PROVE  Covered(Top.part) <=> Top.counter = Part.largest
<1> DEFINE p == Top.part
           all == Part.smallest .. Part.largest
<1>1. parts \in Records /\ p \in DOMAIN parts /\ Part = parts[p] /\ Counted(Part, Top)
  BY AtTop
<1>2. Part.smallest \in Int /\ Part.largest \in Int /\ Part.smallest <= Part.largest
  BY <1>1, PartRight
<1>3. IsFiniteSet(all) /\ Cardinality(all) = Part.largest - Part.smallest + 1
  BY <1>2, FS_Interval
<1>4. Top.used \in SUBSET all /\ Top.counter = Part.smallest - 1 + Cardinality(Top.used)
  BY <1>1 DEF Counted
<1>5. Cardinality(Top.used) \in Nat /\ (Cardinality(all) = Cardinality(Top.used) => all = Top.used)
  BY <1>3, <1>4, FS_Subset, FS_CardinalityType
<1>6. Top.counter = Part.largest <=> all = Top.used
  BY <1>2, <1>3, <1>4, <1>5
<1> HIDE DEF all
<1>7. /\ \A v \in DOMAIN Part.variants : \A k \in DOMAIN Part.variants[v].constants :
            Part.variants[v].constants[k].flaw = "none" /\ OrdinalAt(Part, v, k) \in Top.used
      /\ \A x \in Top.used :
            \E v \in DOMAIN Part.variants : \E k \in DOMAIN Part.variants[v].constants :
               OrdinalAt(Part, v, k) = x
      /\ \A v, w \in DOMAIN Part.variants :
         \A k \in DOMAIN Part.variants[v].constants, l \in DOMAIN Part.variants[w].constants :
            OrdinalAt(Part, v, k) = OrdinalAt(Part, w, l) => v = w /\ k = l
      /\ Part.flaw = "none"
  BY AllPassed DEF Clean
<1>8. ASSUME all = Top.used PROVE Covered(p)
  <2>1. /\ \A v \in DOMAIN Part.variants : \A k \in DOMAIN Part.variants[v].constants :
              Part.variants[v].constants[k].flaw = "none" /\ OrdinalAt(Part, v, k) \in all
        /\ \A o \in all :
              \E v \in DOMAIN Part.variants : \E k \in DOMAIN Part.variants[v].constants :
                 OrdinalAt(Part, v, k) = o
    BY <1>7, <1>8
  <2>2. \A v, w \in DOMAIN Part.variants : \A k \in DOMAIN Part.variants[v].constants :
        \A l \in DOMAIN Part.variants[w].constants :
           OrdinalAt(Part, v, k) = OrdinalAt(Part, w, l) /\ OrdinalAt(Part, v, k) \in all
              => v = w /\ k = l
    BY <1>7
  <2>3. Part.flaw = "none"
    BY <1>7
  <2> HIDE DEF p
  <2>4. QED BY <1>1, <2>1, <2>2, <2>3, CoveredMeans DEF all
<1>9. ASSUME Covered(p) PROVE all \subseteq Top.used
  <2>1. \A o \in all : \E v \in DOMAIN Part.variants :
           \E k \in DOMAIN Part.variants[v].constants : OrdinalAt(Part, v, k) = o
    BY <1>1, <1>9, CoveredMeans DEF all
  <2>2. QED BY <1>7, <2>1
<1>10. QED BY <1>4, <1>6, <1>8, <1>9

-----------------------------------------------------------------------------
(* The steps of resolveFieldList() once more, for the verdict.             *)

LEMMA BelowIsPart ==
    ASSUME Good(parts, stack), stack # <<>>
    PROVE  /\ Len(stack) \in Nat \ {0} /\ DOMAIN stack = 1 .. Len(stack)
           /\ Below \in Seq(Frames) /\ Len(Below) = Len(stack) - 1
           /\ DOMAIN Below = 1 .. Len(stack) - 1
           /\ \A k \in 1 .. Len(stack) - 1 : Below[k] = stack[k]
           /\ \A k \in DOMAIN stack : stack[k] \in Frames
<1>1. stack \in Seq(Frames) /\ Len(stack) \in Nat /\ Len(stack) > 0
  BY DEF Good
<1>2. Below \in Seq(Frames) /\ Len(Below) = Len(stack) - 1
      /\ \A k \in 1 .. Len(stack) - 1 : Below[k] = stack[k]
  <2> DEFINE n == Len(stack) - 1
  <2>1. n \in Int /\ 1 \in Int /\ \A k \in 1 .. n : 1 + k - 1 = k /\ stack[k] \in Frames
    BY <1>1
  <2>2. SubSeq(stack, 1, n) \in Seq(Frames)
        /\ Len(SubSeq(stack, 1, n)) = (IF 1 <= n THEN n - 1 + 1 ELSE 0)
        /\ \A k \in 1 .. n - 1 + 1 : SubSeq(stack, 1, n)[k] = stack[1 + k - 1]
    BY <2>1, SubSeqProperties
  <2>3. n >= 0
    BY <1>1
  <2>4. Below = SubSeq(stack, 1, n)
    BY DEF Below
  <2>5. \A k \in 1 .. n : SubSeq(stack, 1, n)[k] = stack[k]
    <3> HIDE DEF n
    <3>1. n - 1 + 1 = n
      BY <2>1
    <3>2. QED BY <2>1, <2>2, <3>1
  <2>6. Len(SubSeq(stack, 1, n)) = n
    <3> HIDE DEF n
    <3>1. QED BY <2>1, <2>2, <2>3
  <2>7. QED BY <2>2, <2>4, <2>5, <2>6
<1>3. QED BY <1>1, <1>2

(* The frame at the top is replaced, ...                                   *)
LEMMA Replaced ==
    ASSUME Good(parts, stack), stack # <<>>, NEW f \in Frames
    PROVE  LET calls == Append(Below, f)
           IN  /\ Len(calls) = Len(stack) /\ DOMAIN calls = DOMAIN stack /\ calls # <<>>
               /\ calls \in Seq(Frames)
               /\ \A k \in 1 .. Len(stack) - 1 : calls[k] = stack[k]
               /\ calls[Len(stack)] = f
<1> DEFINE calls == Append(Below, f)
           n == Len(stack)
<1>1. /\ n \in Nat \ {0} /\ Below \in Seq(Frames) /\ Len(Below) = n - 1
      /\ \A k \in 1 .. n - 1 : Below[k] = stack[k]
      /\ DOMAIN stack = 1 .. n
  BY BelowIsPart
<1>2. calls \in Seq(Frames) /\ Len(calls) = Len(Below) + 1 /\ calls[Len(Below) + 1] = f
      /\ \A k \in 1 .. Len(Below) : calls[k] = Below[k]
  BY <1>1
<1> HIDE DEF calls, n
<1>3. Len(calls) = n /\ DOMAIN calls = 1 .. n /\ calls # <<>>
  BY <1>1, <1>2
<1>4. QED BY <1>1, <1>2, <1>3 DEF calls, n

(* What is to be shown of a step, the variant parts being what they were.  *)
LEMMA CoveringNext ==
    ASSUME parts' = parts,
           \A k \in DOMAIN stack' : Clean(parts[stack'[k].part], stack'[k]),
           \A k \in 1 .. Len(stack') - 1 :
              /\ stack'[k].fields
              /\ InsideOf(stack'[k].part, stack'[k].variant) = stack'[k + 1].part,
           \A e \in errors' : ~Covered(e.part),
           \A p \in DOMAIN index' : Covered(p),
           errors' = {} =>
              /\ parts # <<>> => 1 \in DOMAIN index' \/ (stack' # <<>> /\ stack'[1].part = 1)
              /\ \A p \in DOMAIN index' : \A v \in DOMAIN parts[p].variants :
                    InsideOf(p, v) \in DOMAIN index' \cup {NoPart}
              /\ \A k \in DOMAIN stack' : \A v \in DOMAIN parts[stack'[k].part].variants :
                    v < stack'[k].variant
                       \/ (v = stack'[k].variant /\ stack'[k].fields /\ k = Len(stack')) =>
                    InsideOf(stack'[k].part, v) \in DOMAIN index' \cup {NoPart},
           pc' # "resolving" => stack' = <<>>
    PROVE  Covering'
<1>1. (\A k \in DOMAIN stack : Clean(parts[stack[k].part], stack[k]))'
  OBVIOUS
<1>2. Called(stack)'
  BY DEF Called, InsideOf
<1>3. ASSUME NEW p PROVE Covered(p)' <=> Covered(p)
  <2> DEFINE Those(o) == {at \in ConstantsOf(p) : ConstantAt(p, at).ordinal = o}
  <2>1. ConstantsOf(p)' = ConstantsOf(p)
    BY DEF ConstantsOf
  <2>2. \A at : ConstantAt(p, at)' = ConstantAt(p, at)
    BY DEF ConstantAt
  <2>3. ASSUME NEW o PROVE Those(o)' = Those(o)
    BY <2>1, <2>2
  <2>4. Covered(p) <=>
          /\ parts[p].flaw = "none"
          /\ \A at \in ConstantsOf(p) :
                /\ ConstantAt(p, at).flaw = "none"
                /\ ConstantAt(p, at).ordinal \in parts[p].smallest .. parts[p].largest
          /\ \A o \in parts[p].smallest .. parts[p].largest : Cardinality(Those(o)) = 1
    BY DEF Covered
  <2>5. Covered(p)' <=>
          /\ parts'[p].flaw = "none"
          /\ \A at \in ConstantsOf(p)' :
                /\ ConstantAt(p, at)'.flaw = "none"
                /\ ConstantAt(p, at)'.ordinal \in parts'[p].smallest .. parts'[p].largest
          /\ \A o \in parts'[p].smallest .. parts'[p].largest : Cardinality(Those(o)') = 1
    BY DEF Covered
  <2> HIDE DEF Those
  <2>6. QED BY <2>1, <2>2, <2>3, <2>4, <2>5
<1>4. (\A e \in errors : ~Covered(e.part))' /\ (\A p \in DOMAIN index : Covered(p))'
  <2>1. \A e \in errors' : ~Covered(e.part)'
    BY <1>3
  <2>2. \A p \in DOMAIN index' : Covered(p)'
    BY <1>3
  <2>3. QED BY <2>1, <2>2
<1>5. (errors = {} => Complete)'
  BY DEF Complete, InsideOf
<1>6. QED BY <1>1, <1>2, <1>4, <1>5 DEF Covering

(* ... and nothing about the rest changes with it.                         *)
LEMMA CoveringOnReplaced ==
    ASSUME Inv, Covering, stack # <<>>, NEW f \in Frames, Clean(Part, f), f.part = Top.part,
           stack' = Append(Below, f), UNCHANGED <<parts, index, pc>>, pc = "resolving",
           \A e \in errors' : ~Covered(e.part),
           errors' = {} =>
              /\ errors = {}
              /\ \A v \in DOMAIN Part.variants :
                    v < f.variant \/ (v = f.variant /\ f.fields) =>
                       InsideOf(Top.part, v) \in DOMAIN index \cup {NoPart}
    PROVE  Covering'
<1> DEFINE n == Len(stack)
<1>1. /\ Len(stack') = n /\ DOMAIN stack' = DOMAIN stack /\ stack' # <<>>
      /\ \A k \in 1 .. n - 1 : stack'[k] = stack[k]
      /\ stack'[n] = f /\ n \in Nat \ {0} /\ DOMAIN stack = 1 .. n /\ Top = stack[n]
  BY Replaced, BelowIsPart DEF Inv, Top
<1>2. parts \in Records /\ Top.part \in DOMAIN parts /\ Part = parts[Top.part]
  BY AtTop
<1>3. /\ \A k \in DOMAIN stack : Clean(parts[stack[k].part], stack[k])
      /\ \A k \in 1 .. n - 1 :
            stack[k].fields /\ InsideOf(stack[k].part, stack[k].variant) = stack[k + 1].part
      /\ \A p \in DOMAIN index : Covered(p)
      /\ errors = {} => Complete
  BY DEF Covering, Called
<1> HIDE DEF n
<1>4. \A k \in DOMAIN stack' : (k \in 1 .. n - 1 /\ stack'[k] = stack[k]) \/ k = n
  BY <1>1
<1>5. \A k \in DOMAIN stack' : stack'[k].part = stack[k].part
  BY <1>1, <1>4
<1>6. ASSUME NEW k \in DOMAIN stack' PROVE Clean(parts[stack'[k].part], stack'[k])
  <2>1. CASE k = n
    BY <1>1, <1>2, <2>1
  <2>2. CASE k # n
    BY <1>1, <1>3, <1>4, <2>2
  <2>3. QED BY <2>1, <2>2
<1>7. ASSUME NEW k \in 1 .. n - 1
      PROVE  stack'[k].fields
             /\ InsideOf(stack'[k].part, stack'[k].variant) = stack'[k + 1].part
  <2>1. stack[k].fields /\ InsideOf(stack[k].part, stack[k].variant) = stack[k + 1].part
    BY <1>3
  <2>2. k + 1 \in DOMAIN stack'
    BY <1>1
  <2>3. stack'[k] = stack[k] /\ stack'[k + 1].part = stack[k + 1].part
    BY <1>1, <1>5, <2>2
  <2>4. QED BY <2>1, <2>3
<1>8. ASSUME errors' = {}, NEW k \in DOMAIN stack',
             NEW v \in DOMAIN parts[stack'[k].part].variants,
             v < stack'[k].variant \/ (v = stack'[k].variant /\ stack'[k].fields /\ k = n)
      PROVE  InsideOf(stack'[k].part, v) \in DOMAIN index \cup {NoPart}
  <2>1. CASE k = n
    BY <1>1, <1>2, <1>8, <2>1
  <2>2. CASE k # n
    <3>1. stack'[k] = stack[k] /\ k \in DOMAIN stack /\ v < stack[k].variant
      BY <1>1, <1>4, <1>8, <2>2
    <3>2. Complete
      BY <1>3, <1>8
    <3>3. QED BY <1>8, <3>1, <3>2 DEF Complete
  <2>3. QED BY <2>1, <2>2
<1>9. 1 \in DOMAIN stack
  BY <1>1
<1>10. ASSUME errors' = {}
       PROVE  /\ parts # <<>> => 1 \in DOMAIN index \/ (stack' # <<>> /\ stack'[1].part = 1)
              /\ \A p \in DOMAIN index : \A v \in DOMAIN parts[p].variants :
                    InsideOf(p, v) \in DOMAIN index \cup {NoPart}
  <2>1. Complete
    BY <1>3, <1>10
  <2>2. stack'[1].part = stack[1].part
    BY <1>1, <1>5, <1>9
  <2>3. QED BY <1>1, <2>1, <2>2 DEF Complete
<1>11. parts' = parts /\ index' = index /\ (pc' # "resolving" => stack' = <<>>)
  OBVIOUS
<1>12. \A k \in 1 .. Len(stack') - 1 :
          /\ stack'[k].fields
          /\ InsideOf(stack'[k].part, stack'[k].variant) = stack'[k + 1].part
  BY <1>1, <1>7
<1>13. \A p \in DOMAIN index' : Covered(p)
  BY <1>3, <1>11
<1>14. errors' = {} =>
          /\ parts # <<>> => 1 \in DOMAIN index' \/ (stack' # <<>> /\ stack'[1].part = 1)
          /\ \A p \in DOMAIN index' : \A v \in DOMAIN parts[p].variants :
                InsideOf(p, v) \in DOMAIN index' \cup {NoPart}
  BY <1>10, <1>11
<1>15. errors' = {} =>
          \A k \in DOMAIN stack' : \A v \in DOMAIN parts[stack'[k].part].variants :
             v < stack'[k].variant
                \/ (v = stack'[k].variant /\ stack'[k].fields /\ k = Len(stack')) =>
             InsideOf(stack'[k].part, v) \in DOMAIN index' \cup {NoPart}
  BY <1>1, <1>8, <1>11
<1>16. QED BY <1>6, <1>11, <1>12, <1>13, <1>14, <1>15, CoveringNext

(* The top is removed; without errors, its part must be set.               *)
LEMMA CoveringOnPopped ==
    ASSUME Inv, Covering, stack # <<>>, stack' = Below, parts' = parts, pc' = pc,
           pc = "resolving",
           \A e \in errors' : ~Covered(e.part),
           \A p \in DOMAIN index' : Covered(p),
           errors' = {} =>
              /\ errors = {} /\ DOMAIN index' = {Top.part} \cup DOMAIN index
              /\ \A v \in DOMAIN Part.variants : InsideOf(Top.part, v) \in DOMAIN index \cup {NoPart}
    PROVE  Covering'
<1> DEFINE n == Len(stack)
<1>1. /\ n \in Nat \ {0} /\ DOMAIN stack = 1 .. n
      /\ Len(stack') = n - 1 /\ DOMAIN stack' = 1 .. n - 1
      /\ \A k \in 1 .. n - 1 : stack'[k] = stack[k]
      /\ Top = stack[n] /\ stack # <<>>
  BY BelowIsPart DEF Inv, Top
<1>2. /\ \A k \in DOMAIN stack : Clean(parts[stack[k].part], stack[k])
      /\ \A k \in 1 .. n - 1 :
            stack[k].fields /\ InsideOf(stack[k].part, stack[k].variant) = stack[k + 1].part
      /\ errors = {} => Complete
  BY DEF Covering, Called
<1>3. Part = parts[Top.part]
  BY DEF Part
<1>4. \A k \in 1 .. n - 1 : GoodFrame(parts, stack[k])
  BY <1>1 DEF Inv, Good
<1> HIDE DEF n
<1>5. \A k \in DOMAIN stack' : Clean(parts[stack'[k].part], stack'[k])
  BY <1>1, <1>2
<1>6. ASSUME NEW k \in 1 .. Len(stack') - 1
      PROVE  stack'[k].fields
             /\ InsideOf(stack'[k].part, stack'[k].variant) = stack'[k + 1].part
  <2>1. k \in 1 .. n - 1 /\ k + 1 \in 1 .. n - 1
    BY <1>1
  <2>2. stack'[k] = stack[k] /\ stack'[k + 1] = stack[k + 1]
    BY <1>1, <2>1
  <2>3. QED BY <1>2, <2>1, <2>2
<1>7. ASSUME errors' = {}
      PROVE  /\ parts # <<>> => 1 \in DOMAIN index' \/ (stack' # <<>> /\ stack'[1].part = 1)
             /\ \A p \in DOMAIN index' : \A v \in DOMAIN parts[p].variants :
                   InsideOf(p, v) \in DOMAIN index' \cup {NoPart}
             /\ \A k \in DOMAIN stack' : \A v \in DOMAIN parts[stack'[k].part].variants :
                   v < stack'[k].variant
                      \/ (v = stack'[k].variant /\ stack'[k].fields /\ k = Len(stack')) =>
                   InsideOf(stack'[k].part, v) \in DOMAIN index' \cup {NoPart}
  <2>1. Complete /\ DOMAIN index' = {Top.part} \cup DOMAIN index
    BY <1>2, <1>7
  <2>2. ASSUME parts # <<>>
        PROVE  1 \in DOMAIN index' \/ (stack' # <<>> /\ stack'[1].part = 1)
    <3>1. CASE 1 \in DOMAIN index
      BY <2>1, <3>1
    <3>2. CASE stack[1].part = 1 /\ n = 1
      BY <1>1, <2>1, <3>2
    <3>3. CASE stack[1].part = 1 /\ n # 1
      <4>1. 1 \in 1 .. n - 1 /\ stack' # <<>>
        BY <1>1, <3>3
      <4>2. QED BY <1>1, <3>3, <4>1
    <3>4. QED BY <2>1, <2>2, <3>1, <3>2, <3>3 DEF Complete
  <2>3. ASSUME NEW p \in DOMAIN index', NEW v \in DOMAIN parts[p].variants
        PROVE  InsideOf(p, v) \in DOMAIN index' \cup {NoPart}
    <3>1. CASE p = Top.part
      BY <1>3, <1>7, <2>1, <3>1
    <3>2. CASE p # Top.part
      BY <2>1, <3>2 DEF Complete
    <3>3. QED BY <3>1, <3>2
  <2>4. ASSUME NEW k \in DOMAIN stack', NEW v \in DOMAIN parts[stack'[k].part].variants,
               v < stack'[k].variant
                  \/ (v = stack'[k].variant /\ stack'[k].fields /\ k = Len(stack'))
        PROVE  InsideOf(stack'[k].part, v) \in DOMAIN index' \cup {NoPart}
    <3>1. k \in 1 .. n - 1 /\ stack'[k] = stack[k] /\ k \in DOMAIN stack
      BY <1>1
    <3>2. CASE v < stack[k].variant
      <4>1. InsideOf(stack[k].part, v) \in DOMAIN index \cup {NoPart}
        BY <2>1, <2>4, <3>1, <3>2 DEF Complete
      <4>2. QED BY <2>1, <3>1, <4>1
    <3>3. CASE v = stack[k].variant /\ k = Len(stack')
      <4>1. k + 1 = n
        BY <1>1, <3>3
      <4>2. InsideOf(stack[k].part, v) = Top.part
        BY <1>1, <1>2, <3>1, <3>3, <4>1
      <4>3. QED BY <2>1, <3>1, <4>2
    <3>4. QED BY <2>4, <3>1, <3>2, <3>3
  <2>5. QED BY <2>2, <2>3, <2>4
<1>8. QED BY <1>5, <1>6, <1>7, CoveringNext

(* A variant part is given up for a reason.                                *)
LEMMA CoveringOnGiveUp ==
    ASSUME Inv, Covering, stack # <<>>, NEW code, GiveUp(code), ~Covered(Top.part),
           parts' = parts, pc' = pc, pc = "resolving"
    PROVE  Covering'
<1>1. stack' = Below /\ index' = index /\ errors' = errors \cup {Error(code, Top.part)}
  BY DEF GiveUp
<1>2. Error(code, Top.part).part = Top.part
  BY DEF Error
<1>3. \A e \in errors' : ~Covered(e.part)
  BY <1>1, <1>2 DEF Covering
<1>4. \A p \in DOMAIN index' : Covered(p)
  BY <1>1 DEF Covering
<1>5. errors' # {}
  BY <1>1
<1>6. QED BY <1>1, <1>3, <1>4, <1>5, CoveringOnPopped

(* A call is made for the fields of a variant.                             *)
LEMMA CoveringOnCalled ==
    ASSUME Inv, Covering, stack # <<>>, NEW f \in Frames, Clean(Part, f), f.part = Top.part,
           f.fields, f.variant = Top.variant, NEW q \in DOMAIN parts,
           InsideOf(Top.part, Top.variant) = q, parts[q].flaw = "none",
           stack' = Append(Append(Below, f), Frame(q)),
           UNCHANGED <<parts, index, errors, pc>>, pc = "resolving"
    PROVE  Covering'
<1> DEFINE n == Len(stack)
           calls == Append(Below, f)
           g == Frame(q)
<1>1. /\ calls \in Seq(Frames) /\ Len(calls) = n /\ DOMAIN calls = 1 .. n
      /\ \A k \in 1 .. n - 1 : calls[k] = stack[k]
      /\ calls[n] = f /\ n \in Nat \ {0} /\ DOMAIN stack = 1 .. n /\ Top = stack[n]
  BY Replaced, BelowIsPart DEF Inv, Top
<1>2. g \in Frames /\ g.part = q /\ g.variant = 1 /\ g.fields = FALSE
  BY NewFrame DEF Inv, Frame
<1> HIDE DEF calls, n, g
<1>3. /\ Len(Append(calls, g)) = n + 1 /\ DOMAIN Append(calls, g) = 1 .. n + 1
      /\ Append(calls, g)[n + 1] = g /\ \A k \in 1 .. n : Append(calls, g)[k] = calls[k]
  BY <1>1, <1>2
<1>4. /\ Len(stack') = n + 1 /\ DOMAIN stack' = 1 .. n + 1 /\ stack' # <<>>
      /\ stack'[n + 1] = g /\ stack'[n] = f /\ \A k \in 1 .. n - 1 : stack'[k] = stack[k]
  <2>1. stack' = Append(calls, g)
    BY DEF calls, g
  <2>2. n \in 1 .. n /\ \A k \in 1 .. n - 1 : k \in 1 .. n
    BY <1>1
  <2>3. Append(calls, g) # <<>>
    BY <1>1, <1>3
  <2>4. QED BY <1>1, <1>3, <2>1, <2>2, <2>3
<1>5. parts \in Records /\ Top.part \in DOMAIN parts /\ Part = parts[Top.part]
  BY AtTop
<1>6. /\ \A k \in DOMAIN stack : Clean(parts[stack[k].part], stack[k])
      /\ \A k \in 1 .. n - 1 :
            stack[k].fields /\ InsideOf(stack[k].part, stack[k].variant) = stack[k + 1].part
      /\ \A e \in errors : ~Covered(e.part)
      /\ \A p \in DOMAIN index : Covered(p)
      /\ errors = {} => Complete
  BY DEF Covering, Called, n
<1>7. \A k \in DOMAIN stack' : k = n + 1 \/ k = n \/ (k \in 1 .. n - 1 /\ stack'[k] = stack[k])
  BY <1>1, <1>4
<1>8. \A k \in 1 .. n : stack'[k].part = stack[k].part
  BY <1>1, <1>4, <1>7
<1>9. ASSUME NEW k \in DOMAIN stack' PROVE Clean(parts[stack'[k].part], stack'[k])
  <2>1. CASE k = n + 1
    BY <1>2, <1>4, <1>5, <2>1, CleanFrame DEF g
  <2>2. CASE k = n
    BY <1>4, <1>5, <2>2
  <2>3. CASE k \in 1 .. n - 1
    BY <1>1, <1>4, <1>6, <2>3
  <2>4. QED BY <1>7, <2>1, <2>2, <2>3
<1>10. ASSUME NEW k \in 1 .. n
       PROVE  stack'[k].fields
              /\ InsideOf(stack'[k].part, stack'[k].variant) = stack'[k + 1].part
  <2>1. CASE k = n
    BY <1>2, <1>4, <2>1
  <2>2. CASE k # n
    <3>1. k \in 1 .. n - 1 /\ k + 1 \in 1 .. n
      BY <1>1, <2>2
    <3>2. stack'[k] = stack[k] /\ stack'[k + 1].part = stack[k + 1].part
      BY <1>4, <1>8, <3>1
    <3>3. QED BY <1>6, <3>1, <3>2
  <2>3. QED BY <2>1, <2>2
<1>11. ASSUME errors' = {}, NEW k \in DOMAIN stack',
              NEW v \in DOMAIN parts[stack'[k].part].variants,
              v < stack'[k].variant \/ (v = stack'[k].variant /\ stack'[k].fields /\ k = n + 1)
       PROVE  InsideOf(stack'[k].part, v) \in DOMAIN index \cup {NoPart}
  <2>1. Complete
    BY <1>6, <1>11
  <2>2. CASE k = n + 1
    <3>1. v \in Nat \ {0}
      BY <1>2, <1>4, <1>5, <1>11, <2>2, PartRight
    <3>2. v < 1
      BY <1>2, <1>4, <1>11, <2>2
    <3>3. QED BY <3>1, <3>2
  <2>3. CASE k # n + 1
    <3>1. k \in DOMAIN stack /\ stack'[k].part = stack[k].part
          /\ stack'[k].variant = stack[k].variant
      BY <1>1, <1>4, <1>7, <1>8, <2>3
    <3>2. v < stack[k].variant /\ v \in DOMAIN parts[stack[k].part].variants
      BY <1>11, <2>3, <3>1
    <3>3. InsideOf(stack[k].part, v) \in DOMAIN index \cup {NoPart}
      BY <2>1, <3>1, <3>2 DEF Complete
    <3>4. QED BY <3>1, <3>3
  <2>4. QED BY <2>2, <2>3
<1>12. ASSUME errors' = {}
       PROVE  /\ parts # <<>> => 1 \in DOMAIN index \/ (stack' # <<>> /\ stack'[1].part = 1)
              /\ \A p \in DOMAIN index : \A v \in DOMAIN parts[p].variants :
                    InsideOf(p, v) \in DOMAIN index \cup {NoPart}
  <2>1. Complete
    BY <1>6, <1>12
  <2>2. stack'[1].part = stack[1].part
    BY <1>1, <1>8
  <2>3. QED BY <1>4, <2>1, <2>2 DEF Complete
<1>13. Len(stack') - 1 = n
  BY <1>1, <1>4
<1>14. \A k \in 1 .. Len(stack') - 1 :
          stack'[k].fields /\ InsideOf(stack'[k].part, stack'[k].variant) = stack'[k + 1].part
  BY <1>10, <1>13
<1>15. errors' = {} => \A k \in DOMAIN stack' : \A v \in DOMAIN parts[stack'[k].part].variants :
          v < stack'[k].variant \/ (v = stack'[k].variant /\ stack'[k].fields /\ k = Len(stack'))
             => InsideOf(stack'[k].part, v) \in DOMAIN index \cup {NoPart}
  BY <1>4, <1>11, SMTT(20)
<1>16. UNCHANGED <<parts, index, errors, pc>> /\ pc = "resolving"
  OBVIOUS
<1>17. QED BY <1>6, <1>9, <1>12, <1>14, <1>15, <1>16, CoveringNext

LEMMA CoveringOnConstant ==
    ASSUME Inv, Covering, ResolveCaseConstant
    PROVE  Covering'
<1>1. /\ AtConstant /\ stack # <<>> /\ UNCHANGED <<parts, pc>> /\ pc = "resolving"
  BY DEF ResolveCaseConstant, AtConstant, InVariant
<1>2. Clean(Part, Top)
  BY <1>1, BelowIsPart DEF Inv, Covering, Top, Part
<1>3. ASSUME NEW code, GiveUp(code),
             \/ Case.flaw # "none" \/ ~InRange(Case.ordinal) \/ Case.ordinal \in Top.used
      PROVE  Covering'
  BY <1>1, <1>2, <1>3, WrongConstant, CoveringOnGiveUp
<1>4. CASE Case.flaw # "none" /\ GiveUp(ConstantError(Case.flaw))
  BY <1>3, <1>4
<1>5. CASE ~InRange(Case.ordinal) /\ GiveUp("OUT_OF_RANGE")
  BY <1>3, <1>5
<1>6. CASE Case.ordinal \in Top.used /\ GiveUp("DUPLICATE_CASE")
  BY <1>3, <1>6
<1>7. CASE /\ Case.flaw = "none" /\ InRange(Case.ordinal) /\ Case.ordinal \notin Top.used
           /\ stack' = Append(Below,
                 [Top EXCEPT !.used = @ \cup {Case.ordinal},
                             !.counter = Incremented(@), !.constant = @ + 1])
           /\ UNCHANGED <<index, errors>>
  <2> DEFINE f == [Top EXCEPT !.used = @ \cup {Case.ordinal},
                              !.counter = Incremented(@), !.constant = @ + 1]
  <2>1. f \in Frames
    BY <1>1, <1>7, UsedConstant
  <2>2. Top \in Frames
    BY <1>1, AtTop
  <2>3. /\ f.part = Top.part /\ f.variant = Top.variant /\ f.constant = Top.constant + 1
        /\ f.used = Top.used \cup {Case.ordinal} /\ f.fields = Top.fields
    BY <2>2 DEF Frames
  <2> HIDE DEF f
  <2>4. Clean(Part, f)
    BY <1>1, <1>2, <1>7, <2>1, <2>3, CleanUsed
  <2>5. ASSUME errors = {}
        PROVE  \A v \in DOMAIN Part.variants :
                  v < f.variant \/ (v = f.variant /\ f.fields) =>
                     InsideOf(Top.part, v) \in DOMAIN index \cup {NoPart}
    <3>1. Len(stack) \in DOMAIN stack /\ Top = stack[Len(stack)] /\ Part = parts[Top.part]
      BY <1>1, BelowIsPart DEF Inv, Top, Part
    <3>2. QED BY <2>3, <2>5, <3>1 DEF Covering, Complete
  <2>6. stack' = Append(Below, f)
    BY <1>7 DEF f
  <2>7. \A e \in errors : ~Covered(e.part)
    BY DEF Covering
  <2>8. QED BY <1>1, <1>7, <2>1, <2>3, <2>4, <2>5, <2>6, <2>7, CoveringOnReplaced
<1>8. QED BY <1>4, <1>5, <1>6, <1>7 DEF ResolveCaseConstant

(* All that is inside the variants gone past has been dealt with.          *)
LEMMA InsideDone ==
    ASSUME Inv, Covering, stack # <<>>, errors = {}, NEW v \in DOMAIN Part.variants,
           v < Top.variant \/ (v = Top.variant /\ Top.fields)
    PROVE  InsideOf(Top.part, v) \in DOMAIN index \cup {NoPart}
<1>1. Len(stack) \in DOMAIN stack /\ Top = stack[Len(stack)] /\ Part = parts[Top.part]
  BY BelowIsPart DEF Inv, Top, Part
<1>2. QED BY <1>1 DEF Covering, Complete

LEMMA TopClean ==
    ASSUME Inv, Covering, stack # <<>>
    PROVE  Clean(Part, Top)
BY BelowIsPart DEF Inv, Covering, Top, Part

LEMMA CoveringOnFields ==
    ASSUME Inv, Covering, ResolveVariantFields
    PROVE  Covering'
<1> DEFINE f == [Top EXCEPT !.fields = TRUE]
           calls == Append(Below, f)
           a == Top.variant
           q == Variant.inside
<1>1. /\ stack # <<>> /\ UNCHANGED <<parts, index, pc>> /\ pc = "resolving"
      /\ a \in DOMAIN Part.variants /\ q = InsideOf(Top.part, a)
      /\ \/ q = NoPart /\ stack' = calls /\ UNCHANGED errors
         \/ q # NoPart /\ Begin(q, calls)
  BY DEF ResolveVariantFields, InVariant, Variant, InsideOf, Part
<1>2. /\ parts \in Records /\ Top.part \in DOMAIN parts /\ Part = parts[Top.part]
      /\ Top \in Frames
  BY <1>1, AtTop
<1>3. /\ f \in Frames /\ f.part = Top.part /\ f.variant = a /\ f.constant = Top.constant
      /\ f.used = Top.used /\ f.fields = TRUE
  BY <1>2 DEF Frames
<1> HIDE DEF f
<1>4. Clean(Part, f)
  BY <1>1, <1>3, TopClean, CleanSame DEF Passed
<1>5. \A e \in errors : ~Covered(e.part)
  BY DEF Covering
<1>6. \A v \in DOMAIN Part.variants : v \in Nat
  BY <1>2, PartRight
<1>7. CASE q = NoPart /\ stack' = calls /\ UNCHANGED errors
  <2>1. ASSUME errors = {}, NEW v \in DOMAIN Part.variants, v < a \/ v = a
        PROVE  InsideOf(Top.part, v) \in DOMAIN index \cup {NoPart}
    <3>1. CASE v < a
      BY <1>1, <2>1, <3>1, InsideDone
    <3>2. CASE v = a
      BY <1>1, <1>7, <3>2
    <3>3. QED BY <2>1, <3>1, <3>2
  <2>2. QED BY <1>1, <1>3, <1>4, <1>5, <1>7, <2>1, CoveringOnReplaced
<1>8. CASE q # NoPart /\ Begin(q, calls)
  <2>1. q \in DOMAIN parts
    BY <1>1, <1>2, <1>8, PartsRight DEF InsideOf
  <2>2. CASE parts[q].flaw = "none"
    <3>1. stack' = Append(calls, Frame(q)) /\ UNCHANGED errors
      BY <1>8, <2>2 DEF Begin
    <3>2. QED BY <1>1, <1>3, <1>4, <2>1, <2>2, <3>1, CoveringOnCalled
  <2>3. CASE parts[q].flaw # "none"
    <3>1. stack' = calls /\ errors' = errors \cup {Error(TagError(parts[q].flaw), q)}
      BY <1>8, <2>3 DEF Begin
    <3>2. ~Covered(q)
      BY <2>3 DEF Covered
    <3>3. \A e \in errors' : ~Covered(e.part)
      BY <1>5, <3>1, <3>2 DEF Error
    <3>4. errors' # {}
      BY <3>1
    <3>5. QED BY <1>1, <1>3, <1>4, <3>1, <3>3, <3>4, CoveringOnReplaced
  <2>4. QED BY <2>2, <2>3
<1>9. QED BY <1>1, <1>7, <1>8

LEMMA CoveringOnAdded ==
    ASSUME Inv, Covering, AddVariant
    PROVE  Covering'
<1> DEFINE f == [Top EXCEPT !.index = Indexed(Variant.constants, Top.variant, @),
                            !.variant = @ + 1, !.constant = 1, !.fields = FALSE]
           a == Top.variant
           D == DOMAIN Part.variants
           At(v) == DOMAIN Part.variants[v].constants
<1>1. /\ stack # <<>> /\ UNCHANGED <<parts, index, errors, pc>> /\ pc = "resolving"
      /\ InVariant /\ Top.fields /\ a \in D /\ stack' = Append(Below, f)
  BY DEF AddVariant, InVariant
<1>2. /\ parts \in Records /\ Top.part \in DOMAIN parts /\ Part = parts[Top.part]
      /\ Top \in Frames /\ Placed(Part, Top)
  BY <1>1, AtTop
<1>3. f \in Frames
  BY <1>1, AddedVariant
<1>4. /\ f.part = Top.part /\ f.variant = a + 1 /\ f.constant = 1
      /\ f.used = Top.used /\ f.fields = FALSE
  BY <1>2 DEF Frames
<1>5. /\ D \subseteq Nat
      /\ \A v \in D : At(v) = 1 .. Len(Part.variants[v].constants)
                      /\ Len(Part.variants[v].constants) \in Nat
  BY <1>2, PartRight, ConstantsRight
<1>6. Top.constant = Len(Part.variants[a].constants) + 1
  BY <1>1, <1>2 DEF Placed
<1> HIDE DEF f
<1>7. ASSUME NEW v \in D, NEW k \in At(v)
      PROVE  Passed(Part, f, v, k) <=> Passed(Part, Top, v, k)
  <2>1. v \in Nat /\ a \in Nat /\ k \in 1 .. Len(Part.variants[v].constants)
        /\ Len(Part.variants[v].constants) \in Nat
    BY <1>1, <1>5
  <2>2. Passed(Part, Top, v, k) <=> v < a \/ (v = a /\ k < Top.constant)
    BY DEF Passed
  <2>3. Passed(Part, f, v, k) <=> v < a + 1 \/ (v = a + 1 /\ k < 1)
    BY <1>4 DEF Passed
  <2>4. v = a => k < Top.constant
    BY <1>6, <2>1
  <2> HIDE DEF a
  <2>5. v < a + 1 <=> v < a \/ v = a
    BY <2>1
  <2>6. ~(k < 1)
    BY <2>1
  <2>7. QED BY <2>2, <2>3, <2>4, <2>5, <2>6
<1>8. Clean(Part, f)
  BY <1>1, <1>4, <1>7, TopClean, CleanSame
<1>9. ASSUME errors = {}, NEW v \in D, v < a + 1
      PROVE  InsideOf(Top.part, v) \in DOMAIN index \cup {NoPart}
  <2>1. v < a \/ v = a
    <3>1. v \in Nat /\ a \in Nat
      BY <1>1, <1>5
    <3> HIDE DEF a
    <3>2. QED BY <1>9, <3>1
  <2>2. QED BY <1>1, <1>9, <2>1, InsideDone
<1>10. \A e \in errors : ~Covered(e.part)
  BY DEF Covering
<1>11. QED BY <1>1, <1>3, <1>4, <1>8, <1>9, <1>10, CoveringOnReplaced

LEMMA CoveringOnFinished ==
    ASSUME Inv, Covering, FinishVariantPart
    PROVE  Covering'
<1>1. /\ stack # <<>> /\ UNCHANGED <<parts, pc>> /\ pc = "resolving"
      /\ Top.variant = Len(Part.variants) + 1
  BY DEF FinishVariantPart
<1>2. Covered(Top.part) <=> Top.counter = Part.largest
  BY <1>1, TopClean, EndVerdict
<1>3. CASE Top.counter # Part.largest /\ GiveUp("MISSING_CASE")
  BY <1>1, <1>2, <1>3, CoveringOnGiveUp
<1>4. CASE /\ Top.counter = Part.largest
           /\ index' = [p \in {Top.part} \cup DOMAIN index |->
                           IF p = Top.part THEN Top.index ELSE index[p]]
           /\ stack' = Below
           /\ UNCHANGED errors
  <2>1. DOMAIN index' = {Top.part} \cup DOMAIN index
    BY <1>4
  <2>2. \A p \in DOMAIN index' : Covered(p)
    BY <1>2, <1>4, <2>1 DEF Covering
  <2>3. \A e \in errors' : ~Covered(e.part)
    BY <1>4 DEF Covering
  <2>4. ASSUME errors = {}, NEW v \in DOMAIN Part.variants
        PROVE  InsideOf(Top.part, v) \in DOMAIN index \cup {NoPart}
    <3>1. v < Top.variant
      BY <1>1, AtTop, PartRight
    <3>2. QED BY <1>1, <2>4, <3>1, InsideDone
  <2>5. QED BY <1>1, <1>4, <2>1, <2>2, <2>3, <2>4, CoveringOnPopped
<1>5. QED BY <1>3, <1>4 DEF FinishVariantPart

LEMMA InitCovering == Init => Covering
<1> SUFFICES ASSUME Init PROVE Covering
  OBVIOUS
<1>1. Inv
  BY InitInv
<1>2. /\ DOMAIN parts = 1 .. Len(parts) /\ Len(parts) \in Nat /\ parts \in Records
  BY <1>1, PartsRight DEF Inv
<1>3. DOMAIN index = {} /\ pc = "resolving"
  BY DEF Init
<1>4. CASE stack = <<>>
  <2>1. \A e \in errors : ~Covered(e.part)
    BY DEF Init, Error, Covered
  <2>2. errors = {} => parts = <<>>
    BY <1>4 DEF Init
  <2>3. Len(stack) = 0 /\ DOMAIN stack = {}
    BY <1>4
  <2>4. QED BY <1>3, <2>1, <2>2, <2>3 DEF Covering, Called, Complete
<1>5. CASE stack # <<>>
  <2>1. parts # <<>> /\ parts[1].flaw = "none" /\ stack = <<Frame(1)>> /\ errors = {}
    BY <1>5 DEF Init
  <2>2. Len(stack) = 1 /\ DOMAIN stack = {1} /\ stack[1] = Frame(1)
    BY <2>1
  <2>3. Frame(1).part = 1 /\ Frame(1).variant = 1 /\ Frame(1).fields = FALSE
    BY DEF Frame
  <2>4. 1 \in DOMAIN parts
    BY <1>1, <2>2, <2>3 DEF Inv, Good, GoodFrame
  <2>5. Clean(parts[1], Frame(1))
    BY <1>2, <2>1, <2>4, CleanFrame
  <2>6. \A v \in DOMAIN parts[1].variants : ~(v < 1)
    BY <1>2, <2>4, PartRight
  <2>7. Called(stack)
    BY <2>2 DEF Called
  <2>8. Complete
    BY <1>3, <2>1, <2>2, <2>3, <2>6 DEF Complete
  <2>9. QED BY <1>3, <2>1, <2>2, <2>3, <2>5, <2>7, <2>8 DEF Covering
<1>6. QED BY <1>4, <1>5

LEMMA NextCovering == Inv /\ Covering /\ [Next]_vars => Covering'
<1> SUFFICES ASSUME Inv, Covering, [Next]_vars PROVE Covering'
  OBVIOUS
<1>1. CASE ResolveCaseConstant \/ ResolveVariantFields \/ AddVariant \/ FinishVariantPart
  BY <1>1, CoveringOnConstant, CoveringOnFields, CoveringOnAdded, CoveringOnFinished
<1>2. CASE StartCall \/ RejectCaseConstant \/ FollowCaseConstant \/ EndCall \/ Done
           \/ UNCHANGED vars
  <2>1. UNCHANGED <<parts, stack, index, errors>>
    BY <1>2 DEF StartCall, RejectCaseConstant, FollowCaseConstant, EndCall, Done, vars, resolving
  <2>2. pc' # "resolving" => stack = <<>>
    BY <1>2 DEF StartCall, RejectCaseConstant, FollowCaseConstant, EndCall, Done, vars, Covering
  <2>3. QED BY <2>1, <2>2, CoveringNext DEF Covering, Called, Complete
<1>3. QED BY <1>1, <1>2 DEF Next

LEMMA CoveringInvariant == Spec => []Covering
<1>1. QED BY InitCovering, NextCovering, Invariant, PTL DEF Spec

-----------------------------------------------------------------------------
(* A variant part that was not set would have to be inside another one.    *)

LEMMA Minimum ==
    ASSUME NEW T, T \subseteq Nat, T # {}
    PROVE  \E n \in T : \A m \in T : n <= m
<1> DEFINE R == OpToRel(<, Nat)
<1>1. IsWellFoundedOn(R, Nat)
  BY NatLessThanWellFounded
<1>2. PICK x \in T : \A y \in T : ~(<<y, x>> \in R)
  BY <1>1, WFMin
<1>3. \A a, b \in Nat : <<a, b>> \in R <=> a < b
  BY DEF OpToRel
<1> HIDE DEF R
<1>4. ASSUME NEW m \in T PROVE x <= m
  <2>1. ~(<<m, x>> \in R) /\ m \in Nat /\ x \in Nat
    BY <1>2
  <2>2. ~(m < x)
    BY <1>3, <2>1
  <2>3. QED BY <2>1, <2>2
<1>5. QED BY <1>4

LEMMA AllSet ==
    ASSUME Inv, Complete, stack = <<>>
    PROVE  DOMAIN parts \subseteq DOMAIN index
<1> DEFINE T == DOMAIN parts \ DOMAIN index
<1>1. /\ DOMAIN parts = 1 .. Len(parts) /\ Len(parts) \in Nat /\ IsRecord(parts)
  BY PartsRight, RecordsAssumption DEF Inv
<1>2. SUFFICES ASSUME T # {} PROVE FALSE
  OBVIOUS
<1>3. T \subseteq Nat
  BY <1>1
<1>4. PICK q \in T : \A m \in T : q <= m
  <2> HIDE DEF T
  <2>1. QED BY <1>2, <1>3, Minimum
<1>5. q \in 1 .. Len(parts) /\ q \notin DOMAIN index
  BY <1>1
<1>6. q # 1
  <2>1. Len(parts) # 0
    BY <1>1, <1>5
  <2>2. parts # <<>>
    BY <2>1
  <2>3. 1 \in DOMAIN index
    BY <2>2 DEF Complete
  <2>4. QED BY <1>5, <2>3
<1>7. q \in 2 .. Len(parts)
  BY <1>1, <1>5, <1>6
<1>8. PICK p \in 1 .. q - 1 : \E v \in DOMAIN parts[p].variants : InsideOf(p, v) = q
  BY <1>1, <1>7 DEF IsRecord, InsideOf
<1>9. p \in DOMAIN index
  <2>1. p \in DOMAIN parts /\ ~(q <= p)
    BY <1>1, <1>7
  <2>2. QED BY <1>4, <2>1
<1>10. q \in DOMAIN index \cup {NoPart}
  BY <1>8, <1>9 DEF Complete
<1>11. QED BY <1>5, <1>10 DEF NoPart

(* A record type of any shape has no error exactly if each of its variant  *)
(* parts divides its tag type: comparing the counter with the largest      *)
(* ordinal decides it, and an error of an outer part is never the only     *)
(* trace of parts that were not resolved.                                  *)
THEOREM VariantPartVerdict == Spec => []AcceptedIffCovered
<1>1. ASSUME Inv, Covering PROVE AcceptedIffCovered
  <2>1. ASSUME pc # "resolving", errors = {}, NEW p \in DOMAIN parts PROVE Covered(p)
    <3>1. stack = <<>> /\ Complete
      BY <1>1, <2>1 DEF Covering
    <3>2. QED BY <1>1, <2>1, <3>1, AllSet DEF Covering
  <2>2. ASSUME NEW e \in errors PROVE e.part \in DOMAIN parts /\ ~Covered(e.part)
    BY <1>1 DEF Covering, Inv, ErrorsRight
  <2>3. QED BY <2>1, <2>2 DEF AcceptedIffCovered
<1>2. QED BY <1>1, Invariant, CoveringInvariant, PTL
=============================================================================
