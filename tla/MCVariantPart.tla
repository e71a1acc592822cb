----------------------------- MODULE MCVariantPart -----------------------------
(***************************************************************************)
(* Record types over integers of two bits: any constants for every tag     *)
(* type, and variant parts in each other.                                  *)
(***************************************************************************)
EXTENDS VariantPart, SequencesExt

Right(o) == [flaw |-> "none", ordinal |-> o]
Wrong == {[flaw |-> f, ordinal |-> 0] : f \in ConstantFlaws \ {"none"}}
VariantOf(constants, inside) == [constants |-> constants, inside |-> inside]
PartOf(flaw, smallest, largest, variants) ==
    [flaw |-> flaw, smallest |-> smallest, largest |-> largest, variants |-> variants]

(* The constants in one variant, or in two.                                *)
Divided(constants) ==
    {<<VariantOf(constants, NoPart)>>} \cup
    {<<VariantOf(SubSeq(constants, 1, k), NoPart),
       VariantOf(SubSeq(constants, k + 1, Len(constants)), NoPart)>> : k \in 1 .. Len(constants) - 1}

SomeConstants ==
    UNION {[1 .. n -> {Right(o) : o \in Ordinals} \cup Wrong] : n \in 1 .. 2 * IntegerMax + 2}

OnePart ==
    {<<PartOf("none", a, b, variants)>> :
        a \in {-IntegerMax, 0}, b \in {0, IntegerMax}, variants \in UNION {Divided(c) : c \in SomeConstants}}
    \cup {<<PartOf(f, 0, 0, <<VariantOf(<<Right(0)>>, NoPart)>>)>> : f \in TagFlaws}

(* Up to three variant parts over 0 .. 1 in one or the other of each       *)
(* other's variants.                                                       *)
Inner(flaw, c, d, i, j) ==
    PartOf(flaw, 0, 1, <<VariantOf(<<Right(c)>>, i), VariantOf(<<Right(d)>>, j)>>)
Nested ==
    {<<Inner("none", a, b, i[1], j[1]), Inner(f, c, d, i[2], j[2]), Inner(g, 0, e, 0, 0)>> :
        a \in 0 .. 1, b \in -1 .. 1, c \in 0 .. 1, d \in 0 .. 1, e \in 0 .. 1,
        f \in {"none", "undefined"}, g \in {"none", "not ordinal"},
        i \in {<<2, 0>>, <<2, 3>>}, j \in {<<3, 0>>, <<0, 3>>}}

(* Each variant part is in one place.                                      *)
IsTree(r) ==
    \A q \in 2 .. Len(r) :
        Cardinality({<<p, v>> \in (DOMAIN r) \X (1 .. 2) :
                        v \in DOMAIN r[p].variants /\ r[p].variants[v].inside = q}) = 1

SomeRecords == {<<>>} \cup OnePart \cup {r \in Nested : IsTree(r)}
MCRecords == SomeRecords
=============================================================================
