----------------------------- MODULE MCDefinitions -----------------------------
(***************************************************************************)
(* Programs with few names, and a few forms of definition in each.         *)
(***************************************************************************)
EXTENDS DefinitionRules

Define(names, denoters) == {[name |-> x, denoter |-> d] : x \in names, d \in denoters}

Literal(number, at) == [form |-> "literal", number |-> number, signed |-> FALSE, at |-> at]
Name(x, at) == [form |-> "name", name |-> x, signed |-> FALSE, at |-> at]
Signed(x, at) == [Name(x, at) EXCEPT !.signed = TRUE]
Pointer(x, at) == [form |-> "pointer", name |-> x, at |-> at]
Enumerated(xs, at) ==
    [form |-> "enumerated", at |-> at, names |-> [k \in DOMAIN xs |-> Identifier(xs[k], at + k - 1)]]
Subrange(smallest, largest) ==
    [form |-> "subrange", at |-> smallest.at, smallest |-> smallest, largest |-> largest]
Array(indices, component) ==
    [form |-> "array", at |-> 1, indices |-> indices, component |-> component]
FileOf(component) == [form |-> "file", at |-> 1, component |-> component]
SetOf(component) == [form |-> "set", at |-> 1, component |-> component]
Field(x, at, denoter) == [name |-> Identifier(x, at), denoter |-> denoter]
Record(fields) == [form |-> "record", at |-> 1, fields |-> fields]

NoParameters == {<<>>}
SomeParameters == {<<>>, <<"a">>, <<"b", "b">>, <<"input">>}

(* Constants: values, signs, enumerations and subranges.                   *)
AB == {"a", "b"}
Bounds(at) == {Name(x, at) : x \in AB} \cup {Literal(1, at)}
ValuesAB == {Literal(1, 1)} \cup UNION {{Name(x, 1), Signed(x, 1)} : x \in AB}
ConstantsAB == Define(AB, ValuesAB)
Enumerations == {Enumerated(<<"b">>, 1)} \cup {Enumerated(<<x, y>>, 1) : x \in AB, y \in AB}
Subranges == {Subrange(c, d) : c \in Bounds(1), d \in Bounds(2)}
OrdinalsABT == Define({"a", "t"}, Enumerations \cup Subranges)
VariablesAB == Define({"a", "input"}, {Name("integer", 1), Enumerated(<<"b">>, 1)})

(* Types: names, pointers, records, files and sets.                        *)
TU == {"t", "u"}
Simple(at) == {Name(x, at) : x \in TU \cup {"integer"}} \cup {Pointer(x, at) : x \in TU}
FieldLists == {<<Field(x, 1, d), Field(y, 3, e)>> :
                  x \in {"t", "f"}, d \in {Pointer("u", 2), FileOf(Name("u", 2))},
                  y \in {"t", "g"}, e \in {Name("t", 4), Pointer("t", 4)}}
TypesTU ==
    Define(TU, Simple(1) \cup {Record(f) : f \in FieldLists}
                   \cup {FileOf(d) : d \in Simple(1)} \cup {SetOf(Name("u", 1))})
VariablesTU == Define({"t", "v"}, {Name("u", 1), Pointer("u", 1), FileOf(Name("t", 1))})
ConstantsTU == Define({"u"}, {Literal(1, 1)})

(* Arrays of one dimension over types defined before or in the index.      *)
IndexTypes == {Name("t", 1), Enumerated(<<"a">>, 1), Subrange(Name("a", 1), Name("b", 2))}
Components(at) == {Name("t", at), Name("integer", at), FileOf(Name("t", at)),
                   SetOf(Enumerated(<<"b">>, at))}
ArraysTU ==
    Define({"t", "u", "a"},
        {Array(<<i>>, c) : i \in IndexTypes, c \in Components(3)} \cup {Enumerated(<<"a", "b">>, 1)})

(* Arrays whose parts share an enumeration, before and after its use, in   *)
(* index types, component types and the arrays and records in them.        *)
Shared(at) == {Enumerated(<<"a", "b">>, at), Subrange(Name("a", at), Name("b", at + 1))}
SharingComponents(at) ==
    {Name("integer", at), Record(<<Field("f", at, Subrange(Name("a", at + 1), Name("b", at + 2)))>>)}
        \cup {SetOf(d) : d \in Shared(at)}
SharingArrays ==
    {Array(<<i>>, c) : i \in Shared(1) \cup {Name("integer", 1)}, c \in SharingComponents(3)}
        \cup {Array(<<i, j>>, c) : i \in Shared(1), j \in Shared(3), c \in SharingComponents(5)}
        \cup {Array(<<i>>, Array(<<j>>, c)) :
                 i \in Shared(1), j \in Shared(3), c \in SharingComponents(5)}
SharingT == Define({"t"}, SharingArrays)
ConstantsA == Define({"a"}, {Literal(1, 1)})
SharingV == Define({"v"}, {FileOf(d) : d \in Shared(1)})

(* A type of the block around that the definition part may hide, before or *)
(* after its use.                                                          *)
Hiding == Define({"integer"}, {Literal(1, 1)})
HidingTypes ==
    Define({"t", "integer"},
        {Name("integer", 1), Name("t", 1), Pointer("integer", 1), Pointer("t", 1),
         Record(<<Field("f", 1, Pointer("integer", 2)), Field("integer", 3, Pointer("t", 4))>>)})
HidingVariables == Define({"v", "integer"}, {Name("integer", 1), Pointer("integer", 1), Name("t", 1)})

(* A record with an enumeration in it.                                     *)
RecordsWithEnumerations ==
    Define({"t"}, {Record(<<Field("f", 1, Enumerated(<<x>>, 2))>>) : x \in {"a", "f"}})

Vocabulary(cs, ts, vs, ps) ==
    [constants |-> cs, types |-> ts, variables |-> vs, parameters |-> ps]

MCVocabularies ==
    { Vocabulary(ConstantsAB, OrdinalsABT, VariablesAB, SomeParameters),
      Vocabulary(ConstantsTU, TypesTU, VariablesTU, NoParameters),
      Vocabulary(ConstantsAB, ArraysTU, VariablesTU, NoParameters),
      Vocabulary(ConstantsA, SharingT, SharingV, NoParameters),
      Vocabulary(Hiding, HidingTypes, HidingVariables, NoParameters) }

RecordVocabularies == { Vocabulary({}, RecordsWithEnumerations, {}, NoParameters) }
=============================================================================
