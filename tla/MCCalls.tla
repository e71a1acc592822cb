--------------------------------- MODULE MCCalls ----------------------------------
(***************************************************************************)
(* Calls of procedures and functions with a section of every kind, and of  *)
(* one required procedure or function of every kind that has a resolution  *)
(* of its own.                                                             *)
(***************************************************************************)
EXTENDS CallRules, TLC

Ordinal(form, lo, hi) == [form |-> form, smallest |-> lo, largest |-> hi]
Subrange(h, lo, hi) == [form |-> "subrange", host |-> h, smallest |-> lo, largest |-> hi]
Bounds(t) == [form |-> "bounds", bound |-> t]
Array(i, c, p) == [form |-> "array", index |-> i, component |-> c, packed |-> p]
Record(f, p) == [form |-> "record", fields |-> f, packed |-> p]
File(t) == [form |-> "file", component |-> t]
Only(form) == [form |-> form]

Maxint == 99
TypeTable == [
    Boolean |-> Ordinal("Boolean", 0, 1),
    char |-> Ordinal("char", 0, 255),
    integer |-> Ordinal("integer", -Maxint, Maxint),
    real |-> Only("real"),
    text |-> Only("text"),
    few |-> Subrange("integer", 1, 2),
    many |-> Subrange("integer", 1, 3),
    lo_hi |-> Bounds("few"),
    from_to |-> Bounds("few"),
    any_range |-> Bounds("integer"),
    pair |-> Array("few", "integer", FALSE),
    other_pair |-> Array("few", "integer", FALSE),
    packed_pair |-> Array("few", "integer", TRUE),
    triple |-> Array("many", "integer", FALSE),
    truths |-> Array("few", "Boolean", FALSE),
    table |-> Array("few", "pair", FALSE),
    row |-> Array("lo_hi", "integer", FALSE),
    same_row |-> Array("from_to", "integer", FALSE),
    wide_row |-> Array("any_range", "integer", FALSE),
    rows |-> Array("lo_hi", "row", FALSE),
    string2 |-> Array("few", "char", TRUE),
    shape |-> Record([side |-> "integer", kind |-> "integer"], FALSE),
    packed_shape |-> Record([side |-> "integer"], TRUE),
    numbers |-> File("integer"),
    reals |-> File("real"),
    fews |-> File("few")
] @@ ("set_any" :> Only("set_any")) @@ ("nil" :> Only("pointer_any"))
Tags == {<<"shape", "kind">>}

Section1(by, n, t) == [by |-> by, count |-> n, type |-> t]
Procedural(g) == [by |-> "subroutine", count |-> 1, signature |-> g]
List(sections, result) == [parameters |-> sections, result |-> result]
SignatureTable == [
    nothing |-> List(<<>>, NoType),
    number |-> List(<<>>, "integer"),
    truth |-> List(<<>>, "Boolean"),
    ranged |-> List(<<>>, "few"),
    of_row |-> List(<<Section1("variable", 1, "row")>>, NoType),
    of_same_row |-> List(<<Section1("variable", 1, "same_row")>>, NoType),
    of_wide_row |-> List(<<Section1("variable", 1, "wide_row")>>, NoType),
    of_reals |-> List(<<Section1("value", 2, "real"), Section1("variable", 1, "integer")>>, NoType),
    of_rows |-> List(<<Section1("value", 3, "row"), Section1("value", 1, "integer")>>, NoType),
    of_vars |-> List(<<Section1("variable", 3, "row")>>, "integer"),
    of_tables |-> List(<<Section1("variable", 1, "rows"), Section1("variable", 1, "numbers")>>, NoType),
    of_calls |-> List(<<Procedural("number"), Procedural("of_row")>>, "integer"),
    of_of_row |-> List(<<Procedural("of_row")>>, NoType),
    of_of_same |-> List(<<Procedural("of_same_row")>>, NoType),
    of_of_calls |-> List(<<Procedural("of_of_row"), Section1("value", 1, "integer")>>, NoType)
]

Name(kind, type, value, g) == [kind |-> kind, type |-> type, value |-> value, signature |-> g]
Declared(n, kind, type, value) == n :> Name(kind, type, value, n)
Given(n, kind, type, value) == n :> Name(kind, type, value, "nothing")
NameTable ==
    Given("undefined", "undefined", "integer", FALSE)
    @@ Given("limit", "constant", "integer", TRUE)
    @@ Declared("nothing", "procedure", "integer", FALSE)
    @@ Declared("number", "function", "integer", TRUE)
    @@ Declared("truth", "function", "Boolean", TRUE)
    @@ Declared("ranged", "function", "few", TRUE)
    @@ Declared("of_row", "procedure", "integer", FALSE)
    @@ Declared("of_same_row", "procedure", "integer", FALSE)
    @@ Declared("of_wide_row", "procedure", "integer", FALSE)
    @@ Declared("of_reals", "procedure", "integer", FALSE)
    @@ Declared("of_rows", "procedure", "integer", FALSE)
    @@ Declared("of_vars", "function", "integer", FALSE)
    @@ Declared("of_tables", "procedure", "integer", FALSE)
    @@ Declared("of_calls", "function", "integer", FALSE)
    @@ Declared("of_of_row", "procedure", "integer", FALSE)
    @@ Declared("of_of_same", "procedure", "integer", FALSE)
    @@ Declared("of_of_calls", "procedure", "integer", FALSE)
    @@ [n \in {"abs", "chr", "ord", "succ", "round", "eof", "eoln"} |->
            Name("required_function", "integer", FALSE, "nothing")]
    @@ [n \in {"get", "pack", "unpack", "page", "read", "readln", "write", "writeln"} |->
            Name("required_procedure", "integer", FALSE, "nothing")]

Plain(form, of) == Actual(form, of, NoField, "none")
Variables(types) == {Plain("variable", t) : t \in types}
Expressions(types) == {Plain("expression", t) : t \in types}
Named(names) == {Plain("name", n) : n \in names}
Formatted(form, of) == Actual(form, of, NoField, "width")

Scalars ==
    Variables({"integer", "few", "real"}) \cup Expressions({"integer", "real", "Boolean"})
        \cup Named({"undefined", "limit", "number", "ranged", "of_row"})
        \cup {Actual("field", "shape", "side", "none"), Actual("field", "shape", "kind", "none"),
              Actual("field", "packed_shape", "side", "none"), Plain("component", "pair"),
              Plain("component", "packed_pair"), Formatted("variable", "integer")}
Rows ==
    Variables({"pair", "other_pair", "packed_pair", "row"}) \cup Expressions({"pair", "integer"})
        \cup {Plain("component", "table"), Formatted("variable", "pair")}
MoreRows == Rows \cup Variables({"triple", "truths", "same_row", "integer"})
Tables == Variables({"table", "rows", "pair", "numbers", "text"}) \cup Expressions({"table"})
Subroutines == Named(DOMAIN NameTable \ {"eoln", "chr", "ord", "succ", "round", "readln", "writeln"})
    \cup Variables({"integer"}) \cup Expressions({"integer"}) \cup {Formatted("name", "number"), Formatted("name", "of_row")}
Operands ==
    Variables({"integer", "few", "real", "char", "Boolean", "text", "numbers", "string2"})
        \cup Expressions({"integer", "real", "char", "text"})
        \cup Named({"undefined", "limit", "number", "ranged", "nothing"})
        \cup {Formatted("expression", "integer"), Formatted("variable", "text")}
Transferred ==
    Variables({"pair", "packed_pair", "truths", "string2", "integer", "row"})
        \cup Expressions({"integer", "real", "pair"}) \cup Named({"undefined", "ranged"})
        \cup {Formatted("expression", "integer"), Formatted("variable", "pair"), Formatted("variable", "packed_pair")}
InputAndOutput ==
    Variables({"integer", "few", "real", "char", "Boolean", "text", "numbers", "reals", "fews", "string2", "pair"})
        \cup Expressions({"integer", "real", "numbers"}) \cup Named({"undefined", "ranged"})
        \cup {Actual("variable", t, NoField, f) : t \in {"integer", "real"}, f \in Formats \ {"none"}}
        \cup {Formatted("variable", "text"), Formatted("variable", "numbers")}

WrittenTable ==
    [n \in {"undefined", "limit", "nothing", "number", "truth", "ranged", "of_of_row", "of_of_same"} |->
        {Plain("expression", "integer")}]
    @@ [n \in {"of_row", "of_same_row", "of_wide_row"} |-> MoreRows]
    @@ ("of_reals" :> Scalars)
    @@ [n \in {"of_rows", "of_vars"} |-> Rows]
    @@ ("of_tables" :> Tables)
    @@ [n \in {"of_calls", "of_of_calls"} |-> Subroutines]
    @@ [n \in {"pack", "unpack"} |-> Transferred]
    @@ [n \in {"read", "readln", "write", "writeln"} |-> InputAndOutput]
    @@ [n \in {"abs", "chr", "ord", "succ", "round", "eof", "eoln", "get", "page"} |-> Operands]

OneOfBoth == {{"input"}, {"output"}}

MostActuals ==
    [n \in {"undefined", "limit", "nothing", "of_row", "of_same_row", "of_wide_row",
            "number", "truth", "ranged", "of_of_row", "of_of_same"} |-> 1]
    @@ [n \in {"of_reals", "of_rows", "of_vars", "pack", "unpack"} |-> 4]
    @@ [n \in {"of_tables", "of_calls", "of_of_calls", "read", "readln", "write", "writeln"} |-> 3]
    @@ [n \in {"abs", "chr", "ord", "succ", "round", "eof", "eoln", "get", "page"} |-> 2]

MCTypes == TypeTable
MCTagFields == Tags
MCSignatures == SignatureTable
MCNames == NameTable
MCWritten == WrittenTable
MCMaxActuals == MostActuals
MCProgramFiles == OneOfBoth

MCTypeLevel[t \in Type] == IF Form(t) = "array" THEN 1 + MCTypeLevel[Types[t].component] ELSE 0
MCSignatureLevel[g \in DOMAIN Signatures] ==
    LET inner == {k \in DOMAIN Signatures[g].parameters : Signatures[g].parameters[k].by = "subroutine"}
    IN  Max({0} \cup {1 + MCSignatureLevel[Signatures[g].parameters[k].signature] : k \in inner})
===================================================================================
