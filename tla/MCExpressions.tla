------------------------------ MODULE MCExpressions ------------------------------
(***************************************************************************)
(* Expressions over a type of every form, with two of a form where the     *)
(* rules tell objects apart: strings, subranges of one host, sets packed   *)
(* and not, pointers, records with and without a file.                     *)
(***************************************************************************)
EXTENDS ExpressionRules, TLC

Ordinal(form, lo, hi) == [form |-> form, smallest |-> lo, largest |-> hi]
Subrange(h, lo, hi) == [form |-> "subrange", host |-> h, smallest |-> lo, largest |-> hi]
Bounds(t) == [form |-> "bounds", bound |-> t]
Array(i, c, p) == [form |-> "array", index |-> i, component |-> c, packed |-> p]
Set(b, p, h) == [form |-> "set", base |-> b, packed |-> p, host |-> h]
Incomplete(b) == [form |-> "set_incomplete", base |-> b]
Pointer(t) == [form |-> "pointer", domain |-> t]
File(t) == [form |-> "file", component |-> t]
Record(f) == [form |-> "record", fields |-> f, packed |-> FALSE]
Only(form) == [form |-> form]

Maxint == 99
TypeTable == [
    Boolean |-> Ordinal("Boolean", 0, 1),
    char |-> Ordinal("char", 0, 255),
    integer |-> Ordinal("integer", -Maxint, Maxint),
    real |-> Only("real"),
    text |-> Only("text"),
    colour |-> Ordinal("enumerated", 0, 2),
    few |-> Subrange("integer", 1, 2),
    many |-> Subrange("integer", 1, 3),
    lo_hi |-> Bounds("many"),
    string2 |-> Array("few", "char", TRUE),
    literal2 |-> Array("few", "char", TRUE),
    string3 |-> Array("many", "char", TRUE),
    letters |-> Array("few", "char", FALSE),
    schema |-> Array("lo_hi", "string2", FALSE),
    digits |-> Set("few", FALSE, "digits_host"),
    digits_host |-> Set("integer", FALSE, "digits_host"),
    packed_digits |-> Set("many", TRUE, "packed_host"),
    packed_host |-> Set("integer", TRUE, "packed_host"),
    colours |-> Set("colour", FALSE, "colours"),
    set_integer |-> Incomplete("integer"),
    set_colour |-> Incomplete("colour"),
    set_Boolean |-> Incomplete("Boolean"),
    set_char |-> Incomplete("char"),
    set_few |-> Incomplete("few"),
    set_many |-> Incomplete("many"),
    link |-> Pointer("node"),
    owner |-> Pointer("log"),
    node |-> Record([next |-> "link", value |-> "few"]),
    log |-> Record([next |-> "owner", entries |-> "numbers"]),
    numbers |-> File("many")
] @@ ("set_any" :> Only("set_any")) @@ ("nil" :> Only("pointer_any"))
MCTypes == TypeTable

MCVariableTypes ==
    {"Boolean", "real", "text", "few", "many", "string2", "string3", "letters", "schema",
     "digits", "packed_digits", "colours", "link", "owner", "node", "log", "numbers"}
MCConstantTypes == {"char", "literal2", "colour"}
MCResultTypes == {"integer", "link"}

(* A function whose result is of a subrange type.                          *)
SubrangeResults == {"few"}
===================================================================================
