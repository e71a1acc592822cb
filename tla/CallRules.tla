-------------------------------- MODULE CallRules ---------------------------------
(***************************************************************************)
(* Which calls ISO 7185 allows, of a call as a whole: 6.6.3 and 6.7.3 for  *)
(* procedures and functions a program declares, 6.6.5, 6.6.6 and 6.9 for   *)
(* the required ones; and that the analysis accepts these.                 *)
(***************************************************************************)
EXTENDS Calls, ValueKinds, FiniteSetsExt

CONSTANTS
    TypeLevel,       \* how many types lie within a type, one in the other
    SignatureLevel   \* how many signatures do within a signature

(* No type and no list of parameters is a part of itself.                  *)
LevelsAssumption ==
    /\ TypeLevel \in [Type -> Nat]
    /\ \A t \in OfForm("array") : TypeLevel[Types[t].component] < TypeLevel[t]
    /\ SignatureLevel \in [DOMAIN Signatures -> Nat]
    /\ \A g \in DOMAIN Signatures : \A k \in DOMAIN Signatures[g].parameters :
        LET s == Signatures[g].parameters[k]
        IN  s.by = "subroutine" => SignatureLevel[s.signature] < SignatureLevel[g]

ASSUME PartsAreSmaller == LevelsAssumption

-----------------------------------------------------------------------------
(* The kind of a value whose type object is t.  That of an expression is   *)
(* promoted, with one exception, in which the analysis is not that of      *)
(* Pascal: the result of a function (semantics.cxx:306) and the component  *)
(* of a file that is read (semantics-analyze.cxx:2668) are of the type     *)
(* that was declared.  If that is a subrange, the value is one of its host *)
(* type by 6.7.1, but one that is known for neither an integer, a          *)
(* character nor a truth value; see SetMembersArePromoted of Expressions.  *)
Narrow == 3
NarrowValue(host) == Value("ordinal", host, Narrow)
ValueOf(t) == IF Form(t) \in {"subrange", "bounds"} THEN NarrowValue(FullRange(t)) ELSE KindOf(t)

(* Such a value may be given to variables of its host type and of its      *)
(* subranges, but, being no integer, not to one of type real.              *)
MayBeGiven(k, t) ==
    \/ MayBeAssigned(k, t)
    \/ k.family = "ordinal" /\ KindOf(t) = OrdinalValue(k.of)

-----------------------------------------------------------------------------
(* 6.6.3.8, conformability, of all dimensions of a schema at once.         *)

ComponentAt[n \in Nat] == [t \in Type |->
    IF n = 0 \/ Form(t) # "array" THEN t ELSE ComponentAt[n - 1][Types[t].component]]

SchemaDepth(s) == CHOOSE n \in 0..TypeLevel[s] :
    ~IsSchema(ComponentAt[n][s]) /\ \A m \in 0..(n - 1) : IsSchema(ComponentAt[m][s])

Values(ordinal) == Types[ordinal].smallest..Types[ordinal].largest
DimensionConforms(t, s) ==
    /\ Form(t) = "array"
    /\ Types[t].packed = Types[s].packed
    /\ KindOf(Types[t].index) = KindOf(Types[s].index)
    /\ IsSchema(t) \/ Values(Types[t].index) \subseteq Values(Types[Types[s].index].bound)

IsInstance(t, s) ==
    LET depth == SchemaDepth(s)
    IN  /\ \A n \in 0..(depth - 1) : DimensionConforms(ComponentAt[n][t], ComponentAt[n][s])
        /\ ComponentAt[depth][t] = ComponentAt[depth][s]

-----------------------------------------------------------------------------
(* Declared procedures and functions.                                      *)

(* The formal parameters: the j-th of the section k; and their places.     *)
Formals == UNION {{k} \X (1..Parameters[k].count) : k \in DOMAIN Parameters}
IsBefore(p, q) == p[1] < q[1] \/ (p[1] = q[1] /\ p[2] < q[2])
PlaceOf(p) == 1 + Cardinality({q \in Formals : IsBefore(q, p)})
SectionAt(i) == LET p == CHOOSE q \in Formals : PlaceOf(q) = i IN p[1]

TypeAs(by, a) == IF by = "variable" THEN VariableType(a) ELSE ValueType(a)

(* 6.6.3.3, 6.6.3.7: a component of a packed variable and a tag field are  *)
(* not to be changed behind the back of what they are a component of.      *)
MayBeVariable(a) ==
    /\ IsVariableAccess(a)
    /\ a.form \in {"field", "component"} => ~Types[a.of].packed
    /\ a.form = "field" => <<a.of, a.field>> \notin TagFields

(* 6.6.3.6: lists of formal parameters that differ in their names only.    *)
SameDimension(t, u) ==
    /\ Types[t].packed = Types[u].packed
    /\ Types[Types[t].index].bound = Types[Types[u].index].bound

SameTypes(t, u) ==
    \/ t = u
    \/ /\ IsSchema(t) /\ IsSchema(u)
       /\ SchemaDepth(t) = SchemaDepth(u)
       /\ \A n \in 0..(SchemaDepth(t) - 1) : SameDimension(ComponentAt[n][t], ComponentAt[n][u])
       /\ ComponentAt[SchemaDepth(t)][t] = ComponentAt[SchemaDepth(u)][u]

SameLists[g \in DOMAIN Signatures] == [o \in DOMAIN Signatures |->
    /\ Len(Signatures[g].parameters) = Len(Signatures[o].parameters)
    /\ \A k \in DOMAIN Signatures[g].parameters :
        LET s == Signatures[g].parameters[k]
            z == Signatures[o].parameters[k]
        IN  /\ <<s.by, s.count>> = <<z.by, z.count>>
            /\ s.by # "subroutine" => SameTypes(s.type, z.type)
            /\ s.by = "subroutine" =>
                /\ SameLists[s.signature][z.signature]
                /\ Signatures[s.signature].result = Signatures[z.signature].result]

(* What a formal parameter of the section takes by itself.                 *)
Suits(a, s) ==
    CASE s.by = "variable" ->
            /\ MayBeVariable(a)
            /\ IF IsSchema(s.type) THEN IsInstance(VariableType(a), s.type) ELSE VariableType(a) = s.type
      [] s.by = "value" ->
            IF IsSchema(s.type)
            THEN IsInstance(ValueType(a), s.type) /\ ~IsSchema(ValueType(a))
            ELSE MayBeGiven(ValueOf(ValueType(a)), s.type)
      [] s.by = "subroutine" ->
            /\ a.form = "name"
            /\ Names[a.of].kind \in {"procedure", "function"}
            /\ SameLists[Names[a.of].signature][s.signature]
            /\ Signatures[Names[a.of].signature].result = Signatures[s.signature].result

(* Those before the i-th that are of the same section and suit it.         *)
Peers(i) == {j \in 1..(i - 1) : SectionAt(j) = SectionAt(i) /\ Suits(actuals[j], Parameters[SectionAt(i)])}

(* 6.6.3.7.1: actual parameters of one schema are of one type.             *)
AgreesWithPeers(i) ==
    LET s == Parameters[SectionAt(i)]
    IN  s.by # "subroutine" /\ IsSchema(s.type) /\ Peers(i) # {} =>
            TypeAs(s.by, actuals[i]) = TypeAs(s.by, actuals[Min(Peers(i))])

IsRight(i) ==
    LET s == Parameters[SectionAt(i)]
    IN  /\ ~IsFormatted(actuals[i])
        /\ s.by = "value" => ~HasNoValue(actuals[i])
        /\ Suits(actuals[i], s)
        /\ AgreesWithPeers(i)

IsLegalDeclared ==
    /\ count = Cardinality(Formals)
    /\ Len(actuals) = count
    /\ \A i \in 1..count : IsRight(i)

-----------------------------------------------------------------------------
(* Required procedures and functions.                                      *)

KindAt(i) == ValueOf(ValueType(actuals[i]))
IsPlainValue(i) == ~IsFormatted(actuals[i]) /\ ~HasNoValue(actuals[i])
IsPlainVariable(i) == ~IsFormatted(actuals[i]) /\ IsVariableAccess(actuals[i])
FormAt(i) == Form(VariableType(actuals[i]))

IsArray(i, isPacked) ==
    /\ IsPlainVariable(i)
    /\ FormAt(i) = "array"
    /\ Types[VariableType(actuals[i])].packed = isPacked

(* 6.6.5.4: an unpacked array, a value for its index, a packed array.      *)
IsTransfer(unpacked, index, packed) ==
    /\ count = 3
    /\ IsArray(unpacked, FALSE)
    /\ IsArray(packed, TRUE)
    /\ LET u == Types[VariableType(actuals[unpacked])]
           p == Types[VariableType(actuals[packed])]
       IN  /\ u.component = p.component
           /\ IsPlainValue(index)
           /\ MayBeGiven(KindAt(index), u.index)

(* 6.9.1; strings may be read in the language of this compiler.            *)
IsReadable(i) ==
    /\ IsPlainVariable(i)
    /\ LET k == KindOf(VariableType(actuals[i]))
       IN  IsNumber(k) \/ k = OrdinalValue(TypeChar) \/ k.family = "string"

(* 6.9.3                                                                   *)
IsWritable(i) ==
    /\ ~HasNoValue(actuals[i])
    /\ \/ IsNumber(KindAt(i))
       \/ KindAt(i) = OrdinalValue(TypeChar) \/ KindAt(i) = BooleanValue
       \/ KindAt(i).family = "string"
    /\ actuals[i].format \in {"none", "width"} \/ (actuals[i].format = "fraction" /\ KindAt(i) = RealValue)

StartsWithFile(forms) == count > 0 /\ IsPlainVariable(1) /\ FormAt(1) \in forms

(* 6.6.5.2: read(f, v) is v := f^; get(f), and write(f, e) is f^ := e;     *)
(* put(f).  Text is read and written value by value, from input and to     *)
(* output if no file is named.                                             *)
IsTextTransfer(isTransferable(_), fileName) ==
    LET begin == IF StartsWithFile({"text"}) THEN 2 ELSE 1
    IN  /\ begin = 1 => fileName \in files
        /\ callee \in {"read", "write"} => begin <= count
        /\ \A i \in begin..count : isTransferable(i)

IsFileTransfer(isTransferable(_, _)) ==
    /\ StartsWithFile({"file"})
    /\ count > 1
    /\ \A i \in 2..count : isTransferable(Types[VariableType(actuals[1])].component, i)

IsReadableFrom(t, i) ==
    IsPlainVariable(i) /\ MayBeGiven(ValueOf(t), VariableType(actuals[i]))
IsWritableTo(t, i) ==
    IsPlainValue(i) /\ MayBeGiven(KindAt(i), t)

IsOneFile(forms, fileName) ==
    \/ count = 0 /\ fileName \in files
    \/ count = 1 /\ StartsWithFile(forms)

IsOneValue(isRight(_)) == count = 1 /\ IsPlainValue(1) /\ isRight(KindAt(1))
IsInteger(k) == k = IntegerValue
IsReal(k) == k = RealValue
IsOrdinal(k) == k.family = "ordinal"

IsLegalRequired ==
    CASE callee \in AbsLike -> IsOneValue(IsNumber)
      [] callee \in ChrLike -> IsOneValue(IsInteger)
      [] callee \in RoundLike -> IsOneValue(IsReal)
      [] callee \in PredLike \cup {"ord"} -> IsOneValue(IsOrdinal)
      [] callee = "eof" -> IsOneFile({"text", "file"}, "input")
      [] callee = "eoln" -> IsOneFile({"text"}, "input")
      [] callee = "page" -> IsOneFile({"text"}, "output")
      [] callee \in GetLike -> IsOneFile({"text", "file"}, "none")
      [] callee = "pack" -> IsTransfer(1, 2, 3)
      [] callee = "unpack" -> IsTransfer(2, 3, 1)
      [] callee = "read" -> IsTextTransfer(IsReadable, "input") \/ IsFileTransfer(IsReadableFrom)
      [] callee = "readln" -> IsTextTransfer(IsReadable, "input")
      [] callee = "write" -> IsTextTransfer(IsWritable, "output") \/ IsFileTransfer(IsWritableTo)
      [] callee = "writeln" -> IsTextTransfer(IsWritable, "output")

-----------------------------------------------------------------------------
IsLegal ==
    IF Names[callee].kind = wanted THEN IsLegalDeclared
    ELSE Names[callee].kind = RequiredKind /\ Len(actuals) = count /\ IsLegalRequired

(* The analysis of a call finds no error if, and only if, the call is one  *)
(* the language allows: as many actual parameters as there are formal      *)
(* ones, each of which suits its own, and the parameters of one conformant *)
(* array schema of one type.  Such a call is not lost: fallbackStatement() *)
(* and fallbackExpression() stand for a call only after an error.  For     *)
(* values of a subrange type "allows" has the exception ValueOf states.    *)
AcceptedIffLegal ==
    status = "done" =>
        IF IsLegal THEN errors = {} /\ node # "fallback" ELSE errors # {}

(* Errors in a call of a declared procedure or function are reported at    *)
(* the actual parameters that are wrong and at no others: what is wrong    *)
(* with one neither shifts the parameters against their sections nor has   *)
(* an influence on what later ones are compared with.                      *)
ErrorsAreExact ==
    Names[callee].kind = wanted /\ status # "lookup" =>
        \A i \in 1..Len(actuals) : i \in errors <=> ~IsRight(i)

(* The parts of the state have the values they are meant to have; of the   *)
(* actual parameters taken for a section, at most all are good, and the    *)
(* type of the first good one is known exactly if there is one and it is   *)
(* not the last.                                                           *)
TypeOK ==
    /\ Len(actuals) <= count
    /\ errors \subseteq 0..AtEnd
    /\ status \in {"lookup", "declared", "required", "done"}
    /\ node \in {"none", "fallback", "designator", "statement"} \cup RequiredFunctions \cup RequiredProcedures
    /\ kept <= count /\ good <= taken
    /\ Names[callee].kind = wanted => Len(built) < section /\ section <= Len(Parameters) + 1
    /\ good > 0 /\ Section.by # "subroutine" => first \in Type
    /\ good = 0 => first = NoType
    /\ file \in {NoFile} \cup TypeFileLike
===================================================================================
