---------------------------- MODULE PascalGrammar ----------------------------
(***************************************************************************)
(* The grammar functions of parsing.cxx (parseLabel ... parseProgram) as   *)
(* the table that module Parser runs.  The nodes they fill in are left     *)
(* out: what is modelled is which token is tried, when and in which order. *)
(*                                                                         *)
(* A token is a string.  Symbols and words stand for themselves; the       *)
(* others are told apart by what the parser can tell apart:                *)
(*   "id", "forward"              identifiers                              *)
(*   "int", "int10000", "intBig"  integers: a possible label, more than    *)
(*                                MAX_LABEL_VALUE, more than fits          *)
(*   "real", "realBig"            a representable real, one that is not    *)
(*   "string"                     a character string                       *)
(***************************************************************************)
EXTENDS Parser

Symbols == {"+", "-", "*", "/", "=", "<>", "<", ">", "<=", ">=", "[", "]", ".",
            ",", ":", ";", "^", "(", ")", ":=", ".."}
Words == {"and", "array", "begin", "case", "const", "div", "do", "downto",
          "else", "end", "file", "for", "function", "goto", "if", "in", "label",
          "mod", "nil", "not", "of", "or", "packed", "procedure", "program",
          "record", "repeat", "set", "then", "to", "type", "until", "var",
          "while", "with"}
PascalKinds == Symbols \cup Words \cup {"id", "int", "real", "string", "eof"}
PascalTokens == PascalKinds \cup {"forward", "int10000", "intBig", "realBig"}
PascalKindOf ==
    [t \in PascalTokens |-> CASE t = "forward" -> "id"
                              [] t \in {"int10000", "intBig"} -> "int"
                              [] t = "realBig" -> "real"
                              [] OTHER -> t]

-----------------------------------------------------------------------------
(* Constants and types.                                                    *)

Label == <<V("int", {"int"})>>
UnsignedIntegerConstant == <<V("int", {"int", "int10000"})>>
UnsignedRealConstant == <<V("real", {"real"})>>
Identifier == <<C("id")>>
SignableConstant ==
    <<Alt(<<"UnsignedIntegerConstant", "UnsignedRealConstant", "Identifier">>)>>
Sign == <<Try(<<Enum2("+", "-")>>, <<>>, <<>>)>>
SignedConstant == <<R("Sign"), R("SignableConstant")>>
CharacterString == <<C("string")>>
Constant == <<Alt(<<"SignedConstant", "CharacterString">>)>>
ConstantDefinition == <<R("Identifier"), C("="), R("Constant")>>

EnumeratedType == <<C("("), Sep(",", "Identifier"), C(")")>>
SubrangeType == <<R("Constant"), C(".."), R("Constant")>>
OrdinalType == <<Alt(<<"EnumeratedType", "SubrangeType", "Identifier">>)>>
ArrayType ==
    <<C("array"), C("["), Sep(",", "OrdinalType"), C("]"), C("of"),
      R("TypeDenoter")>>
RecordSection == <<Sep(",", "Identifier"), C(":"), R("TypeDenoter")>>
Variant ==
    <<Sep(",", "Constant"), C(":"), C("("), R("FieldList"), C(")")>>
VariantPart ==
    <<C("case"), R("Identifier"), If(":", <<R("Identifier")>>, <<>>), C("of"),
      Sep(";", "Variant")>>
FieldList ==
    LET variants == Try(<<R("VariantPart")>>, <<If(";", <<>>, <<>>)>>, <<>>)
    IN  <<Try(<<Sep(";", "RecordSection")>>,
              <<If(";", <<variants>>, <<>>)>>, <<variants>>)>>
RecordType == <<C("record"), R("FieldList"), C("end")>>
SetType == <<C("set"), C("of"), R("OrdinalType")>>
FileType == <<C("file"), C("of"), R("TypeDenoter")>>
NewStructuredType ==
    <<If("packed", <<>>, <<>>),
      Alt(<<"ArrayType", "RecordType", "SetType", "FileType">>)>>
NewPointerType == <<C("^"), R("Identifier")>>
TypeDenoter ==
    <<Alt(<<"EnumeratedType", "SubrangeType", "NewStructuredType",
            "NewPointerType", "Identifier">>)>>
TypeDefinition == <<R("Identifier"), C("="), R("TypeDenoter")>>
VariableDeclaration == <<Sep(",", "Identifier"), C(":"), R("TypeDenoter")>>

-----------------------------------------------------------------------------
(* Subroutines.                                                            *)

IndexTypeSpecification ==
    <<R("Identifier"), C(".."), R("Identifier"), C(":"), R("Identifier")>>
PackedConformantArraySchema ==
    <<C("packed"), C("array"), C("["), R("IndexTypeSpecification"), C("]"),
      C("of"), R("Identifier")>>
UnpackedConformantArraySchema ==
    <<C("array"), C("["), Sep(";", "IndexTypeSpecification"), C("]"), C("of"),
      R("FormalParameterTypeOrSchema")>>
FormalParameterTypeOrSchema ==
    <<Alt(<<"Identifier", "PackedConformantArraySchema",
            "UnpackedConformantArraySchema">>)>>
RegularParameterSection ==
    <<If("var", <<>>, <<>>), Sep(",", "Identifier"), C(":"),
      R("FormalParameterTypeOrSchema")>>
FormalParameterSection ==
    <<Alt(<<"RegularParameterSection", "ProcedureHeading", "FunctionHeading">>)>>
FormalParameters == If("(", <<Sep(";", "FormalParameterSection"), C(")")>>, <<>>)
ProcedureHeading == <<C("procedure"), R("Identifier"), FormalParameters>>
FunctionHeading ==
    <<C("function"), R("Identifier"), FormalParameters, C(":"), R("Identifier")>>
FunctionIdentification == <<C("function"), R("Identifier")>>
(* A function identification takes a block only; after the other headings  *)
(* the block is optional, and without it the directive "forward" must      *)
(* follow.                                                                 *)
SubroutineDeclaration ==
    LET body == <<C(";"), Try(<<R("Block")>>, <<>>, <<V("id", {"forward"})>>)>>
    IN  <<Try(<<R("ProcedureHeading")>>, body,
              <<Try(<<R("FunctionHeading")>>, body,
                    <<R("FunctionIdentification"), C(";"), R("Block")>>)>>)>>

-----------------------------------------------------------------------------
(* Expressions.                                                            *)

IndexingModifier == <<C("["), Sep(",", "Expression"), C("]")>>
FieldAccessModifier == <<C("."), R("Identifier")>>
DereferencingModifier == <<C("^")>>
VariableModifier ==
    <<Alt(<<"IndexingModifier", "FieldAccessModifier", "DereferencingModifier">>)>>
VariableAccess == <<R("Identifier"), List("VariableModifier")>>
Nil == <<C("nil")>>
MemberDesignator == <<R("Expression"), If("..", <<R("Expression")>>, <<>>)>>
SetConstructor ==
    <<C("["), Try(<<Sep(",", "MemberDesignator")>>, <<>>, <<>>), C("]")>>
FunctionDesignator ==
    <<R("Identifier"), C("("), Sep(",", "ActualParameter"), C(")")>>
Parenthetical == <<C("("), R("Expression"), C(")")>>
NotExpression == <<C("not"), R("Factor")>>
Factor ==
    <<Alt(<<"FunctionDesignator", "VariableAccess", "UnsignedIntegerConstant",
            "UnsignedRealConstant", "CharacterString", "Nil", "SetConstructor",
            "Parenthetical", "NotExpression">>)>>
TermModifier == <<Enum5("*", "/", "div", "mod", "and"), R("Factor")>>
Term == <<R("Factor"), List("TermModifier")>>
SimpleExpressionModifier == <<Enum3("+", "-", "or"), R("Term")>>
SimpleExpression ==
    <<R("Sign"), R("Term"), List("SimpleExpressionModifier")>>
ExpressionModifier ==
    <<Enum7("=", "<>", "<", ">", "<=", ">=", "in"), R("SimpleExpression")>>
Expression == <<R("SimpleExpression"), Opt("ExpressionModifier")>>

-----------------------------------------------------------------------------
(* Statements.                                                             *)

(* Slip: the procedure statement preempts the assignment.                  *)
StatementProcedureFirst ==
    <<Try(<<R("Label")>>, <<C(":")>>, <<>>),
      Alt(<<"ProcedureStatement", "AssignmentStatement", "GotoStatement",
            "CompoundStatement", "IfStatement", "CaseStatement",
            "RepeatStatement", "WhileStatement", "ForStatement",
            "WithStatement", "EmptyStatement">>)>>
Statement ==
    <<Try(<<R("Label")>>, <<C(":")>>, <<>>),
      Alt(<<"AssignmentStatement", "ProcedureStatement", "GotoStatement",
            "CompoundStatement", "IfStatement", "CaseStatement",
            "RepeatStatement", "WhileStatement", "ForStatement",
            "WithStatement", "EmptyStatement">>)>>
AssignmentStatement == <<R("VariableAccess"), C(":="), R("Expression")>>
FormattingSpecification ==
    <<C(":"), R("Expression"), If(":", <<R("Expression")>>, <<>>)>>
ActualParameter == <<R("Expression"), Opt("FormattingSpecification")>>
ProcedureStatement ==
    <<R("Identifier"), If("(", <<Sep(",", "ActualParameter"), C(")")>>, <<>>)>>
GotoStatement == <<C("goto"), R("Label")>>
IfStatement ==
    <<C("if"), R("Expression"), C("then"), R("Statement"),
      If("else", <<R("Statement")>>, <<>>)>>
CaseListElement == <<Sep(",", "Constant"), C(":"), R("Statement")>>
CaseStatement ==
    <<C("case"), R("Expression"), C("of"), Sep(";", "CaseListElement"),
      If(";", <<>>, <<>>), C("end")>>
RepeatStatement ==
    <<C("repeat"), Sep(";", "Statement"), C("until"), R("Expression")>>
WhileStatement == <<C("while"), R("Expression"), C("do"), R("Statement")>>
WithStatement ==
    <<C("with"), Sep(",", "VariableAccess"), C("do"), R("Statement")>>
ForStatement ==
    <<C("for"), R("Identifier"), C(":="), R("Expression"),
      Enum2("to", "downto"), R("Expression"), C("do"), R("Statement")>>
EmptyStatement == <<>>
CompoundStatement == <<C("begin"), Sep(";", "Statement"), C("end")>>

-----------------------------------------------------------------------------
(* Blocks and programs.                                                    *)

Section(word, k, item) == If(word, <<Sep(k, item), C(";")>>, <<>>)
Block ==
    <<Section("label", ",", "Label"),
      Section("const", ";", "ConstantDefinition"),
      Section("type", ";", "TypeDefinition"),
      Section("var", ";", "VariableDeclaration"),
      Try(<<Sep(";", "SubroutineDeclaration")>>, <<C(";")>>, <<>>),
      R("CompoundStatement")>>
Program ==
    <<C("program"), R("Identifier"),
      If("(", <<Sep(",", "Identifier"), C(")")>>, <<>>), C(";"),
      R("Block"), C(".")>>

Pascal ==
    [ Label |-> Label, UnsignedIntegerConstant |-> UnsignedIntegerConstant,
      UnsignedRealConstant |-> UnsignedRealConstant, Identifier |-> Identifier,
      SignableConstant |-> SignableConstant, Sign |-> Sign,
      SignedConstant |-> SignedConstant, CharacterString |-> CharacterString,
      Constant |-> Constant, ConstantDefinition |-> ConstantDefinition,
      EnumeratedType |-> EnumeratedType, SubrangeType |-> SubrangeType,
      OrdinalType |-> OrdinalType, ArrayType |-> ArrayType,
      RecordSection |-> RecordSection, Variant |-> Variant,
      VariantPart |-> VariantPart, FieldList |-> FieldList,
      RecordType |-> RecordType, SetType |-> SetType, FileType |-> FileType,
      NewStructuredType |-> NewStructuredType, NewPointerType |-> NewPointerType,
      TypeDenoter |-> TypeDenoter, TypeDefinition |-> TypeDefinition,
      VariableDeclaration |-> VariableDeclaration,
      IndexTypeSpecification |-> IndexTypeSpecification,
      PackedConformantArraySchema |-> PackedConformantArraySchema,
      UnpackedConformantArraySchema |-> UnpackedConformantArraySchema,
      FormalParameterTypeOrSchema |-> FormalParameterTypeOrSchema,
      RegularParameterSection |-> RegularParameterSection,
      FormalParameterSection |-> FormalParameterSection,
      ProcedureHeading |-> ProcedureHeading, FunctionHeading |-> FunctionHeading,
      FunctionIdentification |-> FunctionIdentification,
      SubroutineDeclaration |-> SubroutineDeclaration,
      IndexingModifier |-> IndexingModifier,
      FieldAccessModifier |-> FieldAccessModifier,
      DereferencingModifier |-> DereferencingModifier,
      VariableModifier |-> VariableModifier, VariableAccess |-> VariableAccess,
      Nil |-> Nil, MemberDesignator |-> MemberDesignator,
      SetConstructor |-> SetConstructor, FunctionDesignator |-> FunctionDesignator,
      Parenthetical |-> Parenthetical, NotExpression |-> NotExpression,
      Factor |-> Factor, TermModifier |-> TermModifier, Term |-> Term,
      SimpleExpressionModifier |-> SimpleExpressionModifier,
      SimpleExpression |-> SimpleExpression,
      ExpressionModifier |-> ExpressionModifier, Expression |-> Expression,
      Statement |-> Statement, AssignmentStatement |-> AssignmentStatement,
      FormattingSpecification |-> FormattingSpecification,
      ActualParameter |-> ActualParameter, ProcedureStatement |-> ProcedureStatement,
      GotoStatement |-> GotoStatement, IfStatement |-> IfStatement,
      CaseListElement |-> CaseListElement, CaseStatement |-> CaseStatement,
      RepeatStatement |-> RepeatStatement, WhileStatement |-> WhileStatement,
      WithStatement |-> WithStatement, ForStatement |-> ForStatement,
      EmptyStatement |-> EmptyStatement, CompoundStatement |-> CompoundStatement,
      Block |-> Block, Program |-> Program ]
=============================================================================
