-------------------------------- MODULE CallProofs --------------------------------
(***************************************************************************)
(* Whatever a program declares and whatever actual parameters it writes:   *)
(* the resolution of a call keeps its state in order, reports an error at  *)
(* exactly the actual parameters that are wrong, and so accepts a call if  *)
(* and only if the call as a whole is legal.  It gives up a call only      *)
(* after it has reported an error.                                         *)
(***************************************************************************)
EXTENDS CallRules, FiniteSetTheorems, WellFoundedInduction, TLAPS

USE ParametersAreWritten, SignaturesAreResolved, TypesAreBuiltOfTypes, TextIsOneType

AnyActual == UNION {Written[n] : n \in DOMAIN Names}

IsDeclared == Names[callee].kind = wanted

(* The program: the call and what has been read of it.                     *)
CallInv ==
    /\ callee \in DOMAIN Names
    /\ wanted \in {"procedure", "function"}
    /\ count \in Nat
    /\ actuals \in Seq(AnyActual)
    /\ Len(actuals) <= count
    /\ errors \subseteq 0..AtEnd
    /\ status \in {"lookup", "declared", "required", "done"}
    /\ status = "declared" => IsDeclared
    /\ status = "required" => ~IsDeclared

(* Where the resolution is among the sections: those before have got all   *)
(* their actual parameters, and enough are left for the one that has begun.*)
SectionInv ==
    /\ section \in Nat /\ taken \in Nat /\ good \in Nat
    /\ built \in Seq(Nat)
    /\ good <= taken
    /\ IsDeclared => section \in 1..(Len(Parameters) + 1) /\ Len(built) < section
    /\ taken > 0 => /\ IsDeclared
                    /\ section <= Len(Parameters)
                    /\ taken < Section.count
                    /\ Section.count - taken <= Remaining
    /\ good > 0 => first \in Type
    /\ good = 0 => first = NoType

Results ==
    {"none", "fallback", "designator", "statement"} \cup RequiredFunctions \cup RequiredProcedures

(* The files, and what becomes of the call.                                *)
FileInv ==
    /\ file \in {NoFile} \cup TypeFileLike
    /\ kept \in Nat
    /\ kept <= Len(actuals)
    /\ node \in Results

TypeInv == CallInv /\ SectionInv /\ FileInv

-----------------------------------------------------------------------------
(* Actual parameters have types.                                           *)
LEMMA TypesOfActuals ==
    ASSUME NEW a \in AnyActual
    PROVE  /\ IsVariableAccess(a) => VariableType(a) \in Type
           /\ ValueType(a) \in Type
    <1>1. /\ a.form \in ActualForms
          /\ a.form \in {"variable", "expression"} => a.of \in Type
          /\ a.form = "component" => a.of \in OfForm("array")
          /\ a.form = "field" => a.of \in OfForm("record") /\ a.field \in DOMAIN Types[a.of].fields
          /\ a.form = "name" => a.of \in DOMAIN Names /\ Names[a.of].type \in Type
        BY DEF AnyActual, ParameterAssumption
    <1>2. IsVariableAccess(a) => VariableType(a) \in Type
        BY <1>1 DEF IsVariableAccess, VariableType, TypesAssumption, OfForm
    <1>3. \A t \in Type : Promoted(t) \in Type
        BY DEF Promoted, FullRange, FullRangeOfOrdinal, TypesAssumption, OfForm, TypeOrdinal,
               TypeOrdinalDynamic, SimpleForms
    <1>4. IsVariableAccess(a) => Promoted(VariableType(a)) \in Type
        BY <1>2, <1>3
    <1>5. ValueType(a) \in Type
        BY <1>1, <1>4 DEF ValueType, IsVariableAccess, ActualForms
    <1>. QED  BY <1>2, <1>5

(* A file that is resolved as a value is found to be one, too.             *)
LEMMA FilesArePromoted ==
    ASSUME NEW a \in AnyActual, IsVariableAccess(a), Form(ValueType(a)) \in {"text", "file"}
    PROVE  ValueType(a) = VariableType(a)
    <1>1. VariableType(a) \in Type
        BY TypesOfActuals
    <1>2. ValueType(a) = Promoted(VariableType(a))
        BY DEF ValueType, IsVariableAccess, VariableType
    <1>3. \A t \in Type : Form(Promoted(t)) \in {"text", "file"} => Promoted(t) = t
        BY DEF Promoted, FullRange, FullRangeOfOrdinal, TypesAssumption, OfForm, TypeOrdinal,
               TypeOrdinalDynamic, SimpleForms
    <1>. QED  BY <1>1, <1>2, <1>3

(* The formal parameters of a procedure or function that is declared.      *)
LEMMA SectionsOfParameters ==
    ASSUME callee \in DOMAIN Names, wanted \in {"procedure", "function"}, IsDeclared
    PROVE  /\ Parameters \in Seq(FormalSection)
           /\ Len(Parameters) \in Nat
           /\ \A k \in 1..Len(Parameters) :
                /\ Parameters[k].count \in Nat \ {0}
                /\ Parameters[k].by = "subroutine" => Parameters[k].count = 1
    <1>1. Names[callee].signature \in DOMAIN Signatures
        BY DEF IsDeclared, SignatureAssumption
    <1>2. Parameters \in Seq(FormalSection)
        BY <1>1 DEF Parameters, SignatureAssumption
    <1>3. \A s \in FormalSection : s.count \in Nat \ {0} /\ (s.by = "subroutine" => s.count = 1)
        BY DEF FormalSection
    <1>. QED  BY <1>2, <1>3

-----------------------------------------------------------------------------
(* What a step does to the call.                                           *)
LEMMA ReadingKeepsCall ==
    ASSUME CallInv, NEW a \in Written[callee], Read(a), Remaining > 0,
           UNCHANGED <<callee, wanted, count>>,
           errors' \subseteq errors \cup 0..AtEnd,
           status' \in {status, "done"}
    PROVE  /\ CallInv'
           /\ Len(actuals') = Len(actuals) + 1
           /\ IsDeclared' = IsDeclared
    <1>1. a \in AnyActual
        BY DEF CallInv, AnyActual
    <1>2. actuals' \in Seq(AnyActual) /\ Len(actuals') = Len(actuals) + 1
        BY <1>1 DEF CallInv, Read
    <1>. QED  BY <1>2 DEF CallInv, Remaining, AtEnd, IsDeclared

LEMMA StoppingKeepsCall ==
    ASSUME CallInv, NEW STATE places, places \in SUBSET (0..AtEnd),
           NEW STATE result, Stop(places, result),
           actuals' = actuals
    PROVE  CallInv' /\ IsDeclared' = IsDeclared /\ Remaining' = Remaining
    BY DEF CallInv, Stop, AtEnd, IsDeclared, Remaining

(* Nothing happens to the sections.                                        *)
LEMMA SectionsStay ==
    ASSUME SectionInv, UNCHANGED sectionVars, callee' = callee, wanted' = wanted, 
           Remaining' = Remaining \/ ~IsDeclared
    PROVE  SectionInv'
    BY DEF SectionInv, sectionVars, IsDeclared, Parameters, Section

LEMMA TakeNextKeepsTypes ==
    ASSUME TypeInv, status = "declared", NEW a \in Written[callee], NEW by,
           NEW STATE type, NEW STATE isGood, NEW STATE isWrong,
           isGood /\ by # "subroutine" => type \in Type,
           TakeNext(by, a, isGood, isWrong, type), UNCHANGED fileVars
    PROVE  TypeInv'
    <1>1. /\ IsDeclared
          /\ Parameters \in Seq(FormalSection)
          /\ Len(Parameters) \in Nat
          /\ section \in 1..Len(Parameters)
          /\ Section.count \in Nat \ {0}
          /\ Section.by = "subroutine" => Section.count = 1
        BY SectionsOfParameters DEF TypeInv, CallInv, SectionInv, TakeNext, Section
    <1>2. /\ Remaining \in Int
          /\ Section.count - taken <= Remaining
          /\ taken < Section.count
          /\ Remaining > 0
        BY <1>1 DEF TypeInv, CallInv, SectionInv, TakeNext, Remaining
    <1>3. errors' \subseteq errors \cup 0..AtEnd
        BY <1>2 DEF TakeNext, At, Place, AtEnd, Remaining, TypeInv, CallInv
    <1>4. /\ CallInv'
          /\ Len(actuals') = Len(actuals) + 1
          /\ IsDeclared' = IsDeclared
        BY <1>2, <1>3, ReadingKeepsCall DEF TakeNext, TypeInv
    <1>5. SectionInv'
        <2>. DEFINE goodNow == IF isGood THEN good + 1 ELSE good
        <2>1. goodNow \in Nat /\ goodNow <= taken + 1
            BY DEF TypeInv, SectionInv
        <2>2. Remaining' = Remaining - 1 /\ Parameters' = Parameters
            BY <1>4 DEF Remaining, Parameters, TakeNext, TypeInv, CallInv
        <2>3. CASE taken + 1 = Section.count
            <3>1. /\ section' = section + 1 /\ taken' = 0 /\ good' = 0 /\ first' = NoType
                  /\ built' \in {built, Append(built, section)}
                BY <2>3 DEF TakeNext, Take
            <3>2. built \in Seq(Nat) /\ section \in Nat /\ Len(built) < section
                BY <1>1 DEF TypeInv, SectionInv
            <3>3. /\ Append(built, section) \in Seq(Nat)
                  /\ Len(Append(built, section)) = Len(built) + 1
                  /\ Len(built) \in Nat
                BY <3>2
            <3>4. built' \in Seq(Nat) /\ Len(built') < section'
                BY <3>1, <3>2, <3>3
            <3>. QED  BY <1>1, <1>4, <2>2, <3>1, <3>4 DEF TypeInv, SectionInv
        <2>4. CASE taken + 1 # Section.count
            <3>1. /\ section' = section /\ taken' = taken + 1 /\ good' = goodNow
                  /\ first' = (IF isGood /\ good = 0 THEN type ELSE first)
                  /\ built' = built
                BY <2>4 DEF TakeNext, Take
            <3>2. Section' = Section
                BY <2>2, <3>1 DEF Section
            <3>3. by # "subroutine"
                BY <1>1, <1>2, <2>4 DEF TakeNext, TypeInv, SectionInv
            <3>4. (good' > 0 => first' \in Type) /\ (good' = 0 => first' = NoType)
                BY <2>1, <3>1, <3>3 DEF TypeInv, SectionInv
            <3>5. /\ taken' < Section'.count
                  /\ Section'.count - taken' <= Remaining'
                BY <1>1, <1>2, <2>2, <2>4, <3>1, <3>2 DEF TypeInv, SectionInv
            <3>. QED  BY <1>1, <1>4, <2>1, <2>2, <3>1, <3>4, <3>5 DEF TypeInv, SectionInv
        <2>. QED  BY <2>3, <2>4
    <1>6. FileInv'
        BY <1>4 DEF TypeInv, FileInv, CallInv, fileVars, TakeNext
    <1>. QED  BY <1>4, <1>5, <1>6 DEF TypeInv

-----------------------------------------------------------------------------
(* Declared procedures and functions.                                      *)
LEMMA DeclaredKeepsTypes ==
    ASSUME TypeInv, CallDeclared
    PROVE  TypeInv'
    <1>1. /\ status = "declared"
          /\ UNCHANGED fileVars
        BY DEF CallDeclared
    <1>2. /\ IsDeclared
          /\ Parameters \in Seq(FormalSection)
          /\ Len(Parameters) \in Nat
        BY <1>1, SectionsOfParameters DEF TypeInv, CallInv
    <1>3. CASE MissingParameter
        <2>1. AtEnd \in 0..AtEnd
            BY DEF AtEnd, TypeInv, CallInv
        <2>2. CallInv' /\ IsDeclared' = IsDeclared /\ Remaining' = Remaining
            BY <1>3, <2>1, StoppingKeepsCall DEF MissingParameter, TypeInv
        <2>3. SectionInv'
            BY <1>3, <2>2, SectionsStay DEF MissingParameter, TypeInv, Stop
        <2>4. FileInv'
            BY <1>1, <1>3 DEF MissingParameter, TypeInv, FileInv, Stop, fileVars, Results
        <2>. QED  BY <2>2, <2>3, <2>4 DEF TypeInv
    <1>4. CASE FinishCall
        <2>1. Extraneous(Place) \in SUBSET (0..AtEnd)
            BY DEF AtEnd, TypeInv, CallInv, Extraneous, At, Place
        <2>2. CallInv' /\ IsDeclared' = IsDeclared /\ Remaining' = Remaining
            BY <1>4, <2>1, StoppingKeepsCall DEF FinishCall, TypeInv
        <2>3. SectionInv'
            BY <1>4, <2>2, SectionsStay DEF FinishCall, TypeInv, Stop
        <2>4. FileInv'
            BY <1>1, <1>4 DEF FinishCall, TypeInv, FileInv, Stop, fileVars, Results
        <2>. QED  BY <2>2, <2>3, <2>4 DEF TypeInv
    <1>5. ASSUME NEW a \in Written[callee], VariableParameter(a)
          PROVE  TypeInv'
        <2>1. a \in AnyActual
            BY DEF AnyActual, TypeInv, CallInv
        <2>2. IsVariableAccess(a) => VariableType(a) \in Type
            BY <2>1, TypesOfActuals
        <2>. DEFINE isGood ==
                /\ IsVariableAccess(a)
                /\ IF IsSchema(Section.type) THEN IsConformable(VariableType(a))
                   ELSE VariableType(a) = Section.type
                /\ a.form = "field" => ~Types[a.of].packed /\ <<a.of, a.field>> \notin TagFields
                /\ a.form = "component" => ~Types[a.of].packed
        <2>3. TakeNext("variable", a, isGood, ~isGood, VariableType(a))
            BY <1>5 DEF VariableParameter
        <2>4. isGood => VariableType(a) \in Type
            BY <2>2
        <2>. HIDE DEF isGood
        <2>. QED  BY <1>1, <2>3, <2>4, TakeNextKeepsTypes
    <1>6. ASSUME NEW a \in Written[callee], ValueParameter(a)
          PROVE  TypeInv'
        <2>1. a \in AnyActual
            BY DEF AnyActual, TypeInv, CallInv
        <2>2. ValueType(a) \in Type
            BY <2>1, TypesOfActuals
        <2>. DEFINE isGood ==
                IF IsSchema(Section.type)
                THEN IsConformable(ValueType(a)) /\ ~IsSchema(ValueType(a))
                ELSE AssignmentCompatible(ValueType(a), Section.type)
        <2>3. TakeNext("value", a, isGood, ~isGood \/ HasNoValue(a), ValueType(a))
            BY <1>6 DEF ValueParameter
        <2>. HIDE DEF isGood
        <2>. QED  BY <1>1, <2>2, <2>3, TakeNextKeepsTypes
    <1>7. ASSUME NEW a \in Written[callee], SubroutineParameter(a)
          PROVE  TypeInv'
        <2>. DEFINE result == Signatures[Section.signature].result
                    isGood ==
                        /\ a.form = "name"
                        /\ Names[a.of].kind = IF result = NoType THEN "procedure" ELSE "function"
                        /\ Congruous[Names[a.of].signature][Section.signature]
                        /\ Signatures[Names[a.of].signature].result = result
        <2>1. TakeNext("subroutine", a, isGood, ~isGood, NoType)
            BY <1>7 DEF SubroutineParameter
        <2>. HIDE DEF isGood
        <2>. QED  BY <1>1, <2>1, TakeNextKeepsTypes
    <1>. QED  BY <1>3, <1>4, <1>5, <1>6, <1>7 DEF CallDeclared

-----------------------------------------------------------------------------
(* Required procedures and functions.  Their sections are left alone.      *)
LEMMA RequiredSectionsStay ==
    ASSUME TypeInv, CallInv', status = "required", UNCHANGED <<callee, wanted>>, UNCHANGED sectionVars
    PROVE  SectionInv'
    BY SectionsStay DEF TypeInv, CallInv

LEMMA AnswerKeepsTypes ==
    ASSUME TypeInv, status = "required", UNCHANGED sectionVars, Remaining > 0,
           NEW a \in Written[callee], NEW STATE places, places \in SUBSET (0..AtEnd),
           NEW STATE result, result \in Results,
           Answer(a, places, result)
    PROVE  TypeInv'
    <1>1. CallInv' /\ Len(actuals') = Len(actuals) + 1
        BY ReadingKeepsCall DEF Answer, Stop, TypeInv
    <1>2. SectionInv'
        BY <1>1, RequiredSectionsStay DEF Answer, Stop
    <1>3. FileInv'
        BY <1>1 DEF Answer, Stop, TypeInv, FileInv, CallInv, fileVars
    <1>. QED  BY <1>1, <1>2, <1>3 DEF TypeInv

LEMMA GoOnKeepsTypes ==
    ASSUME TypeInv, status = "required", UNCHANGED sectionVars, Remaining > 0,
           NEW a \in Written[callee], NEW STATE places, places \in SUBSET (0..AtEnd), GoOn(a, places),
           file' \in {NoFile} \cup TypeFileLike, kept' \in {kept, kept + 1}
    PROVE  TypeInv'
    <1>1. CallInv' /\ Len(actuals') = Len(actuals) + 1
        BY ReadingKeepsCall DEF GoOn, TypeInv
    <1>2. SectionInv'
        BY <1>1, RequiredSectionsStay DEF GoOn
    <1>3. FileInv'
        BY <1>1 DEF GoOn, TypeInv, FileInv, CallInv
    <1>. QED  BY <1>1, <1>2, <1>3 DEF TypeInv

LEMMA FinishKeepsTypes ==
    ASSUME TypeInv, status = "required", UNCHANGED sectionVars, UNCHANGED <<actuals, fileVars>>,
           NEW STATE places, places \in SUBSET (0..AtEnd),
           NEW STATE result, result \in Results, Stop(places, result)
    PROVE  TypeInv'
    <1>1. CallInv'
        BY StoppingKeepsCall DEF TypeInv
    <1>2. SectionInv'
        BY <1>1, RequiredSectionsStay DEF Stop
    <1>3. FileInv'
        BY DEF Stop, TypeInv, FileInv, fileVars
    <1>. QED  BY <1>1, <1>2, <1>3 DEF TypeInv

(* Errors are reported at actual parameters or at the end.                 *)
LEMMA PlacesOfErrors ==
    ASSUME CallInv, NEW c1, NEW c2, NEW c3
    PROVE  /\ At(AtEnd, c1) \in SUBSET (0..AtEnd)
           /\ {AtEnd} \in SUBSET (0..AtEnd)
           /\ {} \in SUBSET (0..AtEnd)
           /\ Remaining > 0 =>
                /\ {1} \in SUBSET (0..AtEnd)
                /\ {Place} \in SUBSET (0..AtEnd)
                /\ At(1, c1) \in SUBSET (0..AtEnd)
                /\ At(Place, c1) \in SUBSET (0..AtEnd)
                /\ At(1, c1) \cup Extraneous(2) \in SUBSET (0..AtEnd)
                /\ At(1, c1) \cup {AtEnd} \in SUBSET (0..AtEnd)
                /\ At(Place, c1) \cup {AtEnd} \in SUBSET (0..AtEnd)
                /\ At(Place, c1) \cup Extraneous(4) \in SUBSET (0..AtEnd)
    BY DEF CallInv, At, AtEnd, Place, Remaining, Extraneous

LEMMA RequiredKeepsTypes ==
    ASSUME TypeInv, CallRequired
    PROVE  TypeInv'
    <1>1. status = "required" /\ UNCHANGED sectionVars /\ CallInv
        BY DEF CallRequired, TypeInv
    <1>2. CASE MissingFirst
        <2>1. PICK result \in Results : Stop({AtEnd}, result)
            BY <1>2 DEF MissingFirst, Results, RequiredFunctions, OneValueFunctions
        <2>. QED  BY <1>1, <1>2, <2>1, PlacesOfErrors, FinishKeepsTypes DEF MissingFirst
    <1>3. CASE UseDefaultFile
        <2>1. PICK result \in Results :
                Stop({AtEnd}, result) \/ Stop(At(AtEnd, ~HasDefaultFile), result)
            BY <1>3 DEF UseDefaultFile, Results, RequiredFunctions, RequiredProcedures, FileFunctions
        <2>. QED  BY <1>1, <1>3, <2>1, PlacesOfErrors, FinishKeepsTypes DEF UseDefaultFile
    <1>4. CASE FinishReading
        <2>1. PICK result \in Results : Stop({}, result)
            BY <1>4 DEF FinishReading, Results, RequiredProcedures
        <2>. QED  BY <1>1, <1>4, <2>1, PlacesOfErrors, FinishKeepsTypes DEF FinishReading
    <1>5. CASE FinishWriting
        <2>1. PICK result \in Results : Stop({}, result)
            BY <1>5 DEF FinishWriting, Results, RequiredProcedures
        <2>. QED  BY <1>1, <1>5, <2>1, PlacesOfErrors, FinishKeepsTypes DEF FinishWriting
    <1>6. ASSUME NEW a \in Written[callee], Required(a)
          PROVE  TypeInv'
        <2>1. CASE OneValue(a)
            <3>1. PICK c \in BOOLEAN : Answer(a, At(1, c) \cup Extraneous(2), callee)
                BY <2>1 DEF OneValue
            <3>2. callee \in Results /\ Remaining > 0
                BY <2>1, <3>1 DEF OneValue, Results, RequiredFunctions
            <3>. QED  BY <1>1, <3>1, <3>2, PlacesOfErrors, AnswerKeepsTypes
        <2>2. CASE OneFile(a)
            <3>1. callee \in Results /\ "fallback" \in Results /\ Remaining > 0
                BY <2>2 DEF OneFile, Results, RequiredFunctions, RequiredProcedures, FileFunctions, GetLike
            <3>2. PICK c \in BOOLEAN, result \in Results :
                    Answer(a, {1}, result) \/ Answer(a, At(1, c) \cup Extraneous(2), result)
                BY <2>2, <3>1 DEF OneFile
            <3>. QED  BY <1>1, <3>1, <3>2, PlacesOfErrors, AnswerKeepsTypes
        <2>3. CASE Transfer(a)
            <3>1. callee \in Results /\ "fallback" \in Results /\ Remaining > 0
                BY <2>3 DEF Transfer, Results, RequiredProcedures
            <3>2. PICK c \in BOOLEAN :
                    \/ Answer(a, {Place}, "fallback")
                    \/ Answer(a, At(Place, c) \cup Extraneous(4), callee)
                    \/ Answer(a, At(Place, c) \cup {AtEnd}, "fallback")
                    \/ GoOn(a, At(Place, c)) /\ UNCHANGED fileVars
                BY <2>3 DEF Transfer
            <3>3. CASE GoOn(a, At(Place, c)) /\ UNCHANGED fileVars
                <4>1. file' \in {NoFile} \cup TypeFileLike /\ kept' = kept
                    BY <3>3 DEF TypeInv, FileInv, fileVars
                <4>. QED  BY <1>1, <3>1, <3>3, <4>1, PlacesOfErrors, GoOnKeepsTypes
            <3>. QED  BY <1>1, <3>1, <3>2, <3>3, PlacesOfErrors, AnswerKeepsTypes
        <2>. DEFINE Goes(a0) ==
                /\ \E c \in BOOLEAN : GoOn(a0, At(1, c)) \/ GoOn(a0, At(Place, c))
                /\ file' \in {NoFile} \cup TypeFileLike
                /\ kept' \in {kept, kept + 1}
        <2>4. /\ Remaining > 0
              /\ \/ Goes(a)
                 \/ Answer(a, {1}, "fallback")
                 \/ \E c \in BOOLEAN : Answer(a, At(1, c) \cup {AtEnd}, "fallback")
              => TypeInv'
            <3>1. "fallback" \in Results
                BY DEF Results
            <3>. QED  BY <1>1, <3>1, PlacesOfErrors, AnswerKeepsTypes, GoOnKeepsTypes
        <2>5. /\ a \in AnyActual
              /\ Text \in TypeFileLike
              /\ IsVariableAccess(a) =>
                    (IsText(VariableType(a)) \/ IsTypedFile(VariableType(a)) => VariableType(a) \in TypeFileLike)
            <3>1. a \in AnyActual
                BY <1>1 DEF CallInv, AnyActual
            <3>. QED  BY <3>1, TypesOfActuals DEF IsText, IsTypedFile, TypeFileLike, OfForm
        <2>. HIDE DEF Goes
        <2>6. \A fits, f : Remaining > 0 /\ KeepIf(fits, a, f) /\ f \in {NoFile} \cup TypeFileLike => Goes(a)
            BY DEF KeepIf, Goes
        <2>7. ASSUME NEW callees, NEW line, IsVariableAccess(a),
                     IsFileOf(callees, VariableType(a)), TakeFile(a, line)
              PROVE  Goes(a) \/ \E c \in BOOLEAN : Answer(a, At(1, c) \cup {AtEnd}, "fallback")
            <3>. DEFINE c == IsFormatted(a)
            <3>1. c \in BOOLEAN
                BY DEF IsFormatted
            <3>2. \/ Answer(a, At(1, c) \cup {AtEnd}, "fallback")
                  \/ /\ GoOn(a, At(1, c))
                     /\ file' = VariableType(a) /\ kept' = kept
                BY <2>7 DEF TakeFile
            <3>3. VariableType(a) \in TypeFileLike
                BY <2>5, <2>7 DEF IsFileOf
            <3>. HIDE DEF c
            <3>. QED  BY <3>1, <3>2, <3>3 DEF Goes
        <2>8. WriteText(a) => Goes(a)
            BY <2>5 DEF WriteText, Goes
        <2>9. CASE FirstToRead(a)
            BY <2>4, <2>5, <2>6, <2>7, <2>9 DEF FirstToRead
        <2>10. CASE NextToRead(a)
            BY <2>4, <2>6, <2>10 DEF NextToRead, TypeInv, FileInv
        <2>11. CASE FirstToWrite(a)
            <3>. DEFINE t == ValueType(a)
            <3>1. CASE IsFileOf({"write"}, t) /\ IsVariableAccess(a)
                <4>1. t = VariableType(a)
                    BY <2>5, <3>1, FilesArePromoted DEF IsFileOf, IsText, IsTypedFile
                <4>2. Remaining > 0 /\ TakeFile(a, "writeln")
                    BY <2>11, <3>1 DEF FirstToWrite
                <4>. QED  BY <2>4, <2>7, <3>1, <4>1, <4>2
            <3>2. CASE ~(IsFileOf({"write"}, t) /\ IsVariableAccess(a))
                BY <2>4, <2>8, <2>11, <3>2 DEF FirstToWrite
            <3>. QED  BY <3>1, <3>2
        <2>12. CASE NextToWrite(a)
            BY <2>4, <2>5, <2>8, <2>12 DEF NextToWrite, Goes, TypeInv, FileInv
        <2>. QED  BY <1>6, <2>1, <2>2, <2>3, <2>9, <2>10, <2>11, <2>12 DEF Required
    <1>. QED  BY <1>2, <1>3, <1>4, <1>5, <1>6 DEF CallRequired

-----------------------------------------------------------------------------
LEMMA InitialTypes ==
    ASSUME Init
    PROVE  TypeInv
    <1>1. count \in Nat
        BY DEF Init, ParameterAssumption
    <1>2. CallInv
        BY <1>1 DEF Init, CallInv
    <1>3. IsDeclared => Len(Parameters) \in Nat
        BY <1>2, SectionsOfParameters DEF CallInv
    <1>4. SectionInv
        BY <1>3 DEF Init, SectionInv
    <1>5. FileInv
        BY DEF Init, FileInv, Results
    <1>. QED  BY <1>2, <1>4, <1>5 DEF TypeInv

LEMMA LookUpKeepsTypes ==
    ASSUME TypeInv, LookUp
    PROVE  TypeInv'
    <1>1. CASE Found = "nothing"
        <2>1. {0} \in SUBSET (0..AtEnd) /\ Stop({0}, "fallback") /\ actuals' = actuals
            BY <1>1 DEF LookUp, TypeInv, CallInv, AtEnd
        <2>2. CallInv' /\ IsDeclared' = IsDeclared /\ Remaining' = Remaining
            BY <2>1, StoppingKeepsCall DEF TypeInv
        <2>3. SectionInv'
            BY <2>1, <2>2, SectionsStay DEF TypeInv, LookUp, Stop
        <2>4. FileInv'
            BY <2>1 DEF TypeInv, FileInv, LookUp, Stop, fileVars, Results
        <2>. QED  BY <2>2, <2>3, <2>4 DEF TypeInv
    <1>2. CASE Found # "nothing"
        <2>1. /\ status' = Found
              /\ UNCHANGED <<callee, wanted, count, errors, node, actuals>>
              /\ UNCHANGED sectionVars /\ UNCHANGED fileVars
            BY <1>2 DEF LookUp
        <2>2. \/ status' = "declared" /\ IsDeclared
              \/ status' = "required" /\ ~IsDeclared
            BY <1>2, <2>1 DEF Found, RequiredKind, IsDeclared, TypeInv, CallInv
        <2>3. CallInv' /\ IsDeclared' = IsDeclared /\ Remaining' = Remaining
            BY <2>1, <2>2 DEF TypeInv, CallInv, IsDeclared, Remaining, AtEnd
        <2>4. SectionInv'
            BY <2>1, <2>3, SectionsStay DEF TypeInv
        <2>5. FileInv'
            BY <2>1 DEF TypeInv, FileInv, fileVars
        <2>. QED  BY <2>3, <2>4, <2>5 DEF TypeInv
    <1>. QED  BY <1>1, <1>2

LEMMA NothingKeepsTypes ==
    ASSUME TypeInv, UNCHANGED vars
    PROVE  TypeInv'
    BY DEF TypeInv, CallInv, SectionInv, FileInv, vars, callVars, sectionVars, fileVars, IsDeclared,
           Parameters, Section, Remaining, AtEnd

LEMMA TypesAreKept == Spec => []TypeInv
    <1>1. Init => TypeInv
        BY InitialTypes
    <1>2. TypeInv /\ [Next]_vars => TypeInv'
        BY LookUpKeepsTypes, DeclaredKeepsTypes, RequiredKeepsTypes, NothingKeepsTypes DEF Next, Done
    <1>. QED  BY <1>1, <1>2, PTL DEF Spec

(* For all types, names and signatures: the sections and the actual        *)
(* parameters are walked in step, so that there is always a section for    *)
(* what is counted, and the type of the first good parameter of a section  *)
(* is known exactly while there is one.                                    *)
THEOREM CallsTypeCorrect == Spec => []TypeOK
    <1>1. TypeInv => TypeOK
        BY DEF TypeInv, CallInv, SectionInv, FileInv, TypeOK, IsDeclared, Results
    <1>. QED  BY <1>1, TypesAreKept, PTL

-----------------------------------------------------------------------------
(* What becomes of a call.                                                 *)
LostOnlyAfterErrors == node = "fallback" => errors # {}

(* As long as there are no errors, every section that is left behind has   *)
(* come out well and every actual parameter of the next one is good; and   *)
(* after its first actual parameter, a read or a write has something to    *)
(* read or write, unless that was the file and there is another to come.   *)
Flawless ==
    errors = {} =>
        /\ status = "lookup" => section = 1 /\ built = <<>> /\ good = taken /\ actuals = <<>>
        /\ status = "declared" => Len(built) = section - 1 /\ good = taken
        /\ status = "required" /\ callee \in {"read", "write"} /\ Place > 1 =>
                kept > 0 \/ (Place = 2 /\ count >= 2)

Kept == LostOnlyAfterErrors /\ Flawless

LEMMA DeclaredCallsAreKept ==
    ASSUME TypeInv, Kept, CallDeclared
    PROVE  Kept'
    <1>1. status = "declared" /\ UNCHANGED fileVars
        BY DEF CallDeclared
    <1>2. IsDeclared /\ Len(Parameters) \in Nat
        BY <1>1, SectionsOfParameters DEF TypeInv, CallInv
    <1>3. CASE MissingParameter
        BY <1>3 DEF MissingParameter, Stop, Kept, LostOnlyAfterErrors, Flawless
    <1>4. CASE FinishCall
        <2>1. errors = {} => Len(built) = Len(Parameters)
            BY <1>1, <1>2, <1>4 DEF FinishCall, Kept, Flawless, TypeInv, SectionInv
        <2>. QED  BY <1>4, <2>1 DEF FinishCall, Stop, Kept, LostOnlyAfterErrors, Flawless
    <1>5. ASSUME NEW by, NEW a \in Written[callee],
                 NEW STATE isGood, NEW STATE isWrong, NEW STATE type,
                 ~isGood => isWrong, TakeNext(by, a, isGood, isWrong, type)
          PROVE  Kept'
        <2>1. LostOnlyAfterErrors'
            BY <1>5 DEF TakeNext, Kept, LostOnlyAfterErrors
        <2>2. ASSUME errors' = {}
              PROVE  Len(built') = section' - 1 /\ good' = taken'
            <3>1. errors = {} /\ isGood
                BY <1>5, <2>2 DEF TakeNext, At
            <3>2. /\ Len(built) = section - 1 /\ good = taken
                  /\ built \in Seq(Nat) /\ section \in Nat /\ good \in Nat
                BY <1>1, <3>1 DEF Kept, Flawless, TypeInv, SectionInv
            <3>3. Len(Append(built, section)) = Len(built) + 1
                BY <3>2
            <3>. QED  BY <1>5, <3>1, <3>2, <3>3 DEF TakeNext, Take
        <2>3. status' = "declared"
            BY <1>1, <1>5 DEF TakeNext
        <2>. QED  BY <2>1, <2>2, <2>3 DEF Kept, Flawless
    <1>6. ASSUME NEW a \in Written[callee],
                 VariableParameter(a) \/ ValueParameter(a) \/ SubroutineParameter(a)
          PROVE  Kept'
        <2>1. CASE VariableParameter(a)
            BY <1>5, <2>1 DEF VariableParameter
        <2>2. CASE ValueParameter(a)
            BY <1>5, <2>2 DEF ValueParameter
        <2>3. CASE SubroutineParameter(a)
            BY <1>5, <2>3 DEF SubroutineParameter
        <2>. QED  BY <1>6, <2>1, <2>2, <2>3
    <1>. QED  BY <1>3, <1>4, <1>6 DEF CallDeclared

LEMMA RequiredCallsAreKept ==
    ASSUME TypeInv, Kept, CallRequired
    PROVE  Kept'
    <1>1. /\ status = "required"
          /\ count \in Nat /\ kept \in Nat /\ Len(actuals) \in Nat /\ Place \in Nat
        BY DEF CallRequired, TypeInv, CallInv, FileInv, Place
    <1>2. ASSUME NEW STATE places, NEW STATE result, Stop(places, result),
                 result = "fallback" => errors \cup places # {}
          PROVE  Kept'
        BY <1>2 DEF Stop, Kept, LostOnlyAfterErrors, Flawless
    <1>3. CASE MissingFirst
        BY <1>2, <1>3 DEF MissingFirst
    <1>4. CASE UseDefaultFile
        BY <1>2, <1>4 DEF UseDefaultFile, FileFunctions
    <1>5. CASE FinishReading
        <2>1. callee = "read" /\ kept = 0 => errors # {}
            BY <1>1, <1>5 DEF FinishReading, Kept, Flawless, Place, Remaining
        <2>. QED  BY <1>2, <1>5, <2>1 DEF FinishReading
    <1>6. CASE FinishWriting
        <2>1. callee = "write" /\ kept = 0 => errors # {}
            BY <1>1, <1>6 DEF FinishWriting, Kept, Flawless, Place, Remaining
        <2>. QED  BY <1>2, <1>6, <2>1 DEF FinishWriting
    <1>7. ASSUME NEW a \in Written[callee], Required(a)
          PROVE  Kept'
        <2>1. /\ Place \in Nat /\ Place >= 1
              /\ Read(a) => Place' = Place + 1
            BY <1>1 DEF Read, Place, TypeInv, CallInv
        <2>2. ASSUME NEW STATE places, GoOn(a, places),
                     callee \in {"read", "write"} =>
                        errors \cup places # {} \/ kept' > 0 \/ (Place = 1 /\ count >= 2)
              PROVE  Kept'
            BY <1>1, <2>1, <2>2 DEF GoOn, Kept, LostOnlyAfterErrors, Flawless
        <2>3. ASSUME NEW STATE places, NEW STATE result, Answer(a, places, result),
                     result = "fallback" => errors \cup places # {}
              PROVE  Kept'
            BY <1>2, <2>3 DEF Answer
        <2>4. CASE OneValue(a)
            BY <2>3, <2>4 DEF OneValue, OneValueFunctions, AbsLike, ChrLike, PredLike, RoundLike
        <2>5. CASE OneFile(a)
            BY <2>3, <2>5 DEF OneFile, FileFunctions, GetLike
        <2>6. CASE Transfer(a)
            BY <2>2, <2>3, <2>6 DEF Transfer
        <2>7. ASSUME NEW line, line # callee \/ callee \notin {"read", "write"}, Place = 1, TakeFile(a, line)
              PROVE  Kept'
            BY <1>1, <2>2, <2>3, <2>7 DEF TakeFile
        <2>8. ASSUME NEW STATE fits, NEW STATE f, KeepIf(fits, a, f)
              PROVE  Kept'
            <3>1. errors \cup At(Place, ~fits \/ IsFormatted(a)) # {} \/ kept' > 0
                BY <1>1, <2>8 DEF KeepIf, At
            <3>. QED  BY <2>2, <2>8, <3>1 DEF KeepIf
        <2>9. ASSUME WriteText(a)
              PROVE  Kept'
            <3>. DEFINE places == At(Place, HasNoValue(a) \/ ~CanBeWritten(ValueType(a)) \/ ~FormatFits(a))
            <3>1. errors \cup places # {} \/ kept' > 0
                BY <1>1, <2>9 DEF WriteText, At
            <3>. HIDE DEF places
            <3>2. GoOn(a, places)
                BY <2>9 DEF WriteText, places
            <3>. QED  BY <2>2, <3>1, <3>2
        <2>10. CASE FirstToRead(a)
            BY <2>3, <2>7, <2>8, <2>10 DEF FirstToRead
        <2>11. CASE NextToRead(a)
            BY <2>8, <2>11 DEF NextToRead
        <2>12. CASE FirstToWrite(a)
            BY <2>3, <2>7, <2>9, <2>12 DEF FirstToWrite
        <2>13. CASE NextToWrite(a)
            <3>1. CASE WriteText(a)
                BY <2>9, <3>1
            <3>2. CASE ~WriteText(a)
                <4>. DEFINE fits == AssignmentCompatible(ValueType(a), Types[file].component)
                            places == At(Place, HasNoValue(a) \/ IsFormatted(a) \/ ~fits)
                <4>1. GoOn(a, places) /\ kept' = IF fits THEN kept + 1 ELSE kept
                    BY <2>13, <3>2 DEF NextToWrite
                <4>. HIDE DEF fits
                <4>2. errors \cup places # {} \/ kept' > 0
                    BY <1>1, <4>1 DEF At
                <4>. QED  BY <2>2, <4>1, <4>2
            <3>. QED  BY <3>1, <3>2
        <2>. QED  BY <1>7, <2>4, <2>5, <2>6, <2>10, <2>11, <2>12, <2>13 DEF Required
    <1>. QED  BY <1>3, <1>4, <1>5, <1>6, <1>7 DEF CallRequired

(* For all types, names and signatures: fallbackStatement() and            *)
(* fallbackExpression() stand for a call only after an error, so that a    *)
(* program is never accepted without one of its calls.                     *)
THEOREM CallsAreNotLost == Spec => []LostOnlyAfterErrors
    <1>1. Init => Kept
        BY DEF Init, Kept, LostOnlyAfterErrors, Flawless
    <1>2. ASSUME TypeInv, Kept, [Next]_vars
          PROVE  Kept'
        <2>1. CASE LookUp
            <3>1. CASE Found = "nothing"
                BY <2>1, <3>1 DEF LookUp, Stop, Kept, LostOnlyAfterErrors, Flawless
            <3>2. CASE Found # "nothing"
                <4>1. /\ status = "lookup" /\ status' = Found
                      /\ UNCHANGED <<errors, node, actuals>> /\ UNCHANGED sectionVars
                    BY <2>1, <3>2 DEF LookUp
                <4>2. Found \in {"declared", "required"}
                    BY <3>2 DEF Found
                <4>3. errors' = {} =>
                        section' = 1 /\ built' = <<>> /\ good' = taken' /\ actuals' = <<>>
                    BY <1>2, <4>1 DEF Kept, Flawless, sectionVars
                <4>4. Len(<<>>) = 0
                    OBVIOUS
                <4>5. errors' = {} => Len(built') = section' - 1 /\ ~(Place' > 1)
                    BY <4>3, <4>4 DEF Place
                <4>6. Flawless'
                    BY <4>1, <4>2, <4>3, <4>5 DEF Flawless
                <4>. QED  BY <1>2, <4>1, <4>6 DEF Kept, LostOnlyAfterErrors
            <3>. QED  BY <3>1, <3>2
        <2>2. CASE UNCHANGED vars
            BY <1>2, <2>2 DEF vars, callVars, sectionVars, fileVars, Kept, LostOnlyAfterErrors,
                              Flawless, Place
        <2>. QED  BY <1>2, <2>1, <2>2, DeclaredCallsAreKept, RequiredCallsAreKept DEF Next, Done
    <1>3. Kept => LostOnlyAfterErrors
        BY DEF Kept
    <1>. QED  BY <1>1, <1>2, <1>3, TypesAreKept, PTL DEF Spec
-----------------------------------------------------------------------------
(* Types: as in ExpressionProofs, of all values that are no subranges.     *)

(* The ordinal types are told by their forms.                              *)
LEMMA OrdinalForms ==
    ASSUME NEW t \in Type
    PROVE  /\ t \in TypeOrdinal => t \in TypeOrdinalDynamic
           /\ t \in TypeOrdinalDynamic => t \in TypeOrdinal \/ Form(t) = "bounds"
           /\ t \in TypeOrdinal <=> Form(t) \in {"Boolean", "char", "integer", "enumerated", "subrange"}
           /\ t \in TypeOrdinalDynamic <=>
                Form(t) \in {"Boolean", "char", "integer", "enumerated", "subrange", "bounds"}
    BY DEF TypeOrdinal, TypeOrdinalDynamic, SimpleForms, OfForm

(* The full range of an ordinal type or of bounds is a host type.          *)
LEMMA FullRangeType ==
    ASSUME NEW t \in TypeOrdinalDynamic
    PROVE  /\ FullRange(t) \in TypeOrdinal
           /\ Form(FullRange(t)) # "subrange"
           /\ FullRange(FullRange(t)) = FullRange(t)
    BY DEF FullRange, FullRangeOfOrdinal, TypesAssumption, TypeOrdinal, TypeOrdinalDynamic, SimpleForms, OfForm

(* Promotion comes to an end after one step.                               *)
LEMMA PromotedType ==
    ASSUME NEW t \in Type
    PROVE  Promoted(t) \in Type /\ Promoted(Promoted(t)) = Promoted(t)
    <1>1. CASE t \in TypeOrdinalDynamic
        BY <1>1, FullRangeType, OrdinalForms DEF Promoted, TypeOrdinal
    <1>2. CASE Form(t) = "set"
        <2>1. t \notin TypeOrdinalDynamic  BY <1>2, OrdinalForms
        <2>2. Types[t].host \in OfForm("set") /\ t \in OfForm("set")
            BY <1>2 DEF OfForm, TypesAssumption
        <2>3. Types[Types[t].host].host = Types[t].host
            BY <1>2, <2>2, FullRangeType DEF TypesAssumption
        <2>. QED BY <1>2, <2>1, <2>2, <2>3, OrdinalForms DEF Promoted, OfForm
    <1>3. CASE t \notin TypeOrdinalDynamic /\ Form(t) # "set"
        BY <1>3 DEF Promoted
    <1>. QED BY <1>1, <1>2, <1>3

(* The types the compiler itself has are promoted.                         *)
LEMMA BuiltinTypes ==
    /\ TypeBoolean \in TypeOrdinal /\ TypeInteger \in TypeOrdinal /\ TypeChar \in TypeOrdinal
    /\ \A t \in {TypeBoolean, TypeInteger, TypeChar, TypeReal, TypeSetAny, TypePointerAny} :
        t \in Type /\ Promoted(t) = t
    BY DEF TypesAssumption, TypeBoolean, TypeInteger, TypeChar, TypeReal, TypeSetAny,
           TypePointerAny, Promoted, FullRange, FullRangeOfOrdinal, TypeOrdinal,
           TypeOrdinalDynamic, SimpleForms, OfForm

(* A kind of value is given by its three parts.                            *)
LEMMA ValueParts ==
    \A f, o, s : /\ Value(f, o, s).family = f
                 /\ Value(f, o, s).of = o
                 /\ Value(f, o, s).shape = s
    BY DEF Value

(* Every type is of one of these kinds.                                    *)
OrdinalCase(t) == t \in TypeOrdinalDynamic /\ KindOf(t) = OrdinalValue(FullRange(t))
RealCase(t) == t = TypeReal /\ Form(t) = "real" /\ KindOf(t) = RealValue
StringCase(t) ==
    Form(t) = "array" /\ IsString(t) /\ KindOf(t) = StringValue(StringLength(t))
SetCase(t) ==
    /\ Form(t) = "set"
    /\ Types[t].base \in TypeOrdinal
    /\ Types[t].packed \in BOOLEAN
    /\ KindOf(t) = SetValue(FullRange(Types[t].base), IF Types[t].packed THEN Packed ELSE Unpacked)
IncompleteCase(t) ==
    /\ Form(t) = "set_incomplete"
    /\ Types[t].base \in TypeOrdinal
    /\ KindOf(t) = SetValue(FullRange(Types[t].base), Either)
EmptySetCase(t) == t = TypeSetAny /\ Form(t) = "set_any" /\ KindOf(t) = EmptySetValue
PointerCase(t) ==
    /\ t = TypePointerAny <=> Form(t) = "pointer_any"
    /\ Form(t) \in {"pointer", "pointer_any"}
    /\ KindOf(t) = PointerValue(t)
StructureCase(t) ==
    /\ t \notin TypeOrdinalDynamic /\ ~IsString(t)
    /\ Form(t) \notin {"real", "set", "set_incomplete", "set_any", "pointer", "pointer_any"}
    /\ t \notin {TypeReal, TypeSetAny, TypePointerAny}
    /\ KindOf(t) = Structure(t)

(* There are no other cases.                                               *)
LEMMA KindCases ==
    ASSUME NEW t \in Type
    PROVE  \/ OrdinalCase(t) \/ RealCase(t) \/ StringCase(t) \/ SetCase(t) \/ IncompleteCase(t)
           \/ EmptySetCase(t) \/ PointerCase(t) \/ StructureCase(t)
    <1>. DEFINE forms == {"Boolean", "char", "integer", "enumerated", "subrange", "bounds"}
    <1>1. t \in TypeOrdinalDynamic <=> Form(t) \in forms
        BY OrdinalForms
    <1>2. /\ t = TypeReal <=> Form(t) = "real"
          /\ t = TypeSetAny <=> Form(t) = "set_any"
          /\ t = TypePointerAny <=> Form(t) = "pointer_any"
        BY DEF TypesAssumption, TypeReal, OfForm
    <1>3. /\ Form(t) = "set" => Types[t].base \in TypeOrdinal /\ Types[t].packed \in BOOLEAN
          /\ Form(t) = "set_incomplete" => Types[t].base \in TypeOrdinal
        BY DEF TypesAssumption, OfForm
    <1>4. IsString(t) => Form(t) = "array"
        BY DEF IsString
    <1>5. CASE Form(t) \in forms
        BY <1>1, <1>5 DEF OrdinalCase, KindOf
    <1>6. CASE Form(t) = "real"
        BY <1>1, <1>2, <1>6 DEF RealCase, KindOf
    <1>7. CASE Form(t) = "array" /\ IsString(t)
        BY <1>1, <1>2, <1>7 DEF StringCase, KindOf
    <1>8. CASE Form(t) = "set"
        BY <1>1, <1>2, <1>3, <1>4, <1>8 DEF SetCase, KindOf
    <1>9. CASE Form(t) = "set_incomplete"
        BY <1>1, <1>2, <1>3, <1>4, <1>9 DEF IncompleteCase, KindOf
    <1>10. CASE Form(t) = "set_any"
        BY <1>1, <1>2, <1>4, <1>10 DEF EmptySetCase, KindOf
    <1>11. CASE Form(t) \in {"pointer", "pointer_any"}
        BY <1>1, <1>2, <1>4, <1>11 DEF PointerCase, KindOf
    <1>12. CASE /\ Form(t) \notin forms \cup {"real", "set", "set_incomplete", "set_any", "pointer", "pointer_any"}
                /\ ~IsString(t)
        BY <1>1, <1>2, <1>12 DEF StructureCase, KindOf
    <1>. QED BY <1>4, <1>5, <1>6, <1>7, <1>8, <1>9, <1>10, <1>11, <1>12

(* The type of a value is its whole range, as far as that is known.        *)
IsWhole(t) == Form(t) \notin {"subrange", "bounds"}

(* The kind of such a type tells builtin, ordinal and set types.           *)
LEMMA ValueKindsOfTypes ==
    ASSUME NEW t \in Type, IsWhole(t)
    PROVE  /\ KindOf(t) = BooleanValue <=> t = TypeBoolean
           /\ KindOf(t) = IntegerValue <=> t = TypeInteger
           /\ KindOf(t) = RealValue <=> t = TypeReal
           /\ KindOf(t).family = "ordinal" <=> t \in TypeOrdinal
           /\ t \in TypeOrdinal => KindOf(t) = OrdinalValue(t)
           /\ KindOf(t).family = "set" <=> Form(t) \in {"set", "set_incomplete", "set_any"}
    <1>. USE ValueParts DEF OrdinalValue, RealValue, StringValue, SetValue, EmptySetValue, PointerValue,
                 Structure, BooleanValue, IntegerValue
    <1>1. TypeBoolean \in TypeOrdinal /\ TypeInteger \in TypeOrdinal
        BY BuiltinTypes
    <1>2. t \in TypeOrdinalDynamic => t \in TypeOrdinal /\ FullRange(t) = t
        BY OrdinalForms DEF IsWhole, FullRange, FullRangeOfOrdinal
    <1>3. t \in TypeOrdinal => t \in TypeOrdinalDynamic
        BY OrdinalForms
    <1>4. TypeReal \notin TypeOrdinal
        BY DEF TypeOrdinal, SimpleForms, TypesAssumption, TypeReal
    <1>5. Form(TypeReal) = "real"
        BY DEF TypesAssumption, TypeReal
    <1>6. CASE t \in TypeOrdinalDynamic
        <2>1. t \in TypeOrdinal /\ KindOf(t) = Value("ordinal", t, Simple)
            BY <1>2, <1>6 DEF KindOf
        <2>2. Form(t) \notin {"set", "set_incomplete", "set_any"} /\ t # TypeReal
            BY <1>4, <2>1, OrdinalForms
        <2>3. KindOf(t).family = "ordinal" /\ KindOf(t).of = t
            BY <2>1
        <2>. QED BY <2>1, <2>2, <2>3
    <1>7. CASE t \notin TypeOrdinalDynamic
        <2>1. t \notin TypeOrdinal /\ t # TypeBoolean /\ t # TypeInteger
            BY <1>1, <1>3, <1>7
        <2>2. KindOf(t).family # "ordinal"
            BY <1>7, KindCases
            DEF OrdinalCase, RealCase, StringCase, SetCase, IncompleteCase, EmptySetCase, PointerCase,
                StructureCase
        <2>3. KindOf(t).family = "set" <=> Form(t) \in {"set", "set_incomplete", "set_any"}
            BY <1>5, <1>7, KindCases
            DEF OrdinalCase, RealCase, StringCase, SetCase, IncompleteCase, EmptySetCase, PointerCase,
                StructureCase
        <2>4. KindOf(t) = RealValue <=> t = TypeReal
            BY <1>5, <1>7, KindCases
            DEF OrdinalCase, RealCase, StringCase, SetCase, IncompleteCase, EmptySetCase, PointerCase,
                StructureCase
        <2>. QED BY <2>1, <2>2, <2>3, <2>4
    <1>. QED BY <1>6, <1>7

(* The builtin types are the only ones of their forms.                     *)
LEMMA BuiltinForms ==
    /\ Form(TypeReal) = "real" /\ Form(TypeInteger) = "integer" /\ Form(TypeBoolean) = "Boolean"
    /\ Form(TypeSetAny) = "set_any" /\ Form(TypePointerAny) = "pointer_any"
    /\ \A t \in Type : /\ Form(t) = "real" => t = TypeReal
                       /\ Form(t) = "set_any" => t = TypeSetAny
                       /\ Form(t) = "pointer_any" => t = TypePointerAny
    BY DEF TypesAssumption, TypeReal, TypeInteger, TypeBoolean, TypeSetAny, TypePointerAny, OfForm

(* Ordinal types are compatible if they have the same values.              *)
LEMMA ValuesOfOrdinals ==
    ASSUME NEW l \in Type, NEW t \in Type
    PROVE  OrdinalsAreCompatible(l, t) <=>
            /\ l \in TypeOrdinalDynamic /\ t \in TypeOrdinalDynamic
            /\ KindOf(l) = KindOf(t)
    BY ValueParts DEF OrdinalsAreCompatible, KindOf, OrdinalValue

(* What forms exclude each other.                                          *)
LEMMA FormsDiffer ==
    ASSUME NEW t \in Type
    PROVE  /\ t \in TypeOrdinalDynamic =>
                /\ Form(t) \notin {"array", "real", "set", "set_incomplete", "set_any", "pointer",
                                   "pointer_any"}
                /\ t \notin {TypeReal, TypeSetAny, TypePointerAny}
           /\ IsString(t) => Form(t) = "array"
    BY OrdinalForms, BuiltinForms DEF IsString

(* The base of a set has a host type.                                      *)
LEMMA BaseTypes ==
    ASSUME NEW b \in TypeOrdinal
    PROVE  /\ b \in TypeOrdinalDynamic
           /\ FullRange(b) \in TypeOrdinal
           /\ FullRange(b) # TypeSetAny
    <1>1. b \in Type /\ b \in TypeOrdinalDynamic
        BY DEF TypeOrdinal, TypeOrdinalDynamic
    <1>2. FullRange(b) \in TypeOrdinal
        BY <1>1, FullRangeType
    <1>3. FullRange(b) \in Type /\ FullRange(b) \in TypeOrdinalDynamic
        BY <1>2 DEF TypeOrdinal, TypeOrdinalDynamic
    <1>. QED BY <1>1, <1>2, <1>3, FormsDiffer

(* Integers are ordinal and real numbers are not.                          *)
LEMMA IntegerIsOrdinal ==
    TypeInteger \in TypeOrdinalDynamic /\ TypeInteger # TypeReal
    BY BuiltinTypes, BuiltinForms DEF TypeOrdinalDynamic

(* What is no structure, and a string, may be the component of a file.     *)
LEMMA FileComponents ==
    ASSUME NEW t \in Type
    PROVE  /\ Form(t) \notin {"array", "record", "file", "text"} => CanBeFileComponent[t]
           /\ IsString(t) => CanBeFileComponent[t]
    <1>1. Form(TypeChar) = "char" /\ TypeChar \in Type
        BY DEF TypesAssumption, TypeChar
    <1>2. IsString(t) => t \in OfForm("array") /\ Types[t].component = TypeChar
        BY DEF IsString, OfForm
    <1>. QED BY <1>1, <1>2, NoTypeIsPartOfItself DEF FileComponentsAreKnown

(* Assignment compatibility is what the kinds of the values allow.         *)
LEMMA AssignmentKinds ==
    ASSUME NEW l \in Type, IsWhole(l),
           NEW t \in Type, Form(t) \notin SyntheticForms
    PROVE  AssignmentCompatible(l, t) <=> MayBeAssigned(KindOf(l), t)
    <1>. USE ValueParts DEF OrdinalValue, RealValue, StringValue, SetValue, EmptySetValue, PointerValue,
                 Structure, BooleanValue, IntegerValue, NilValue
    <1>. USE DEF OrdinalCase, RealCase, StringCase, SetCase, IncompleteCase, EmptySetCase, PointerCase,
                 StructureCase
    <1>. USE FormsDiffer, BuiltinForms, FileComponents, IntegerIsOrdinal
         DEF AssignmentCompatible, Compatible, MayBeAssigned, SyntheticForms, AreSets, Agree,
             Simple, Either, Packed, Unpacked
    <1>1. CASE OrdinalCase(l)
        BY <1>1, SMTT(30), KindCases, ValuesOfOrdinals, ValueKindsOfTypes, OrdinalForms DEF IsWhole
    <1>2. CASE RealCase(l)
        BY <1>2, SMTT(30), KindCases, ValuesOfOrdinals
    <1>3. CASE StringCase(l)
        BY <1>3, SMTT(30), KindCases, ValuesOfOrdinals
    <1>4. CASE SetCase(l)
        BY <1>4, SMTT(30), KindCases, BaseTypes DEF OrdinalsAreCompatible
    <1>5. CASE IncompleteCase(l)
        BY <1>5, SMTT(30), KindCases, BaseTypes DEF OrdinalsAreCompatible
    <1>6. CASE EmptySetCase(l)
        BY <1>6, SMTT(30), KindCases, ValuesOfOrdinals
    <1>7. CASE PointerCase(l)
        BY <1>7, SMTT(30), KindCases, ValuesOfOrdinals
    <1>8. CASE StructureCase(l)
        BY <1>8, SMTT(30), KindCases, ValuesOfOrdinals
    <1>. QED BY <1>1, <1>2, <1>3, <1>4, <1>5, <1>6, <1>7, <1>8, KindCases

(* A value of a whole range is known by the kind of its type, another one  *)
(* is narrow.                                                              *)
LEMMA ValuesByRange ==
    ASSUME NEW t \in Type
    PROVE  /\ IsWhole(t) => ValueOf(t) = KindOf(t)
           /\ ~IsWhole(t) => /\ ValueOf(t) = NarrowValue(FullRange(t))
                             /\ t \in TypeOrdinalDynamic
                             /\ KindOf(t) = OrdinalValue(FullRange(t))
    BY OrdinalForms DEF ValueOf, IsWhole, KindOf

(* A narrow value is of none of the kinds that types have.                 *)
LEMMA NarrowValues ==
    ASSUME NEW h, NEW t \in Type
    PROVE  /\ NarrowValue(h).family = "ordinal" /\ NarrowValue(h).of = h
           /\ NarrowValue(h) # KindOf(t)
           /\ NarrowValue(h) \notin {IntegerValue, RealValue, BooleanValue, NilValue}
           /\ \A o : NarrowValue(h) # OrdinalValue(o)
    <1>. USE ValueParts DEF NarrowValue, Narrow, Simple
    <1>1. \A o : NarrowValue(h) # OrdinalValue(o)
        BY DEF OrdinalValue
    <1>2. NarrowValue(h) # KindOf(t)
        BY <1>1, KindCases
           DEF RealValue, StringValue, SetValue, EmptySetValue, PointerValue, Structure,
               OrdinalCase, RealCase, StringCase, SetCase, IncompleteCase, EmptySetCase, PointerCase, StructureCase
    <1>. QED BY <1>1, <1>2 DEF IntegerValue, RealValue, BooleanValue, NilValue, PointerValue

(* A type has ordinal values of the host h if its kind says so.            *)
LEMMA OrdinalKinds ==
    ASSUME NEW t \in Type, NEW h
    PROVE  KindOf(t) = OrdinalValue(h) <=> t \in TypeOrdinalDynamic /\ FullRange(t) = h
    <1>1. KindOf(t).family = "ordinal" <=> t \in TypeOrdinalDynamic
        BY KindCases, ValueParts, FormsDiffer
           DEF OrdinalValue, RealValue, StringValue, SetValue, EmptySetValue, PointerValue, Structure,
               OrdinalCase, RealCase, StringCase, SetCase, IncompleteCase, EmptySetCase, PointerCase, StructureCase
    <1>2. t \in TypeOrdinalDynamic => KindOf(t) = OrdinalValue(FullRange(t))
        BY DEF KindOf
    <1>. QED BY <1>1, <1>2, ValueParts DEF OrdinalValue

(* Assignment compatibility is what may be done with a value of the type.  *)
LEMMA GivenKinds ==
    ASSUME NEW l \in Type,
           NEW t \in Type, Form(t) \notin SyntheticForms
    PROVE  AssignmentCompatible(l, t) <=> MayBeGiven(ValueOf(l), t)
    <1>1. CASE IsWhole(l)
        <2>1. ValueOf(l) = KindOf(l) /\ (AssignmentCompatible(l, t) <=> MayBeAssigned(KindOf(l), t))
            BY <1>1, ValuesByRange, AssignmentKinds
        <2>2. ASSUME KindOf(l).family = "ordinal", KindOf(t) = OrdinalValue(KindOf(l).of)
              PROVE  MayBeAssigned(KindOf(l), t)
            <3>1. KindOf(l) = OrdinalValue(KindOf(l).of)
                BY <2>2, KindCases, ValueParts
                   DEF OrdinalValue, RealValue, StringValue, SetValue, EmptySetValue, PointerValue, Structure,
                       OrdinalCase, RealCase, StringCase, SetCase, IncompleteCase, EmptySetCase, PointerCase,
                       StructureCase
            <3>. QED BY <2>2, <3>1 DEF MayBeAssigned
        <2>. QED BY <2>1, <2>2 DEF MayBeGiven
    <1>2. CASE ~IsWhole(l)
        <2>. DEFINE h == FullRange(l)
        <2>1. /\ ValueOf(l) = NarrowValue(h) /\ l \in TypeOrdinalDynamic
              /\ l \notin {TypeInteger, TypeSetAny, TypePointerAny}
              /\ Form(l) \notin {"array", "set", "set_incomplete"}
            BY <1>2, ValuesByRange, FormsDiffer, BuiltinForms DEF IsWhole
        <2>2. AssignmentCompatible(l, t) <=> OrdinalsAreCompatible(l, t)
            <3>1. Compatible(l, t) <=> l = t \/ OrdinalsAreCompatible(l, t)
                BY <2>1, FormsDiffer DEF Compatible
            <3>2. OrdinalsAreCompatible(l, l)
                BY <2>1 DEF OrdinalsAreCompatible
            <3>3. CanBeFileComponent[l]
                BY <1>2, FileComponents DEF IsWhole
            <3>. QED BY <2>1, <3>1, <3>2, <3>3 DEF AssignmentCompatible
        <2>3. OrdinalsAreCompatible(l, t) <=> KindOf(t) = OrdinalValue(h)
            BY <2>1, OrdinalKinds DEF OrdinalsAreCompatible
        <2>4. ~MayBeAssigned(NarrowValue(h), t)
            BY NarrowValues DEF MayBeAssigned, AreSets
        <2>5. NarrowValue(h).family = "ordinal" /\ NarrowValue(h).of = h
            BY NarrowValues
        <2>. QED BY <2>1, <2>2, <2>3, <2>4, <2>5 DEF MayBeGiven
    <1>. QED BY <1>1, <1>2

(* Promotion does not change what kind of values there are.                *)
LEMMA KindOfPromoted ==
    ASSUME NEW t \in Type
    PROVE  KindOf(Promoted(t)) = KindOf(t)
    <1>1. CASE t \in TypeOrdinalDynamic
        BY <1>1, FullRangeType, BaseTypes DEF Promoted, KindOf
    <1>2. CASE Form(t) = "set"
        <2>1. /\ Types[t].host \in OfForm("set") /\ t \in OfForm("set")
              /\ t \notin TypeOrdinalDynamic /\ Promoted(t) = Types[t].host
            BY <1>2, OrdinalForms DEF OfForm, TypesAssumption, Promoted
        <2>2. CASE Types[t].base \notin OfForm("subrange")
            BY <2>1, <2>2 DEF TypesAssumption
        <2>3. CASE Types[t].base \in OfForm("subrange")
            <3>1. /\ Types[Types[t].host].base = Types[Types[t].base].host
                  /\ Types[Types[t].host].packed = Types[t].packed
                  /\ Types[Types[t].base].host \in TypeOrdinal \ OfForm("subrange")
                BY <2>1, <2>3 DEF TypesAssumption
            <3>2. FullRange(Types[Types[t].base].host) = FullRange(Types[t].base)
                BY <2>3, <3>1, OrdinalForms DEF FullRange, FullRangeOfOrdinal, OfForm, TypeOrdinal, SimpleForms
            <3>3. Types[t].host \notin TypeOrdinalDynamic /\ Types[t].host # TypeReal /\ t # TypeReal
                BY <2>1, OrdinalForms, BuiltinForms DEF OfForm
            <3>4. ~IsString(t) /\ ~IsString(Types[t].host)
                BY <2>1, FormsDiffer DEF OfForm
            <3>. QED BY <2>1, <3>1, <3>2, <3>3, <3>4 DEF KindOf, OfForm
        <2>. QED BY <2>2, <2>3
    <1>3. CASE t \notin TypeOrdinalDynamic /\ Form(t) # "set"
        BY <1>3 DEF Promoted
    <1>. QED BY <1>1, <1>2, <1>3

(* What a variable is promoted to is a whole range.                        *)
LEMMA PromotedIsWhole ==
    ASSUME NEW t \in Type
    PROVE  IsWhole(Promoted(t))
    <1>1. CASE t \in TypeOrdinalDynamic
        <2>1. Form(FullRange(t)) # "subrange" /\ FullRange(t) \in TypeOrdinal
            BY <1>1, FullRangeType
        <2>. QED BY <1>1, <2>1 DEF Promoted, IsWhole, TypeOrdinal, SimpleForms
    <1>2. CASE Form(t) = "set"
        BY <1>2, OrdinalForms DEF Promoted, IsWhole, TypesAssumption, OfForm
    <1>3. CASE t \notin TypeOrdinalDynamic /\ Form(t) # "set"
        BY <1>3, OrdinalForms DEF Promoted, IsWhole
    <1>. QED BY <1>1, <1>2, <1>3
-----------------------------------------------------------------------------
(* Recursion.  The elements of S have levels, and what a function is of an *)
(* element is told by what it is of those of lower levels.                 *)

LEMMA Minimum ==
    ASSUME NEW T, T \subseteq Nat, T # {}
    PROVE  \E n \in T : \A m \in T : n <= m
    <1>. DEFINE R == OpToRel(<, Nat)
    <1>1. IsWellFoundedOn(R, Nat)
        BY NatLessThanWellFounded
    <1>2. PICK x \in T : \A y \in T : ~(<<y, x>> \in R)
        BY <1>1, WFMin
    <1>3. \A a, b \in Nat : <<a, b>> \in R <=> a < b
        BY DEF OpToRel
    <1>. HIDE DEF R
    <1>4. ASSUME NEW m \in T PROVE x <= m
        <2>1. ~(<<m, x>> \in R) /\ m \in Nat /\ x \in Nat
            BY <1>2
        <2>2. ~(m < x)
            BY <1>3, <2>1
        <2>. QED  BY <2>1, <2>2
    <1>. QED  BY <1>4

AreLevels(S, level) == level \in [S -> Nat]

(* What is true of an element if it is of all lower ones is true of all.   *)
LEMMA LevelInduction ==
    ASSUME NEW S, NEW level, AreLevels(S, level), NEW P,
           \A x \in S : (\A y \in S : level[y] < level[x] => y \in P) => x \in P
    PROVE  S \subseteq P
    <1>. DEFINE T == {level[x] : x \in S \ P}
    <1>. SUFFICES ASSUME ~(S \subseteq P) PROVE FALSE
        OBVIOUS
    <1>1. T \subseteq Nat /\ T # {}
        <2>1. \A x \in S : level[x] \in Nat
            BY DEF AreLevels
        <2>. QED  BY <2>1
    <1>. HIDE DEF T
    <1>2. PICK n \in T : \A m \in T : n <= m
        BY <1>1, Minimum
    <1>3. PICK x \in S \ P : n = level[x]
        BY <1>2 DEF T
    <1>4. PICK y \in S : y \notin P /\ level[y] < level[x]
        BY <1>3
    <1>5. level[y] \in T /\ level[y] \in Nat /\ level[x] \in Nat
        BY <1>3, <1>4 DEF T, AreLevels
    <1>6. level[x] <= level[y]
        BY <1>2, <1>3, <1>5
    <1>. QED  BY <1>4, <1>5, <1>6

AlikeBelow(S, level, n, g, h) == \A y \in S : level[y] < n => g[y] = h[y]
Causal(S, level, V, step) ==
    \A x \in S : \A g \in [S -> V] :
        /\ step[x][g] \in V
        /\ \A h \in [S -> V] : AlikeBelow(S, level, level[x], g, h) => step[x][g] = step[x][h]
Told(S, level, V, step, n, f) ==
    /\ f \in [S -> V]
    /\ \A x \in S : level[x] < n => f[x] = step[x][f]

LEMMA ToldAlike ==
    ASSUME NEW S, NEW level, AreLevels(S, level), NEW V, NEW step, Causal(S, level, V, step),
           NEW n \in Nat, NEW f, NEW g, Told(S, level, V, step, n, f), Told(S, level, V, step, n, g)
    PROVE  AlikeBelow(S, level, n, f, g)
    <1>. DEFINE P == {x \in S : level[x] < n => f[x] = g[x]}
    <1>1. ASSUME NEW x \in S, \A y \in S : level[y] < level[x] => y \in P
          PROVE  x \in P
        <2>1. ASSUME level[x] < n PROVE f[x] = g[x]
            <3>1. ASSUME NEW y \in S, level[y] < level[x] PROVE f[y] = g[y]
                <4>1. y \in P
                    BY <1>1, <3>1
                <4>2. level[x] \in Nat /\ level[y] \in Nat
                    BY DEF AreLevels
                <4>3. level[y] < n
                    BY <2>1, <3>1, <4>2
                <4>. QED  BY <4>1, <4>3
            <3>2. AlikeBelow(S, level, level[x], f, g)
                BY <3>1 DEF AlikeBelow
            <3>3. step[x][f] = step[x][g]
                BY <3>2 DEF Told, Causal
            <3>. QED  BY <2>1, <3>3 DEF Told
        <2>. QED  BY <2>1
    <1>. HIDE DEF P
    <1>2. S \subseteq P
        BY <1>1, LevelInduction
    <1>. QED  BY <1>2 DEF P, AlikeBelow

LEMMA ToldSoFar ==
    ASSUME NEW S, NEW level, AreLevels(S, level), NEW V, NEW v \in V, NEW step, Causal(S, level, V, step)
    PROVE  \A n \in Nat : \E f : Told(S, level, V, step, n, f)
    <1>. DEFINE T == {n \in Nat : ~ \E f : Told(S, level, V, step, n, f)}
    <1>. SUFFICES ASSUME T # {} PROVE FALSE
        OBVIOUS
    <1>1. PICK n \in T : \A m \in T : n <= m
        <2>1. T \subseteq Nat
            OBVIOUS
        <2>. HIDE DEF T
        <2>. QED  BY <2>1, Minimum
    <1>2. n # 0
        <2>1. \A x \in S : level[x] \in Nat
            BY DEF AreLevels
        <2>2. Told(S, level, V, step, 0, [x \in S |-> v])
            BY <2>1 DEF Told
        <2>. QED  BY <2>2
    <1>3. n \in Nat /\ n - 1 \in Nat /\ ~(n <= n - 1)
        BY <1>2
    <1>4. PICK f : Told(S, level, V, step, n - 1, f)
        BY <1>1, <1>3
    <1>. DEFINE g == [x \in S |-> step[x][f]]
    <1>5. f \in [S -> V] /\ g \in [S -> V]
        BY <1>4 DEF Told, Causal
    <1>6. ASSUME NEW x \in S, level[x] < n
          PROVE  g[x] = step[x][g]
        <2>1. ASSUME NEW y \in S, level[y] < level[x] PROVE f[y] = g[y]
            <3>1. level[x] \in Nat /\ level[y] \in Nat
                BY DEF AreLevels
            <3>2. level[y] < n - 1
                BY <1>3, <1>6, <2>1, <3>1
            <3>. QED  BY <1>4, <3>2 DEF Told
        <2>. HIDE DEF g
        <2>2. AlikeBelow(S, level, level[x], f, g)
            BY <2>1 DEF AlikeBelow
        <2>3. step[x][f] = step[x][g]
            BY <1>5, <2>2 DEF Causal
        <2>. QED  BY <2>3 DEF g
    <1>. HIDE DEF g
    <1>7. Told(S, level, V, step, n, g)
        BY <1>5, <1>6 DEF Told
    <1>. QED  BY <1>7

LEMMA Recursion ==
    ASSUME NEW S, NEW level, AreLevels(S, level), NEW V, NEW v \in V, NEW step, Causal(S, level, V, step)
    PROVE  \E f \in [S -> V] : \A x \in S : f[x] = step[x][f]
    <1>. DEFINE upto(n) == CHOOSE f : Told(S, level, V, step, n, f)
                f == [x \in S |-> upto(level[x] + 1)[x]]
    <1>1. ASSUME NEW n \in Nat PROVE Told(S, level, V, step, n, upto(n))
        BY ToldSoFar
    <1>. HIDE DEF upto
    <1>2. ASSUME NEW x \in S
          PROVE  /\ level[x] \in Nat /\ level[x] + 1 \in Nat /\ level[x] < level[x] + 1
                 /\ Told(S, level, V, step, level[x] + 1, upto(level[x] + 1))
        BY <1>1 DEF AreLevels
    <1>3. f \in [S -> V]
        BY <1>2 DEF Told
    <1>4. ASSUME NEW x \in S PROVE f[x] = step[x][f]
        <2>. DEFINE g == upto(level[x] + 1)
        <2>1. f[x] = g[x] /\ g[x] = step[x][g] /\ g \in [S -> V]
            BY <1>2 DEF Told
        <2>2. ASSUME NEW y \in S, level[y] < level[x] PROVE f[y] = g[y]
            <3>. DEFINE h == upto(level[y] + 1)
            <3>1. /\ f[y] = h[y]
                  /\ level[x] \in Nat /\ level[y] \in Nat
                BY <1>2
            <3>2. Told(S, level, V, step, level[y] + 1, h) /\ Told(S, level, V, step, level[x] + 1, g)
                BY <1>2
            <3>. HIDE DEF f, g, h
            <3>3. Told(S, level, V, step, level[y] + 1, g)
                <4>1. \A z \in S : level[z] < level[y] + 1 => level[z] < level[x] + 1
                    BY <2>2, <3>1 DEF AreLevels
                <4>. QED  BY <3>2, <4>1 DEF Told
            <3>4. level[y] + 1 \in Nat /\ level[y] < level[y] + 1
                BY <3>1
            <3>5. AlikeBelow(S, level, level[y] + 1, h, g)
                BY <3>2, <3>3, <3>4, ToldAlike
            <3>. QED  BY <3>1, <3>4, <3>5 DEF AlikeBelow
        <2>. HIDE DEF f, g
        <2>3. AlikeBelow(S, level, level[x], g, f)
            BY <2>2 DEF AlikeBelow
        <2>4. step[x][g] = step[x][f]
            BY <1>3, <2>1, <2>3 DEF Causal
        <2>. QED  BY <2>1, <2>4
    <1>. HIDE DEF f
    <1>. QED  BY <1>3, <1>4
-----------------------------------------------------------------------------
(* The recursive definitions say of a type and of a signature what they    *)
(* say of its parts.                                                       *)

ConformableWith(g, t) ==
    [schema \in Type |->
        IF Form(t) = "array" /\ IsSchema(schema)
        THEN LET bound == Types[Types[schema].index].bound
                 index == Types[t].index
             IN  /\ OrdinalsAreCompatible(index, bound)
                 /\ index \in TypeOrdinal =>
                        /\ SmallestOrdinal(index) >= SmallestOrdinal(bound)
                        /\ LargestOrdinal(index) <= LargestOrdinal(bound)
                 /\ Types[t].packed = Types[schema].packed
                 /\ g[Types[t].component][Types[schema].component]
        ELSE t = schema]

(* isConformableWith()                                                     *)
LEMMA ConformableUnfold ==
    ASSUME NEW t \in Type
    PROVE  Conformable[t] = ConformableWith(Conformable, t)
    <1>. DEFINE V == [Type -> BOOLEAN]
                G == [Type -> V]
                step == [m \in Type |-> [g \in G |-> ConformableWith(g, m)]]
                Good(f) == f = [m \in Type |-> ConformableWith(f, m)]
    <1>1. ASSUME NEW m \in Type, NEW g \in G PROVE ConformableWith(g, m) \in V
        BY DEF ConformableWith
    <1>2. ASSUME NEW m \in Type, NEW g \in G, NEW h \in G,
                 AlikeBelow(Type, TypeLevel, TypeLevel[m], g, h)
          PROVE  ConformableWith(g, m) = ConformableWith(h, m)
        <2>1. Form(m) = "array" => g[Types[m].component] = h[Types[m].component]
            BY <1>2, PartsAreSmaller DEF AlikeBelow, LevelsAssumption, TypesAssumption, OfForm
        <2>. QED  BY <2>1 DEF ConformableWith
    <1>3. [d \in Type |-> TRUE] \in V
        OBVIOUS
    <1>. HIDE DEF V
    <1>4. Causal(Type, TypeLevel, V, step)
        <2>1. \A m \in Type : \A g \in G : step[m][g] = ConformableWith(g, m)
            BY Zenon
        <2>. HIDE DEF step
        <2>. QED  BY <1>1, <1>2, <2>1 DEF Causal
    <1>5. PICK f \in G : \A m \in Type : f[m] = step[m][f]
        <2>1. AreLevels(Type, TypeLevel)
            BY PartsAreSmaller DEF LevelsAssumption, AreLevels
        <2>. QED  BY <1>3, <1>4, <2>1, Recursion
    <1>6. Good(f)
        <2>1. \A m \in Type : f[m] = ConformableWith(f, m)
            BY <1>5
        <2>. QED  BY <2>1
    <1>7. Conformable = CHOOSE g : Good(g)
        BY DEF Conformable, ConformableWith
    <1>8. Good(Conformable)
        <2>. HIDE DEF Good
        <2>. QED  BY <1>6, <1>7
    <1>. QED  BY <1>8

EquivalentWith(g, t) ==
    [other \in Type |->
        IF Form(t) = "array" /\ Form(other) = "array" /\ IsSchema(t) /\ IsSchema(other)
        THEN /\ Types[Types[t].index].bound = Types[Types[other].index].bound
             /\ g[Types[t].component][Types[other].component]
             /\ Types[t].packed = Types[other].packed
        ELSE t = other]

(* isEquivalent()                                                          *)
LEMMA EquivalentUnfold ==
    ASSUME NEW t \in Type
    PROVE  Equivalent[t] = EquivalentWith(Equivalent, t)
    <1>. DEFINE V == [Type -> BOOLEAN]
                G == [Type -> V]
                step == [m \in Type |-> [g \in G |-> EquivalentWith(g, m)]]
                Good(f) == f = [m \in Type |-> EquivalentWith(f, m)]
    <1>1. ASSUME NEW m \in Type, NEW g \in G PROVE EquivalentWith(g, m) \in V
        BY DEF EquivalentWith
    <1>2. ASSUME NEW m \in Type, NEW g \in G, NEW h \in G,
                 AlikeBelow(Type, TypeLevel, TypeLevel[m], g, h)
          PROVE  EquivalentWith(g, m) = EquivalentWith(h, m)
        <2>1. Form(m) = "array" => g[Types[m].component] = h[Types[m].component]
            BY <1>2, PartsAreSmaller DEF AlikeBelow, LevelsAssumption, TypesAssumption, OfForm
        <2>. QED  BY <2>1 DEF EquivalentWith
    <1>3. [d \in Type |-> TRUE] \in V
        OBVIOUS
    <1>. HIDE DEF V
    <1>4. Causal(Type, TypeLevel, V, step)
        <2>1. \A m \in Type : \A g \in G : step[m][g] = EquivalentWith(g, m)
            BY Zenon
        <2>. HIDE DEF step
        <2>. QED  BY <1>1, <1>2, <2>1 DEF Causal
    <1>5. PICK f \in G : \A m \in Type : f[m] = step[m][f]
        <2>1. AreLevels(Type, TypeLevel)
            BY PartsAreSmaller DEF LevelsAssumption, AreLevels
        <2>. QED  BY <1>3, <1>4, <2>1, Recursion
    <1>6. Good(f)
        <2>1. \A m \in Type : f[m] = EquivalentWith(f, m)
            BY <1>5
        <2>. QED  BY <2>1
    <1>7. Equivalent = CHOOSE g : Good(g)
        BY DEF Equivalent, EquivalentWith
    <1>8. Good(Equivalent)
        <2>. HIDE DEF Good
        <2>. QED  BY <1>6, <1>7
    <1>. QED  BY <1>8

(* The signatures in a signature, and what a section has.                  *)
Signature == DOMAIN Signatures

LEMMA SectionParts ==
    ASSUME NEW s \in FormalSection
    PROVE  /\ s.by \in {"variable", "value", "subroutine"} /\ s.count \in Nat \ {0}
           /\ s.by = "subroutine" => s.count = 1 /\ s.signature \in Signature
           /\ s.by # "subroutine" => s.type \in Type /\ Form(s.type) \notin SyntheticForms
    BY DEF FormalSection, Signature

LEMMA NestedSignatures ==
    ASSUME NEW g \in Signature
    PROVE  /\ Signatures[g].parameters \in Seq(FormalSection)
           /\ \A k \in DOMAIN Signatures[g].parameters :
                LET s == Signatures[g].parameters[k]
                IN  /\ s \in FormalSection
                    /\ s.by = "subroutine" =>
                        /\ s.signature \in Signature
                        /\ SignatureLevel[s.signature] < SignatureLevel[g]
    <1>1. Signatures[g].parameters \in Seq(FormalSection)
        BY DEF SignatureAssumption, Signature
    <1>2. \A k \in DOMAIN Signatures[g].parameters : Signatures[g].parameters[k] \in FormalSection
        BY <1>1
    <1>. QED  BY <1>1, <1>2, SectionParts, PartsAreSmaller DEF LevelsAssumption, Signature

CongruousWith(g, x) ==
    [o \in Signature |->
        LET sections == Signatures[x].parameters
            others == Signatures[o].parameters
        IN  /\ Len(sections) = Len(others)
            /\ \A k \in DOMAIN sections :
                /\ sections[k].by = others[k].by
                /\ IF sections[k].by = "subroutine"
                   THEN /\ g[sections[k].signature][others[k].signature]
                        /\ Signatures[sections[k].signature].result
                            = Signatures[others[k].signature].result
                   ELSE /\ sections[k].count = others[k].count
                        /\ Equivalent[sections[k].type][others[k].type]]

(* isCongruousWith()                                                       *)
LEMMA CongruousUnfold ==
    ASSUME NEW x \in Signature
    PROVE  Congruous[x] = CongruousWith(Congruous, x)
    <1>. DEFINE V == [Signature -> BOOLEAN]
                G == [Signature -> V]
                step == [m \in Signature |-> [g \in G |-> CongruousWith(g, m)]]
                Good(f) == f = [m \in Signature |-> CongruousWith(f, m)]
    <1>1. ASSUME NEW m \in Signature, NEW g \in G PROVE CongruousWith(g, m) \in V
        BY DEF CongruousWith
    <1>2. ASSUME NEW m \in Signature, NEW g \in G, NEW h \in G,
                 AlikeBelow(Signature, SignatureLevel, SignatureLevel[m], g, h)
          PROVE  CongruousWith(g, m) = CongruousWith(h, m)
        <2>1. \A k \in DOMAIN Signatures[m].parameters :
                Signatures[m].parameters[k].by = "subroutine" =>
                    g[Signatures[m].parameters[k].signature] = h[Signatures[m].parameters[k].signature]
            BY <1>2, NestedSignatures DEF AlikeBelow
        <2>. QED  BY <2>1 DEF CongruousWith
    <1>3. [d \in Signature |-> TRUE] \in V
        OBVIOUS
    <1>. HIDE DEF V
    <1>4. Causal(Signature, SignatureLevel, V, step)
        <2>1. \A m \in Signature : \A g \in G : step[m][g] = CongruousWith(g, m)
            BY Zenon
        <2>. HIDE DEF step
        <2>. QED  BY <1>1, <1>2, <2>1 DEF Causal
    <1>5. PICK f \in G : \A m \in Signature : f[m] = step[m][f]
        <2>1. AreLevels(Signature, SignatureLevel)
            BY PartsAreSmaller DEF LevelsAssumption, AreLevels, Signature
        <2>. QED  BY <1>3, <1>4, <2>1, Recursion
    <1>6. Good(f)
        <2>1. \A m \in Signature : f[m] = CongruousWith(f, m)
            BY <1>5
        <2>. QED  BY <2>1
    <1>7. Congruous = CHOOSE g : Good(g)
        BY DEF Congruous, CongruousWith, Signature
    <1>8. Good(Congruous)
        <2>. HIDE DEF Good
        <2>. QED  BY <1>6, <1>7
    <1>. QED  BY <1>8

SameListsWith(g, x) ==
    [o \in Signature |->
        /\ Len(Signatures[x].parameters) = Len(Signatures[o].parameters)
        /\ \A k \in DOMAIN Signatures[x].parameters :
            LET s == Signatures[x].parameters[k]
                z == Signatures[o].parameters[k]
            IN  /\ <<s.by, s.count>> = <<z.by, z.count>>
                /\ s.by # "subroutine" => SameTypes(s.type, z.type)
                /\ s.by = "subroutine" =>
                    /\ g[s.signature][z.signature]
                    /\ Signatures[s.signature].result = Signatures[z.signature].result]

(* 6.6.3.6                                                                 *)
LEMMA SameListsUnfold ==
    ASSUME NEW x \in Signature
    PROVE  SameLists[x] = SameListsWith(SameLists, x)
    <1>. DEFINE V == [Signature -> BOOLEAN]
                G == [Signature -> V]
                step == [m \in Signature |-> [g \in G |-> SameListsWith(g, m)]]
                Good(f) == f = [m \in Signature |-> SameListsWith(f, m)]
    <1>1. ASSUME NEW m \in Signature, NEW g \in G PROVE SameListsWith(g, m) \in V
        BY DEF SameListsWith
    <1>2. ASSUME NEW m \in Signature, NEW g \in G, NEW h \in G,
                 AlikeBelow(Signature, SignatureLevel, SignatureLevel[m], g, h)
          PROVE  SameListsWith(g, m) = SameListsWith(h, m)
        <2>1. \A k \in DOMAIN Signatures[m].parameters :
                Signatures[m].parameters[k].by = "subroutine" =>
                    g[Signatures[m].parameters[k].signature] = h[Signatures[m].parameters[k].signature]
            BY <1>2, NestedSignatures DEF AlikeBelow
        <2>. QED  BY <2>1 DEF SameListsWith
    <1>3. [d \in Signature |-> TRUE] \in V
        OBVIOUS
    <1>. HIDE DEF V
    <1>4. Causal(Signature, SignatureLevel, V, step)
        <2>1. \A m \in Signature : \A g \in G : step[m][g] = SameListsWith(g, m)
            BY Zenon
        <2>. HIDE DEF step
        <2>. QED  BY <1>1, <1>2, <2>1 DEF Causal
    <1>5. PICK f \in G : \A m \in Signature : f[m] = step[m][f]
        <2>1. AreLevels(Signature, SignatureLevel)
            BY PartsAreSmaller DEF LevelsAssumption, AreLevels, Signature
        <2>. QED  BY <1>3, <1>4, <2>1, Recursion
    <1>6. Good(f)
        <2>1. \A m \in Signature : f[m] = SameListsWith(f, m)
            BY <1>5
        <2>. QED  BY <2>1
    <1>7. SameLists = CHOOSE g : Good(g)
        BY DEF SameLists, SameListsWith, Signature
    <1>8. Good(SameLists)
        <2>. HIDE DEF Good
        <2>. QED  BY <1>6, <1>7
    <1>. QED  BY <1>8
-----------------------------------------------------------------------------
(* Conformant array schemas, dimension by dimension and all at once.       *)

ComponentWith(g, n) ==
    [t \in Type |-> IF n = 0 \/ Form(t) # "array" THEN t ELSE g[n - 1][Types[t].component]]

(* Components of components.                                               *)
LEMMA ComponentUnfold ==
    ASSUME NEW n \in Nat
    PROVE  /\ ComponentAt[n] = ComponentWith(ComponentAt, n)
           /\ ComponentAt[n] \in [Type -> Type]
    <1>. DEFINE V == [Type -> Type]
                G == [Nat -> V]
                level == [m \in Nat |-> m]
                step == [m \in Nat |-> [g \in G |-> ComponentWith(g, m)]]
                Good(f) == f = [m \in Nat |-> ComponentWith(f, m)]
    <1>1. ASSUME NEW m \in Nat, NEW g \in G PROVE ComponentWith(g, m) \in V
        <2>1. m # 0 => m - 1 \in Nat
            OBVIOUS
        <2>2. ASSUME NEW t \in Type, Form(t) = "array" PROVE Types[t].component \in Type
            BY <2>2 DEF TypesAssumption, OfForm
        <2>. QED  BY <2>1, <2>2 DEF ComponentWith
    <1>2. ASSUME NEW m \in Nat, NEW g \in G, NEW h \in G, AlikeBelow(Nat, level, level[m], g, h)
          PROVE  ComponentWith(g, m) = ComponentWith(h, m)
        <2>1. m # 0 => g[m - 1] = h[m - 1]
            BY <1>2 DEF AlikeBelow
        <2>. QED  BY <2>1 DEF ComponentWith
    <1>3. [d \in Type |-> d] \in V
        OBVIOUS
    <1>. HIDE DEF V
    <1>4. Causal(Nat, level, V, step)
        <2>1. \A m \in Nat : \A g \in G : step[m][g] = ComponentWith(g, m)
            BY Zenon
        <2>. HIDE DEF step
        <2>. QED  BY <1>1, <1>2, <2>1 DEF Causal
    <1>5. PICK f \in G : \A m \in Nat : f[m] = step[m][f]
        <2>1. AreLevels(Nat, level)
            BY DEF AreLevels
        <2>2. \E v : v \in V
            BY <1>3
        <2>. HIDE DEF level, step
        <2>. QED  BY ONLY <1>4, <2>1, <2>2, Recursion
    <1>6. Good(f)
        <2>1. \A m \in Nat : f[m] = ComponentWith(f, m)
            BY <1>5
        <2>. QED  BY <2>1
    <1>7. ComponentAt = CHOOSE g : Good(g)
        BY DEF ComponentAt, ComponentWith
    <1>8. Good(ComponentAt)
        <2>. HIDE DEF Good
        <2>. QED  BY <1>6, <1>7
    <1>. DEFINE Typed == {m \in Nat : ComponentAt[m] \in V}
    <1>9. \A m \in Nat : ComponentAt[m] = ComponentWith(ComponentAt, m)
        BY <1>8
    <1>10. Nat \subseteq Typed
        <2>1. ASSUME NEW m \in Nat, \A y \in Nat : level[y] < level[m] => y \in Typed
              PROVE  m \in Typed
            <3>1. m # 0 => m - 1 \in Nat /\ level[m - 1] < level[m]
                OBVIOUS
            <3>2. m # 0 => ComponentAt[m - 1] \in V
                BY <2>1, <3>1
            <3>3. \A t \in Type : Form(t) = "array" => Types[t].component \in Type
                BY DEF TypesAssumption, OfForm
            <3>4. ComponentWith(ComponentAt, m) \in V
                BY <3>2, <3>3 DEF ComponentWith, V
            <3>. QED  BY <1>9, <3>4
        <2>2. AreLevels(Nat, level)
            BY DEF AreLevels
        <2>. HIDE DEF level, Typed
        <2>. QED  BY <2>1, <2>2, LevelInduction
    <1>. QED  BY <1>9, <1>10 DEF V

LEMMA ComponentSteps ==
    ASSUME NEW t \in Type, NEW n \in Nat
    PROVE  /\ ComponentAt[0][t] = t
           /\ ComponentAt[n][t] \in Type
           /\ Form(t) = "array" =>
                /\ Types[t].component \in Type
                /\ TypeLevel[Types[t].component] < TypeLevel[t]
                /\ ComponentAt[n + 1][t] = ComponentAt[n][Types[t].component]
    <1>1. ComponentAt[0][t] = t
        <2>1. ComponentAt[0] = ComponentWith(ComponentAt, 0)
            BY ComponentUnfold
        <2>. QED  BY <2>1 DEF ComponentWith
    <1>2. ComponentAt[n + 1] = ComponentWith(ComponentAt, n + 1) /\ n + 1 # 0 /\ (n + 1) - 1 = n
        BY ComponentUnfold
    <1>3. Form(t) = "array" => ComponentAt[n + 1][t] = ComponentAt[n][Types[t].component]
        BY <1>2 DEF ComponentWith
    <1>4. Form(t) = "array" =>
            Types[t].component \in Type /\ TypeLevel[Types[t].component] < TypeLevel[t]
        BY PartsAreSmaller DEF TypesAssumption, LevelsAssumption, OfForm
    <1>5. ComponentAt[n][t] \in Type
        BY ComponentUnfold
    <1>. QED  BY <1>1, <1>3, <1>4, <1>5

IsDepth(t, n) ==
    /\ n \in Nat
    /\ ~IsSchema(ComponentAt[n][t])
    /\ \A m \in 0..(n - 1) : IsSchema(ComponentAt[m][t])

LEMMA OneDepth ==
    ASSUME NEW t, NEW m, IsDepth(t, m), NEW n, IsDepth(t, n)
    PROVE  m = n
    <1>1. m \in Nat /\ n \in Nat
        BY DEF IsDepth
    <1>2. CASE m < n
        <2>1. m \in 0..(n - 1)
            BY <1>1, <1>2
        <2>. QED  BY <2>1 DEF IsDepth
    <1>3. CASE n < m
        <2>1. n \in 0..(m - 1)
            BY <1>1, <1>3
        <2>. QED  BY <2>1 DEF IsDepth
    <1>. QED  BY <1>1, <1>2, <1>3

LEMMA DeeperByOne ==
    ASSUME NEW t \in Type, IsSchema(t), NEW n, IsDepth(Types[t].component, n)
    PROVE  IsDepth(t, n + 1)
    <1>. DEFINE c == Types[t].component
    <1>1. n \in Nat /\ Form(t) = "array" /\ n + 1 \in Nat
        BY DEF IsDepth, IsSchema
    <1>2. ~IsSchema(ComponentAt[n + 1][t])
        <2>1. ComponentAt[n + 1][t] = ComponentAt[n][c]
            BY <1>1, ComponentSteps
        <2>. QED  BY <2>1 DEF IsDepth
    <1>3. ASSUME NEW m \in 0..((n + 1) - 1) PROVE IsSchema(ComponentAt[m][t])
        <2>1. CASE m = 0
            BY <1>1, <2>1, ComponentSteps
        <2>2. CASE m # 0
            <3>1. m - 1 \in Nat /\ m - 1 \in 0..(n - 1) /\ (m - 1) + 1 = m
                BY <1>1, <2>2
            <3>2. ComponentAt[(m - 1) + 1][t] = ComponentAt[m - 1][c]
                BY <1>1, <3>1, ComponentSteps
            <3>3. IsSchema(ComponentAt[m - 1][c])
                BY <3>1 DEF IsDepth
            <3>. QED  BY <3>1, <3>2, <3>3
        <2>. QED  BY <2>1, <2>2
    <1>. QED  BY <1>1, <1>2, <1>3 DEF IsDepth

(* A schema has one dimension more than its component.                     *)
LEMMA SchemaDepths ==
    ASSUME NEW t \in Type
    PROVE  /\ IsDepth(t, SchemaDepth(t))
           /\ ~IsSchema(t) => SchemaDepth(t) = 0
           /\ IsSchema(t) => SchemaDepth(t) = SchemaDepth(Types[t].component) + 1
    <1>. DEFINE Finite == {u \in Type : \E n \in 0..TypeLevel[u] : IsDepth(u, n)}
    <1>1. ASSUME NEW u \in Type, ~IsSchema(u) PROVE IsDepth(u, 0) /\ 0 \in 0..TypeLevel[u]
        <2>1. ComponentAt[0][u] = u
            BY ComponentSteps
        <2>2. TypeLevel[u] \in Nat
            BY PartsAreSmaller DEF LevelsAssumption
        <2>3. \A m \in 0..(0 - 1) : FALSE
            OBVIOUS
        <2>. QED  BY <1>1, <2>1, <2>2, <2>3 DEF IsDepth
    <1>2. Type \subseteq Finite
        <2>1. ASSUME NEW u \in Type, \A v \in Type : TypeLevel[v] < TypeLevel[u] => v \in Finite
              PROVE  u \in Finite
            <3>1. CASE ~IsSchema(u)
                BY <1>1, <3>1
            <3>2. CASE IsSchema(u)
                <4>1. Form(u) = "array"
                    BY <3>2 DEF IsSchema
                <4>2. Types[u].component \in Type /\ TypeLevel[Types[u].component] < TypeLevel[u]
                    BY <4>1, ComponentSteps
                <4>3. PICK n \in 0..TypeLevel[Types[u].component] : IsDepth(Types[u].component, n)
                    BY <2>1, <4>2
                <4>4. IsDepth(u, n + 1)
                    BY <3>2, <4>3, DeeperByOne
                <4>5. TypeLevel[u] \in Nat /\ TypeLevel[Types[u].component] \in Nat
                    BY <4>2, PartsAreSmaller DEF LevelsAssumption
                <4>6. n + 1 \in 0..TypeLevel[u]
                    BY <4>2, <4>3, <4>5
                <4>. QED  BY <4>4, <4>6
            <3>. QED  BY <3>1, <3>2
        <2>2. AreLevels(Type, TypeLevel)
            BY PartsAreSmaller DEF LevelsAssumption, AreLevels
        <2>. HIDE DEF Finite
        <2>. QED  BY <2>1, <2>2, LevelInduction
    <1>3. ASSUME NEW u \in Type PROVE IsDepth(u, SchemaDepth(u))
        <2>1. TypeLevel[u] \in Nat
            BY PartsAreSmaller DEF LevelsAssumption
        <2>2. PICK n \in 0..TypeLevel[u] : IsDepth(u, n)
            BY <1>2
        <2>3. /\ SchemaDepth(u) \in 0..TypeLevel[u]
              /\ ~IsSchema(ComponentAt[SchemaDepth(u)][u])
              /\ \A m \in 0..(SchemaDepth(u) - 1) : IsSchema(ComponentAt[m][u])
            BY <2>2 DEF SchemaDepth, IsDepth
        <2>. QED  BY <2>1, <2>3 DEF IsDepth
    <1>4. ASSUME ~IsSchema(t) PROVE SchemaDepth(t) = 0
        BY <1>1, <1>3, <1>4, OneDepth
    <1>5. ASSUME IsSchema(t) PROVE SchemaDepth(t) = SchemaDepth(Types[t].component) + 1
        <2>1. Types[t].component \in Type
            BY <1>5, ComponentSteps DEF IsSchema
        <2>2. IsDepth(t, SchemaDepth(Types[t].component) + 1)
            BY <1>3, <1>5, <2>1, DeeperByOne
        <2>. QED  BY <1>3, <2>2, OneDepth
    <1>. QED  BY <1>3, <1>4, <1>5
LEMMA InstanceOfSchema ==
    ASSUME NEW t \in Type, Form(t) = "array", NEW s \in Type, IsSchema(s)
    PROVE  IsInstance(t, s) <=>
            DimensionConforms(t, s) /\ IsInstance(Types[t].component, Types[s].component)
    <1>. DEFINE tc == Types[t].component
                sc == Types[s].component
                d == SchemaDepth(sc)
                Fits(n) == DimensionConforms(ComponentAt[n][t], ComponentAt[n][s])
                FitsBelow(n) == DimensionConforms(ComponentAt[n][tc], ComponentAt[n][sc])
    <1>1. Form(s) = "array" /\ tc \in Type /\ sc \in Type
        BY ComponentSteps DEF IsSchema
    <1>2. SchemaDepth(s) = d + 1 /\ d \in Nat
        BY <1>1, SchemaDepths DEF IsDepth
    <1>3. ASSUME NEW n \in Nat
          PROVE  ComponentAt[n + 1][t] = ComponentAt[n][tc] /\ ComponentAt[n + 1][s] = ComponentAt[n][sc]
        BY <1>1, ComponentSteps
    <1>4. Fits(0) <=> DimensionConforms(t, s)
        BY ComponentSteps
    <1>5. ASSUME NEW n \in Nat PROVE Fits(n + 1) <=> FitsBelow(n)
        BY <1>3
    <1>6. (\A n \in 0..d : Fits(n)) <=> Fits(0) /\ \A n \in 0..(d - 1) : FitsBelow(n)
        <2>. HIDE DEF Fits, FitsBelow, d
        <2>1. ASSUME \A n \in 0..d : Fits(n), NEW n \in 0..(d - 1) PROVE FitsBelow(n)
            BY <1>2, <1>5, <2>1
        <2>2. ASSUME Fits(0), \A n \in 0..(d - 1) : FitsBelow(n), NEW n \in 0..d PROVE Fits(n)
            <3>1. CASE n = 0
                BY <2>2, <3>1
            <3>2. CASE n # 0
                <4>1. n - 1 \in Nat /\ n - 1 \in 0..(d - 1) /\ (n - 1) + 1 = n
                    BY <1>2, <3>2
                <4>. QED  BY <1>5, <2>2, <4>1
            <3>. QED  BY <3>1, <3>2
        <2>3. 0 \in 0..d
            BY <1>2
        <2>. QED  BY <2>1, <2>2, <2>3
    <1>7. ComponentAt[d + 1][t] = ComponentAt[d][tc] /\ ComponentAt[d + 1][s] = ComponentAt[d][sc]
        BY <1>2, <1>3
    <1>8. (d + 1) - 1 = d
        BY <1>2
    <1>9. IsInstance(t, s) <=>
            (\A n \in 0..d : Fits(n)) /\ ComponentAt[d + 1][t] = ComponentAt[d + 1][s]
        BY <1>2, <1>8 DEF IsInstance
    <1>10. IsInstance(tc, sc) <=>
            (\A n \in 0..(d - 1) : FitsBelow(n)) /\ ComponentAt[d][tc] = ComponentAt[d][sc]
        BY DEF IsInstance
    <1>. HIDE DEF Fits, FitsBelow, d, tc, sc
    <1>. QED  BY <1>4, <1>6, <1>7, <1>9, <1>10 DEF tc, sc


(* Of the outermost dimension, isConformableWith() asks what 6.6.3.8 does. *)
LEMMA DimensionIsConformable ==
    ASSUME NEW t \in Type, Form(t) = "array", NEW s \in Type, IsSchema(s)
    PROVE  DimensionConforms(t, s) <=>
            /\ OrdinalsAreCompatible(Types[t].index, Types[Types[s].index].bound)
            /\ Types[t].index \in TypeOrdinal =>
                /\ SmallestOrdinal(Types[t].index) >= SmallestOrdinal(Types[Types[s].index].bound)
                /\ LargestOrdinal(Types[t].index) <= LargestOrdinal(Types[Types[s].index].bound)
            /\ Types[t].packed = Types[s].packed
    <1>. DEFINE i == Types[t].index
                j == Types[s].index
                b == Types[j].bound
    <1>1. /\ i \in TypeOrdinalDynamic /\ j \in TypeOrdinalDynamic /\ j \notin TypeOrdinal
          /\ j \in OfForm("bounds") /\ Form(j) = "bounds" /\ b \in TypeOrdinal
        BY DEF IsSchema, TypesAssumption, OfForm, TypeOrdinalDynamic
    <1>2. b \in TypeOrdinalDynamic /\ Form(b) # "bounds"
        BY <1>1 DEF TypeOrdinalDynamic, TypeOrdinal, SimpleForms
    <1>3. FullRange(j) = FullRange(b)
        BY <1>1, <1>2 DEF FullRange
    <1>4. KindOf(i) = OrdinalValue(FullRange(i)) /\ KindOf(j) = OrdinalValue(FullRange(j))
        BY <1>1, OrdinalForms DEF KindOf
    <1>5. KindOf(i) = KindOf(j) <=> FullRange(i) = FullRange(j)
        BY <1>4 DEF OrdinalValue, Value
    <1>6. ASSUME i \in TypeOrdinal
          PROVE  Values(i) \subseteq Values(b) <=>
                    SmallestOrdinal(i) >= SmallestOrdinal(b) /\ LargestOrdinal(i) <= LargestOrdinal(b)
        <2>. DEFINE m == Types[i].smallest
                    n == Types[i].largest
                    p == Types[b].smallest
                    q == Types[b].largest
        <2>1. m \in Int /\ n \in Int /\ p \in Int /\ q \in Int /\ m <= n
            BY <1>1, <1>6, DenotersMakeTypes DEF TypesAssumption, DenotersAssumption
        <2>. HIDE DEF m, n, p, q
        <2>2. m..n \subseteq p..q <=> p <= m /\ n <= q
            <3>1. m \in m..n /\ n \in m..n
                BY ONLY <2>1
            <3>2. m \in p..q /\ n \in p..q => p <= m /\ n <= q
                BY ONLY <2>1
            <3>3. ASSUME p <= m, n <= q, NEW x \in m..n PROVE x \in p..q
                BY ONLY <2>1, <3>3
            <3>. QED  BY <3>1, <3>2, <3>3
        <2>3. m..n \subseteq p..q <=> m >= p /\ n <= q
            BY <2>1, <2>2
        <2>. QED  BY <2>3 DEF Values, SmallestOrdinal, LargestOrdinal, m, n, p, q
    <1>7. IsSchema(t) <=> i \notin TypeOrdinal
        BY DEF IsSchema
    <1>8. OrdinalsAreCompatible(i, b) <=> FullRange(i) = FullRange(b)
        BY <1>1, <1>2 DEF OrdinalsAreCompatible
    <1>9. DimensionConforms(t, s) <=>
            /\ Types[t].packed = Types[s].packed
            /\ KindOf(i) = KindOf(j)
            /\ IsSchema(t) \/ Values(i) \subseteq Values(b)
        BY DEF DimensionConforms
    <1>. HIDE DEF i, j, b
    <1>. QED  BY <1>3, <1>5, <1>6, <1>7, <1>8, <1>9 DEF i, j, b

(* 6.6.3.8: isConformableWith() finds the instances of a schema.           *)
LEMMA ConformableAreInstances ==
    ASSUME NEW t \in Type, NEW s \in Type
    PROVE  Conformable[t][s] <=> IsInstance(t, s)
    <1>. DEFINE Same == {v \in Type : \A u \in Type : Conformable[u][v] <=> IsInstance(u, v)}
    <1>1. ASSUME NEW v \in Type, \A w \in Type : TypeLevel[w] < TypeLevel[v] => w \in Same,
                 NEW u \in Type
          PROVE  Conformable[u][v] <=> IsInstance(u, v)
        <2>1. Conformable[u][v] = ConformableWith(Conformable, u)[v]
            BY ConformableUnfold
        <2>2. CASE ~IsSchema(v)
            <3>1. SchemaDepth(v) = 0 /\ ComponentAt[0][u] = u /\ ComponentAt[0][v] = v
                BY <2>2, SchemaDepths, ComponentSteps
            <3>2. \A n \in 0..(0 - 1) : FALSE
                OBVIOUS
            <3>. QED  BY <2>1, <2>2, <3>1, <3>2 DEF IsInstance, ConformableWith
        <2>3. CASE IsSchema(v) /\ Form(u) # "array"
            <3>1. ~Conformable[u][v]
                BY <2>1, <2>3 DEF ConformableWith, IsSchema
            <3>2. SchemaDepth(v) - 1 \in Nat
                <4>1. Types[v].component \in Type
                    BY <2>3, ComponentSteps DEF IsSchema
                <4>2. SchemaDepth(Types[v].component) \in Nat
                    BY <4>1, SchemaDepths DEF IsDepth
                <4>. QED  BY <2>3, <4>2, SchemaDepths
            <3>3. 0 \in 0..(SchemaDepth(v) - 1)
                BY <3>2
            <3>4. ~DimensionConforms(ComponentAt[0][u], ComponentAt[0][v])
                BY <2>3, ComponentSteps DEF DimensionConforms
            <3>. QED  BY <3>1, <3>3, <3>4 DEF IsInstance
        <2>4. CASE IsSchema(v) /\ Form(u) = "array"
            <3>. DEFINE uc == Types[u].component
                        vc == Types[v].component
            <3>1. uc \in Type /\ vc \in Type /\ TypeLevel[vc] < TypeLevel[v]
                BY <2>4, ComponentSteps DEF IsSchema
            <3>2. Conformable[uc][vc] <=> IsInstance(uc, vc)
                BY <1>1, <3>1
            <3>3. Conformable[u][v] <=>
                    /\ OrdinalsAreCompatible(Types[u].index, Types[Types[v].index].bound)
                    /\ Types[u].index \in TypeOrdinal =>
                        /\ SmallestOrdinal(Types[u].index) >= SmallestOrdinal(Types[Types[v].index].bound)
                        /\ LargestOrdinal(Types[u].index) <= LargestOrdinal(Types[Types[v].index].bound)
                    /\ Types[u].packed = Types[v].packed
                    /\ Conformable[uc][vc]
                BY <2>1, <2>4 DEF ConformableWith
            <3>4. Conformable[u][v] <=> DimensionConforms(u, v) /\ Conformable[uc][vc]
                BY <2>4, <3>3, DimensionIsConformable
            <3>5. IsInstance(u, v) <=> DimensionConforms(u, v) /\ IsInstance(uc, vc)
                BY <2>4, InstanceOfSchema
            <3>. QED  BY <3>2, <3>4, <3>5
        <2>. QED  BY <2>2, <2>3, <2>4
    <1>2. ASSUME NEW v \in Type, \A w \in Type : TypeLevel[w] < TypeLevel[v] => w \in Same
          PROVE  v \in Same
        BY <1>1, <1>2
    <1>3. AreLevels(Type, TypeLevel)
        BY PartsAreSmaller DEF LevelsAssumption, AreLevels
    <1>4. Type \subseteq Same
        <2>. HIDE DEF Same
        <2>. QED  BY <1>2, <1>3, LevelInduction
    <1>. QED  BY <1>4
(* Schemas of as many dimensions that are the same, or one type.           *)
SameDimensions(t, u) ==
    /\ SchemaDepth(t) = SchemaDepth(u)
    /\ \A n \in 0..(SchemaDepth(t) - 1) : SameDimension(ComponentAt[n][t], ComponentAt[n][u])
    /\ ComponentAt[SchemaDepth(t)][t] = ComponentAt[SchemaDepth(t)][u]

LEMMA SameFlat ==
    ASSUME NEW t \in Type, NEW u \in Type, ~(IsSchema(t) /\ IsSchema(u))
    PROVE  SameDimensions(t, u) <=> t = u
    <1>1. ASSUME NEW v \in Type, IsSchema(v) PROVE SchemaDepth(v) # 0
        <2>1. Types[v].component \in Type
            BY <1>1, ComponentSteps DEF IsSchema
        <2>2. SchemaDepth(Types[v].component) \in Nat
            BY <2>1, SchemaDepths DEF IsDepth
        <2>. QED  BY <1>1, <2>2, SchemaDepths
    <1>2. CASE ~IsSchema(t) /\ ~IsSchema(u)
        <2>1. /\ SchemaDepth(t) = 0 /\ SchemaDepth(u) = 0
              /\ ComponentAt[0][t] = t /\ ComponentAt[0][u] = u
            BY <1>2, SchemaDepths, ComponentSteps
        <2>2. \A n \in 0..(0 - 1) : FALSE
            OBVIOUS
        <2>. QED  BY <2>1, <2>2 DEF SameDimensions
    <1>3. CASE IsSchema(t) /\ ~IsSchema(u)
        BY <1>1, <1>3, SchemaDepths DEF SameDimensions
    <1>4. CASE ~IsSchema(t) /\ IsSchema(u)
        BY <1>1, <1>4, SchemaDepths DEF SameDimensions
    <1>. QED  BY <1>2, <1>3, <1>4

LEMMA SameOfSchemas ==
    ASSUME NEW t \in Type, IsSchema(t), NEW s \in Type, IsSchema(s)
    PROVE  SameDimensions(t, s) <=>
            SameDimension(t, s) /\ SameDimensions(Types[t].component, Types[s].component)
    <1>. DEFINE tc == Types[t].component
                sc == Types[s].component
                d == SchemaDepth(tc)
                e == SchemaDepth(sc)
                Fits(n) == SameDimension(ComponentAt[n][t], ComponentAt[n][s])
                FitsBelow(n) == SameDimension(ComponentAt[n][tc], ComponentAt[n][sc])
    <1>1. Form(t) = "array" /\ Form(s) = "array" /\ tc \in Type /\ sc \in Type
        BY ComponentSteps DEF IsSchema
    <1>2. SchemaDepth(t) = d + 1 /\ SchemaDepth(s) = e + 1 /\ d \in Nat /\ e \in Nat
        BY <1>1, SchemaDepths DEF IsDepth
    <1>3. ASSUME NEW n \in Nat
          PROVE  ComponentAt[n + 1][t] = ComponentAt[n][tc] /\ ComponentAt[n + 1][s] = ComponentAt[n][sc]
        BY <1>1, ComponentSteps
    <1>4. Fits(0) <=> SameDimension(t, s)
        BY ComponentSteps
    <1>5. ASSUME NEW n \in Nat PROVE Fits(n + 1) <=> FitsBelow(n)
        BY <1>3
    <1>6. (\A n \in 0..d : Fits(n)) <=> Fits(0) /\ \A n \in 0..(d - 1) : FitsBelow(n)
        <2>. HIDE DEF Fits, FitsBelow, d
        <2>1. ASSUME \A n \in 0..d : Fits(n), NEW n \in 0..(d - 1) PROVE FitsBelow(n)
            BY <1>2, <1>5, <2>1
        <2>2. ASSUME Fits(0), \A n \in 0..(d - 1) : FitsBelow(n), NEW n \in 0..d PROVE Fits(n)
            <3>1. CASE n = 0
                BY <2>2, <3>1
            <3>2. CASE n # 0
                <4>1. n - 1 \in Nat /\ n - 1 \in 0..(d - 1) /\ (n - 1) + 1 = n
                    BY <1>2, <3>2
                <4>. QED  BY <1>5, <2>2, <4>1
            <3>. QED  BY <3>1, <3>2
        <2>3. 0 \in 0..d
            BY <1>2
        <2>. QED  BY <2>1, <2>2, <2>3
    <1>7. ComponentAt[d + 1][t] = ComponentAt[d][tc] /\ ComponentAt[d + 1][s] = ComponentAt[d][sc]
        BY <1>2, <1>3
    <1>8. (d + 1) - 1 = d /\ (d + 1 = e + 1 <=> d = e)
        BY <1>2
    <1>9. SameDimensions(t, s) <=>
            /\ d + 1 = e + 1
            /\ \A n \in 0..d : Fits(n)
            /\ ComponentAt[d + 1][t] = ComponentAt[d + 1][s]
        BY <1>2, <1>8 DEF SameDimensions
    <1>10. SameDimensions(tc, sc) <=>
            /\ d = e
            /\ \A n \in 0..(d - 1) : FitsBelow(n)
            /\ ComponentAt[d][tc] = ComponentAt[d][sc]
        BY DEF SameDimensions
    <1>. HIDE DEF Fits, FitsBelow, d, e, tc, sc
    <1>. QED  BY <1>4, <1>6, <1>7, <1>8, <1>9, <1>10 DEF tc, sc

(* isEquivalent() finds the schemas that say the same.                     *)
LEMMA EquivalentAreSame ==
    ASSUME NEW t \in Type, NEW u \in Type
    PROVE  Equivalent[t][u] <=> SameTypes(t, u)
    <1>. DEFINE Same == {v \in Type : \A w \in Type : Equivalent[v][w] <=> SameDimensions(v, w)}
    <1>1. ASSUME NEW v \in Type, \A w \in Type : TypeLevel[w] < TypeLevel[v] => w \in Same,
                 NEW w \in Type
          PROVE  Equivalent[v][w] <=> SameDimensions(v, w)
        <2>1. Equivalent[v][w] = EquivalentWith(Equivalent, v)[w]
            BY EquivalentUnfold
        <2>2. CASE ~(IsSchema(v) /\ IsSchema(w))
            BY <2>1, <2>2, SameFlat DEF EquivalentWith
        <2>3. CASE IsSchema(v) /\ IsSchema(w)
            <3>. DEFINE vc == Types[v].component
                        wc == Types[w].component
            <3>1. /\ Form(v) = "array" /\ Form(w) = "array"
                  /\ vc \in Type /\ wc \in Type /\ TypeLevel[vc] < TypeLevel[v]
                BY <2>3, ComponentSteps DEF IsSchema
            <3>2. Equivalent[vc][wc] <=> SameDimensions(vc, wc)
                BY <1>1, <3>1
            <3>3. Equivalent[v][w] <=> SameDimension(v, w) /\ Equivalent[vc][wc]
                BY <2>1, <2>3, <3>1 DEF EquivalentWith, SameDimension
            <3>. QED  BY <2>3, <3>2, <3>3, SameOfSchemas
        <2>. QED  BY <2>2, <2>3
    <1>2. ASSUME NEW v \in Type, \A w \in Type : TypeLevel[w] < TypeLevel[v] => w \in Same
          PROVE  v \in Same
        BY <1>1, <1>2
    <1>3. AreLevels(Type, TypeLevel)
        BY PartsAreSmaller DEF LevelsAssumption, AreLevels
    <1>4. Type \subseteq Same
        <2>. HIDE DEF Same
        <2>. QED  BY <1>2, <1>3, LevelInduction
    <1>5. Equivalent[t][u] <=> SameDimensions(t, u)
        BY <1>4
    <1>6. SameTypes(t, u) <=> t = u \/ (IsSchema(t) /\ IsSchema(u) /\ SameDimensions(t, u))
        BY DEF SameTypes, SameDimensions
    <1>7. t = u => SameDimensions(t, u)
        BY DEF SameDimensions, SameDimension
    <1>. QED  BY <1>5, <1>6, <1>7, SameFlat

(* 6.6.3.6: isCongruousWith() finds the lists that differ in names only.   *)
LEMMA CongruousAreSame ==
    ASSUME NEW g \in Signature, NEW o \in Signature
    PROVE  Congruous[g][o] <=> SameLists[g][o]
    <1>. DEFINE Same == {v \in Signature : \A w \in Signature : Congruous[v][w] <=> SameLists[v][w]}
    <1>1. ASSUME NEW v \in Signature,
                 \A w \in Signature : SignatureLevel[w] < SignatureLevel[v] => w \in Same,
                 NEW w \in Signature
          PROVE  Congruous[v][w] <=> SameLists[v][w]
        <2>. DEFINE p == Signatures[v].parameters
                    q == Signatures[w].parameters
                    Fits(k) ==
                        /\ p[k].by = q[k].by
                        /\ IF p[k].by = "subroutine"
                           THEN /\ Congruous[p[k].signature][q[k].signature]
                                /\ Signatures[p[k].signature].result = Signatures[q[k].signature].result
                           ELSE p[k].count = q[k].count /\ Equivalent[p[k].type][q[k].type]
                    Matches(k) ==
                        /\ <<p[k].by, p[k].count>> = <<q[k].by, q[k].count>>
                        /\ p[k].by # "subroutine" => SameTypes(p[k].type, q[k].type)
                        /\ p[k].by = "subroutine" =>
                            /\ SameLists[p[k].signature][q[k].signature]
                            /\ Signatures[p[k].signature].result = Signatures[q[k].signature].result
        <2>1. Congruous[v][w] <=> Len(p) = Len(q) /\ \A k \in DOMAIN p : Fits(k)
            <3>1. Congruous[v] = CongruousWith(Congruous, v)
                BY CongruousUnfold
            <3>2. CongruousWith(Congruous, v)[w] <=> Len(p) = Len(q) /\ \A k \in DOMAIN p : Fits(k)
                BY DEF CongruousWith
            <3>. QED  BY <3>1, <3>2
        <2>2. SameLists[v][w] <=> Len(p) = Len(q) /\ \A k \in DOMAIN p : Matches(k)
            <3>1. SameLists[v] = SameListsWith(SameLists, v)
                BY SameListsUnfold
            <3>2. SameListsWith(SameLists, v)[w] <=> Len(p) = Len(q) /\ \A k \in DOMAIN p : Matches(k)
                BY DEF SameListsWith
            <3>. QED  BY <3>1, <3>2
        <2>3. ASSUME Len(p) = Len(q), NEW k \in DOMAIN p PROVE Fits(k) <=> Matches(k)
            <3>1. /\ p[k] \in FormalSection
                  /\ p[k].by = "subroutine" =>
                        p[k].signature \in Signature /\ SignatureLevel[p[k].signature] < SignatureLevel[v]
                BY <2>3, NestedSignatures
            <3>2. q[k] \in FormalSection
                <4>1. p \in Seq(FormalSection) /\ q \in Seq(FormalSection)
                    BY NestedSignatures
                <4>. HIDE DEF p, q
                <4>. QED  BY <2>3, <4>1
            <3>3. CASE p[k].by # q[k].by
                BY <3>3
            <3>4. CASE p[k].by = q[k].by /\ p[k].by = "subroutine"
                <4>1. p[k].count = 1 /\ q[k].count = 1 /\ q[k].signature \in Signature
                    BY <3>1, <3>2, <3>4, SectionParts
                <4>2. Congruous[p[k].signature][q[k].signature] <=> SameLists[p[k].signature][q[k].signature]
                    BY <1>1, <3>1, <3>4, <4>1
                <4>. QED  BY <3>4, <4>1, <4>2
            <3>5. CASE p[k].by = q[k].by /\ p[k].by # "subroutine"
                <4>1. p[k].type \in Type /\ q[k].type \in Type
                    BY <3>1, <3>2, <3>5, SectionParts
                <4>2. Equivalent[p[k].type][q[k].type] <=> SameTypes(p[k].type, q[k].type)
                    BY <4>1, EquivalentAreSame
                <4>. QED  BY <3>5, <4>2
            <3>. QED  BY <3>3, <3>4, <3>5
        <2>. HIDE DEF p, q, Fits, Matches
        <2>. QED  BY <2>1, <2>2, <2>3
    <1>2. ASSUME NEW v \in Signature,
                 \A w \in Signature : SignatureLevel[w] < SignatureLevel[v] => w \in Same
          PROVE  v \in Same
        BY <1>1, <1>2
    <1>3. AreLevels(Signature, SignatureLevel)
        BY PartsAreSmaller DEF LevelsAssumption, AreLevels, Signature
    <1>4. Signature \subseteq Same
        <2>. HIDE DEF Same
        <2>. QED  BY <1>2, <1>3, LevelInduction
    <1>. QED  BY <1>4
-----------------------------------------------------------------------------
(* An actual parameter is good if it suits its section and agrees with the *)
(* first good one, if there is one and the section is of a schema.         *)

AgreesWithFirst(a) ==
    IsSchema(Section.type) /\ first # NoType => TypeAs(Section.by, a) = first

(* What suits the section, of which first is the type.                     *)
FirstSuits ==
    Section.by # "subroutine" /\ IsSchema(Section.type) /\ first # NoType =>
        /\ first \in Type
        /\ IsInstance(first, Section.type)
        /\ Section.by = "value" => ~IsSchema(first)

IsGoodVariable(a) ==
    /\ IsVariableAccess(a)
    /\ IF IsSchema(Section.type) THEN IsConformable(VariableType(a))
       ELSE VariableType(a) = Section.type
    /\ a.form = "field" => ~Types[a.of].packed /\ <<a.of, a.field>> \notin TagFields
    /\ a.form = "component" => ~Types[a.of].packed

IsGoodValue(a) ==
    IF IsSchema(Section.type)
    THEN IsConformable(ValueType(a)) /\ ~IsSchema(ValueType(a))
    ELSE AssignmentCompatible(ValueType(a), Section.type)

IsGoodSubroutine(a) ==
    LET result == Signatures[Section.signature].result
        kind == IF result = NoType THEN "procedure" ELSE "function"
    IN  /\ a.form = "name"
        /\ Names[a.of].kind = kind
        /\ Congruous[Names[a.of].signature][Section.signature]
        /\ Signatures[Names[a.of].signature].result = result

LEMMA GoodVariables ==
    ASSUME NEW a \in AnyActual, Section \in FormalSection, Section.by = "variable", FirstSuits
    PROVE  IsGoodVariable(a) <=> Suits(a, Section) /\ AgreesWithFirst(a)
    <1>. DEFINE t == VariableType(a)
                s == Section
    <1>1. Suits(a, s) <=>
            MayBeVariable(a) /\ IF IsSchema(s.type) THEN IsInstance(t, s.type) ELSE t = s.type
        BY DEF Suits
    <1>2. IsGoodVariable(a) <=>
            MayBeVariable(a) /\ IF IsSchema(s.type) THEN IsConformable(t) ELSE t = s.type
        BY DEF IsGoodVariable, MayBeVariable
    <1>3. CASE ~MayBeVariable(a)
        BY <1>1, <1>2, <1>3
    <1>4. CASE MayBeVariable(a)
        <2>1. t \in Type /\ s.type \in Type
            BY <1>4, TypesOfActuals, SectionParts DEF MayBeVariable
        <2>2. Conformable[t][s.type] <=> IsInstance(t, s.type)
            BY <2>1, ConformableAreInstances
        <2>3. AgreesWithFirst(a) <=> (IsSchema(s.type) /\ first # NoType => t = first)
            BY DEF AgreesWithFirst, TypeAs
        <2>4. IsSchema(s.type) /\ first # NoType => IsInstance(first, s.type)
            BY DEF FirstSuits
        <2>. HIDE DEF t, s
        <2>. QED  BY <1>1, <1>2, <1>4, <2>2, <2>3, <2>4 DEF IsConformable, s
    <1>. QED  BY <1>3, <1>4

(* The value of an expression may be narrow, but has a range that is known.*)
LEMMA ValuesAreNoBounds ==
    ASSUME NEW a \in AnyActual
    PROVE  Form(ValueType(a)) # "bounds"
    <1>1. /\ a.form \in ActualForms
          /\ a.form = "name" => a.of \in DOMAIN Names
          /\ a.form = "expression" => a.of \in Type \ OfForm("bounds")
        BY DEF AnyActual, ParameterAssumption
    <1>2. CASE a.form \in {"name", "expression"}
        BY <1>1, <1>2 DEF ParameterAssumption, ValueType, OfForm
    <1>3. CASE IsVariableAccess(a)
        <2>1. ValueType(a) = Promoted(VariableType(a)) /\ VariableType(a) \in Type
            BY <1>3, TypesOfActuals DEF IsVariableAccess, ValueType
        <2>. QED  BY <2>1, PromotedIsWhole DEF IsWhole
    <1>. QED  BY <1>1, <1>2, <1>3 DEF IsVariableAccess, ActualForms

LEMMA GoodValues ==
    ASSUME NEW a \in AnyActual, Section \in FormalSection, Section.by = "value", FirstSuits
    PROVE  IsGoodValue(a) <=> Suits(a, Section) /\ AgreesWithFirst(a)
    <1>. DEFINE t == ValueType(a)
                s == Section
    <1>1. Suits(a, s) <=>
            IF IsSchema(s.type) THEN IsInstance(t, s.type) /\ ~IsSchema(t)
            ELSE MayBeGiven(ValueOf(t), s.type)
        BY DEF Suits
    <1>2. t \in Type
        BY TypesOfActuals
    <1>3. s.type \in Type /\ Form(s.type) \notin SyntheticForms
        BY SectionParts
    <1>4. Conformable[t][s.type] <=> IsInstance(t, s.type)
        BY <1>2, <1>3, ConformableAreInstances
    <1>5. AssignmentCompatible(t, s.type) <=> MayBeGiven(ValueOf(t), s.type)
        BY <1>2, <1>3, GivenKinds
    <1>6. AgreesWithFirst(a) <=> (IsSchema(s.type) /\ first # NoType => t = first)
        BY DEF AgreesWithFirst, TypeAs
    <1>7. IsSchema(s.type) /\ first # NoType => IsInstance(first, s.type) /\ ~IsSchema(first)
        BY DEF FirstSuits
    <1>8. IsGoodValue(a) <=>
            IF IsSchema(s.type) THEN IsConformable(t) /\ ~IsSchema(t)
            ELSE AssignmentCompatible(t, s.type)
        BY DEF IsGoodValue
    <1>. HIDE DEF t, s
    <1>. QED  BY <1>1, <1>4, <1>5, <1>6, <1>7, <1>8 DEF IsConformable, s

LEMMA GoodSubroutines ==
    ASSUME NEW a \in AnyActual, Section \in FormalSection, Section.by = "subroutine"
    PROVE  IsGoodSubroutine(a) <=> Suits(a, Section)
    <1>. DEFINE g == Names[a.of].signature
                s == Section
                result == Signatures[s.signature].result
    <1>1. Suits(a, s) <=>
            /\ a.form = "name"
            /\ Names[a.of].kind \in {"procedure", "function"}
            /\ SameLists[g][s.signature]
            /\ Signatures[g].result = result
        BY DEF Suits
    <1>2. s.signature \in Signature
        BY SectionParts
    <1>3. CASE a.form # "name" \/ Names[a.of].kind \notin {"procedure", "function"}
        BY <1>1, <1>3 DEF IsGoodSubroutine
    <1>4. CASE a.form = "name" /\ Names[a.of].kind \in {"procedure", "function"}
        <2>1. a.of \in DOMAIN Names
            BY <1>4 DEF AnyActual, ParameterAssumption
        <2>2. /\ g \in Signature
              /\ Names[a.of].kind = "procedure" => Signatures[g].result = NoType
              /\ Names[a.of].kind = "function" => Signatures[g].result # NoType
            BY <1>4, <2>1 DEF SignatureAssumption, Signature, ParameterAssumption
        <2>3. Congruous[g][s.signature] <=> SameLists[g][s.signature]
            BY <1>2, <2>2, CongruousAreSame
        <2>4. Signatures[g].result = result =>
                (Names[a.of].kind = IF result = NoType THEN "procedure" ELSE "function")
            BY <1>4, <2>2
        <2>. QED  BY <1>1, <1>4, <2>3, <2>4 DEF IsGoodSubroutine
    <1>. QED  BY <1>3, <1>4
-----------------------------------------------------------------------------
(* The places of the formal parameters.                                    *)

InOrder == callee \in DOMAIN Names /\ wanted \in {"procedure", "function"} /\ IsDeclared

LEMMA FormalsOfSections ==
    ASSUME InOrder
    PROVE  /\ Len(Parameters) \in Nat
           /\ \A k \in 1..Len(Parameters) :
                Parameters[k] \in FormalSection /\ Parameters[k].count \in Nat \ {0}
           /\ Formals = UNION {{k} \X (1..Parameters[k].count) : k \in 1..Len(Parameters)}
           /\ \A q : q \in Formals <=>
                \E k \in 1..Len(Parameters) : \E j \in 1..Parameters[k].count : q = <<k, j>>
           /\ IsFiniteSet(Formals)
    <1>1. /\ Parameters \in Seq(FormalSection)
          /\ Len(Parameters) \in Nat
          /\ \A k \in 1..Len(Parameters) : Parameters[k].count \in Nat \ {0}
        BY SectionsOfParameters DEF InOrder
    <1>. DEFINE n == Len(Parameters)
                Group(k) == {k} \X (1..Parameters[k].count)
    <1>2. DOMAIN Parameters = 1..n /\ \A k \in 1..n : Parameters[k] \in FormalSection
        BY <1>1
    <1>3. Formals = UNION {Group(k) : k \in 1..n}
        BY <1>2 DEF Formals
    <1>4. \A q : q \in Formals <=>
            \E k \in 1..n : \E j \in 1..Parameters[k].count : q = <<k, j>>
        BY <1>3
    <1>5. ASSUME NEW k \in 1..n PROVE IsFiniteSet(Group(k))
        <2>1. 1 \in Int /\ Parameters[k].count \in Int
            BY <1>1, <1>5
        <2>2. IsFiniteSet({k})
            BY FS_Singleton
        <2>3. IsFiniteSet(1..Parameters[k].count)
            BY <2>1, FS_Interval
        <2>. QED  BY <2>2, <2>3, FS_Product
    <1>6. IsFiniteSet({Group(k) : k \in 1..n})
        <2>. DEFINE f == [k \in 1..n |-> Group(k)]
                    T == {Group(k) : k \in 1..n}
        <2>1. IsFiniteSet(1..n)
            BY <1>1, FS_Interval
        <2>2. f \in Surjection(1..n, T)
            BY DEF Surjection
        <2>. HIDE DEF T, f
        <2>3. IsFiniteSet(T)
            BY <2>1, <2>2, FS_Surjection
        <2>. QED  BY <2>3 DEF T
    <1>7. IsFiniteSet(Formals)
        <2>. DEFINE T == {Group(k) : k \in 1..n}
        <2>1. \A U \in T : IsFiniteSet(U)
            BY <1>5
        <2>2. IsFiniteSet(T)
            BY <1>6
        <2>. HIDE DEF T
        <2>3. IsFiniteSet(UNION T)
            BY <2>1, <2>2, FS_UNION
        <2>. QED  BY <1>3, <2>3 DEF T
    <1>. QED  BY <1>1, <1>2, <1>3, <1>4, <1>7

Before(p) == {q \in Formals : IsBefore(q, p)}

LEMMA PlacesCount ==
    ASSUME InOrder, NEW p
    PROVE  /\ IsFiniteSet(Before(p))
           /\ Cardinality(Before(p)) \in Nat
           /\ PlaceOf(p) = 1 + Cardinality(Before(p))
    <1>1. IsFiniteSet(Formals) /\ Before(p) \subseteq Formals
        BY FormalsOfSections DEF Before
    <1>2. IsFiniteSet(Before(p))
        BY <1>1, FS_Subset
    <1>. QED  BY <1>2, FS_CardinalityType DEF PlaceOf, Before

(* One parameter after the other: the sections in their order, and in each *)
(* its parameters.                                                         *)
LEMMA NextPlace ==
    ASSUME InOrder, NEW k \in 1..Len(Parameters), NEW j \in 1..Parameters[k].count
    PROVE  /\ PlaceOf(<<k, j + 1>>) = PlaceOf(<<k, j>>) + 1
           /\ j = Parameters[k].count => PlaceOf(<<k + 1, 1>>) = PlaceOf(<<k, j>>) + 1
    <1>. DEFINE p == <<k, j>>
    <1>1. /\ p \in Formals /\ k \in Nat /\ j \in Nat /\ Parameters[k].count \in Nat
          /\ \A q \in Formals : q[1] \in Nat /\ q[2] \in Nat \ {0} /\ q = <<q[1], q[2]>>
                                /\ (q[1] = k => q[2] <= Parameters[k].count)
        BY FormalsOfSections
    <1>2. p \notin Before(p)
        BY <1>1 DEF Before, IsBefore
    <1>3. Before(<<k, j + 1>>) = Before(p) \cup {p}
        <2>1. ASSUME NEW q \in Formals PROVE IsBefore(q, <<k, j + 1>>) <=> IsBefore(q, p) \/ q = p
            <3>1. /\ q[1] \in Nat /\ q[2] \in Nat \ {0} /\ q = <<q[1], q[2]>>
                BY <1>1, <2>1
            <3>2. q = p <=> q[1] = k /\ q[2] = j
                BY <3>1
            <3>3. q[2] < j + 1 <=> q[2] < j \/ q[2] = j
                BY <1>1, <3>1
            <3>. QED  BY <3>2, <3>3 DEF IsBefore
        <2>. QED  BY <1>1, <2>1 DEF Before
    <1>4. ASSUME j = Parameters[k].count PROVE Before(<<k + 1, 1>>) = Before(p) \cup {p}
        <2>1. ASSUME NEW q \in Formals PROVE IsBefore(q, <<k + 1, 1>>) <=> IsBefore(q, p) \/ q = p
            <3>1. /\ q[1] \in Nat /\ q[2] \in Nat \ {0} /\ q = <<q[1], q[2]>>
                  /\ (q[1] = k => q[2] <= j)
                BY <1>1, <1>4, <2>1
            <3>2. q = p <=> q[1] = k /\ q[2] = j
                BY <3>1
            <3>3. (q[1] < k + 1 <=> q[1] < k \/ q[1] = k) /\ ~(q[2] < 1)
                BY <1>1, <3>1
            <3>4. q[1] = k => (q[2] < j \/ q[2] = j)
                BY <1>1, <3>1
            <3>. QED  BY <3>2, <3>3, <3>4 DEF IsBefore
        <2>. QED  BY <1>1, <2>1 DEF Before
    <1>. HIDE DEF p
    <1>5. /\ Cardinality(Before(p) \cup {p}) = Cardinality(Before(p)) + 1
          /\ Cardinality(Before(p)) \in Nat
          /\ PlaceOf(p) = 1 + Cardinality(Before(p))
          /\ PlaceOf(<<k, j + 1>>) = 1 + Cardinality(Before(<<k, j + 1>>))
          /\ PlaceOf(<<k + 1, 1>>) = 1 + Cardinality(Before(<<k + 1, 1>>))
        BY <1>2, PlacesCount, FS_AddElement
    <1>6. PlaceOf(<<k, j + 1>>) = PlaceOf(p) + 1
        <2>1. Cardinality(Before(<<k, j + 1>>)) = Cardinality(Before(p)) + 1
            BY <1>3, <1>5, Zenon
        <2>. QED  BY <1>5, <2>1
    <1>7. ASSUME j = Parameters[k].count PROVE PlaceOf(<<k + 1, 1>>) = PlaceOf(p) + 1
        <2>1. Cardinality(Before(<<k + 1, 1>>)) = Cardinality(Before(p)) + 1
            BY <1>4, <1>5, <1>7, Zenon
        <2>. QED  BY <1>5, <2>1
    <1>. QED  BY <1>6, <1>7 DEF p

(* The first parameter, and how many there are.                            *)
LEMMA FirstAndLastPlace ==
    ASSUME InOrder
    PROVE  /\ PlaceOf(<<1, 1>>) = 1
           /\ PlaceOf(<<Len(Parameters) + 1, 1>>) = 1 + Cardinality(Formals)
           /\ Cardinality(Formals) \in Nat
    <1>1. /\ Len(Parameters) \in Nat
          /\ \A q \in Formals : q[1] \in 1..Len(Parameters) /\ q[2] \in Nat \ {0}
          /\ IsFiniteSet(Formals)
        BY FormalsOfSections
    <1>2. Before(<<1, 1>>) = {}
        BY <1>1 DEF Before, IsBefore
    <1>3. Before(<<Len(Parameters) + 1, 1>>) = Formals
        BY <1>1 DEF Before, IsBefore
    <1>. QED  BY <1>1, <1>2, <1>3, PlacesCount, FS_EmptySet, FS_CardinalityType

(* No two parameters have one place.                                       *)
LEMMA SectionOfPlace ==
    ASSUME InOrder, NEW p \in Formals
    PROVE  SectionAt(PlaceOf(p)) = p[1]
    <1>1. ASSUME NEW q \in Formals, NEW r \in Formals, IsBefore(q, r)
          PROVE  PlaceOf(q) < PlaceOf(r)
        <2>1. \A o \in Formals : o[1] \in Nat /\ o[2] \in Nat
            <3>1. ASSUME NEW o \in Formals PROVE o[1] \in Nat /\ o[2] \in Nat
                <4>1. PICK k \in 1..Len(Parameters) : \E j \in 1..Parameters[k].count : o = <<k, j>>
                    BY FormalsOfSections
                <4>2. PICK j \in 1..Parameters[k].count : o = <<k, j>>
                    BY <4>1
                <4>3. k \in Nat /\ j \in Nat
                    <5>1. Parameters[k].count \in Nat
                        BY FormalsOfSections
                    <5>. QED  BY <5>1
                <4>. QED  BY <4>2, <4>3
            <3>. QED  BY <3>1
        <2>2. Before(q) \subseteq Before(r)
            <3>1. ASSUME NEW o \in Formals, IsBefore(o, q) PROVE IsBefore(o, r)
                BY <1>1, <2>1, <3>1 DEF IsBefore
            <3>. QED  BY <3>1 DEF Before
        <2>3. q \in Before(r) /\ q \notin Before(q)
            BY <1>1, <2>1 DEF Before, IsBefore
        <2>4. Cardinality(Before(q)) < Cardinality(Before(r))
            <3>1. /\ Cardinality(Before(q)) <= Cardinality(Before(r))
                  /\ Cardinality(Before(q)) = Cardinality(Before(r)) => Before(q) = Before(r)
                BY <2>2, PlacesCount, FS_Subset
            <3>. QED  BY <2>3, <3>1, PlacesCount
        <2>. QED  BY <2>4, PlacesCount
    <1>2. ASSUME NEW q \in Formals, PlaceOf(q) = PlaceOf(p)
          PROVE  q = p
        <2>1. /\ q[1] \in Nat /\ q[2] \in Nat /\ p[1] \in Nat /\ p[2] \in Nat
              /\ q = <<q[1], q[2]>> /\ p = <<p[1], p[2]>>
            BY FormalsOfSections
        <2>2. q = p \/ IsBefore(q, p) \/ IsBefore(p, q)
            BY <2>1 DEF IsBefore
        <2>3. PlaceOf(p) \in Nat
            BY PlacesCount
        <2>. QED  BY <1>1, <1>2, <2>2, <2>3
    <1>. DEFINE c == CHOOSE q \in Formals : PlaceOf(q) = PlaceOf(p)
    <1>3. c \in Formals /\ PlaceOf(c) = PlaceOf(p)
        OBVIOUS
    <1>4. SectionAt(PlaceOf(p)) = c[1]
        BY DEF SectionAt
    <1>. HIDE DEF c
    <1>. QED  BY <1>2, <1>3, <1>4
(* There are at least as many parameters as those of the sections up to    *)
(* some.                                                                   *)
LEMMA PlacesOfSection ==
    ASSUME InOrder, NEW k \in 1..Len(Parameters)
    PROVE  PlaceOf(<<k, 1>>) + Parameters[k].count <= 1 + Cardinality(Formals)
    <1>. DEFINE n == Parameters[k].count
                B == Before(<<k, 1>>)
                Group == {k} \X (1..n)
    <1>1. /\ n \in Nat \ {0} /\ k \in Nat
          /\ IsFiniteSet(Formals)
          /\ \A q \in Formals : q[1] \in Nat /\ q[2] \in Nat \ {0}
          /\ Group \subseteq Formals
        BY FormalsOfSections
    <1>2. IsFiniteSet(Group) /\ Cardinality(Group) = n
        <2>1. IsFiniteSet({k}) /\ Cardinality({k}) = 1
            BY FS_Singleton
        <2>2. 1 \in Int /\ n \in Int /\ ~(1 > n) /\ (n - 1) + 1 = n
            BY <1>1
        <2>3. IsFiniteSet(1..n) /\ Cardinality(1..n) = (n - 1) + 1
            BY <2>2, FS_Interval
        <2>4. /\ IsFiniteSet({k} \X (1..n))
              /\ Cardinality({k} \X (1..n)) = Cardinality({k}) * Cardinality(1..n)
            BY <2>1, <2>3, FS_Product
        <2>. QED  BY <2>1, <2>2, <2>3, <2>4
    <1>3. IsFiniteSet(B) /\ B \subseteq Formals
        BY PlacesCount DEF Before
    <1>4. B \cap Group = {}
        BY <1>1 DEF Before, IsBefore
    <1>. HIDE DEF B, Group, n
    <1>5. /\ Cardinality(B) \in Nat /\ Cardinality(Group) \in Nat /\ Cardinality(Formals) \in Nat
          /\ Cardinality(B \cap Group) = 0
        BY <1>1, <1>2, <1>3, <1>4, FS_CardinalityType, FS_EmptySet
    <1>6. Cardinality(B \cup Group) = Cardinality(B) + Cardinality(Group) - Cardinality(B \cap Group)
        BY <1>2, <1>3, FS_Union
    <1>7. Cardinality(B \cup Group) <= Cardinality(Formals)
        BY <1>1, <1>3, FS_Subset
    <1>8. PlaceOf(<<k, 1>>) = 1 + Cardinality(B)
        BY PlacesCount DEF B
    <1>. QED  BY <1>1, <1>2, <1>5, <1>6, <1>7, <1>8 DEF n

LEMMA LeastOf ==
    ASSUME NEW T, T \subseteq Nat, T # {}
    PROVE  /\ Min(T) \in T
           /\ \A y \in T : Min(T) <= y
           /\ \A x \in T : (\A y \in T : x <= y) => Min(T) = x
    <1>1. \E x \in T : \A y \in T : x <= y
        BY Minimum
    <1>2. Min(T) \in T /\ \A y \in T : Min(T) <= y
        BY <1>1 DEF Min
    <1>3. ASSUME NEW x \in T, \A y \in T : x <= y PROVE Min(T) = x
        <2>1. x \in Nat /\ Min(T) \in Nat /\ x <= Min(T) /\ Min(T) <= x
            BY <1>2, <1>3
        <2>. HIDE DEF Min
        <2>. QED  BY <2>1
    <1>. QED  BY <1>2, <1>3

-----------------------------------------------------------------------------
(* The resolution of a declared call is at the place it should be at, and  *)
(* remembers of the actual parameters that it has taken for a section what *)
(* the first one that suited the section is.                               *)

PlaceInv ==
    /\ PlaceOf(<<section, taken + 1>>) = Place
    /\ \A j \in 1..Len(actuals) :
        /\ SectionAt(j) \in 1..Len(Parameters)
        /\ SectionAt(j) <= section
        /\ taken = 0 => SectionAt(j) < section

PeerInv ==
    section <= Len(Parameters) =>
        /\ good = 0 <=> Peers(Place) = {}
        /\ good > 0 => first = TypeAs(Section.by, actuals[Min(Peers(Place))])

RightInv == \A i \in 1..Len(actuals) : i \in errors <=> ~IsRight(i)

Verdict == errors = {} <=> IsLegalDeclared

ExactInv ==
    IsDeclared =>
        /\ RightInv
        /\ status \in {"lookup", "declared"} => PlaceInv /\ PeerInv /\ errors \subseteq 1..Len(actuals)
        /\ status = "done" => Verdict

(* The sections do not change, nor do the parameters that have been read.  *)
LEMMA SectionsAreFixed ==
    ASSUME callee' = callee, NEW x
    PROVE  /\ Parameters' = Parameters
           /\ Formals' = Formals
           /\ PlaceOf(x)' = PlaceOf(x)
           /\ SectionAt(x)' = SectionAt(x)
    <1>1. Parameters' = Parameters
        BY DEF Parameters
    <1>2. Formals' = Formals
        BY <1>1 DEF Formals
    <1>3. ASSUME NEW y PROVE PlaceOf(y)' = PlaceOf(y)
        BY <1>2 DEF PlaceOf
    <1>4. SectionAt(x)' = SectionAt(x)
        BY <1>2, <1>3 DEF SectionAt
    <1>. QED  BY <1>1, <1>2, <1>3, <1>4

PartOf(s, t) == Len(s) <= Len(t) /\ \A j \in 1..Len(s) : t[j] = s[j]

LEMMA PeersAreFixed ==
    ASSUME callee' = callee, actuals \in Seq(AnyActual), PartOf(actuals, actuals'),
           NEW i \in 1..(Len(actuals) + 1)
    PROVE  /\ Peers(i)' = Peers(i)
           /\ Peers(i) \subseteq 1..(i - 1) /\ Peers(i) \subseteq Nat
           /\ Peers(i) # {} => Min(Peers(i)) \in Peers(i) /\ actuals'[Min(Peers(i))] = actuals[Min(Peers(i))]
    <1>1. Len(actuals) \in Nat /\ i \in Nat
        OBVIOUS
    <1>2. ASSUME NEW j \in 1..(i - 1) PROVE actuals'[j] = actuals[j] /\ j \in Nat
        BY <1>1, <1>2 DEF PartOf
    <1>3. Parameters' = Parameters /\ SectionAt(i)' = SectionAt(i)
        BY SectionsAreFixed
    <1>4. ASSUME NEW j \in 1..(i - 1) PROVE SectionAt(j)' = SectionAt(j)
        BY SectionsAreFixed
    <1>5. Peers(i)' = {j \in 1..(i - 1) : SectionAt(j)' = SectionAt(i)'
                                            /\ Suits(actuals'[j], Parameters'[SectionAt(i)'])}
        BY DEF Peers
    <1>6. Peers(i)' = Peers(i)
        BY <1>2, <1>3, <1>4, <1>5 DEF Peers
    <1>7. Peers(i) \subseteq 1..(i - 1) /\ Peers(i) \subseteq Nat
        BY <1>1 DEF Peers
    <1>8. Peers(i) # {} => Min(Peers(i)) \in Peers(i)
        BY <1>7, LeastOf
    <1>. QED  BY <1>2, <1>6, <1>7, <1>8

LEMMA RightIsFixed ==
    ASSUME callee' = callee, actuals \in Seq(AnyActual), PartOf(actuals, actuals'),
           NEW i \in 1..Len(actuals)
    PROVE  IsRight(i)' <=> IsRight(i)
    <1>1. /\ Len(actuals) \in Nat /\ i \in 1..(Len(actuals) + 1)
          /\ actuals'[i] = actuals[i]
        BY DEF PartOf
    <1>2. Parameters' = Parameters /\ SectionAt(i)' = SectionAt(i)
        BY SectionsAreFixed
    <1>3. /\ Peers(i)' = Peers(i)
          /\ Peers(i) # {} => actuals'[Min(Peers(i))] = actuals[Min(Peers(i))]
        BY <1>1, PeersAreFixed
    <1>4. AgreesWithPeers(i)' <=> AgreesWithPeers(i)
        BY <1>1, <1>2, <1>3 DEF AgreesWithPeers
    <1>. QED  BY <1>1, <1>2, <1>4 DEF IsRight
(* What goes wrong with an actual parameter is known when it is taken.     *)
LEMMA TakeNextIsExact ==
    ASSUME TypeInv, ExactInv, status = "declared", NEW a \in Written[callee], NEW by,
           NEW STATE type, NEW STATE isGood, NEW STATE isWrong,
           isGood <=> Suits(a, Section) /\ (by # "subroutine" => AgreesWithFirst(a)),
           isWrong <=> ~isGood \/ (by = "value" /\ HasNoValue(a)),
           by # "subroutine" => type = TypeAs(by, a),
           TakeNext(by, a, isGood, isWrong, type)
    PROVE  ExactInv'
    <1>1. /\ InOrder /\ IsDeclared
          /\ section \in 1..Len(Parameters) /\ section \in Nat
          /\ Section.by = by
          /\ Len(actuals) \in Nat /\ actuals \in Seq(AnyActual)
          /\ taken \in Nat /\ good \in Nat
          /\ RightInv /\ PlaceInv /\ PeerInv /\ errors \subseteq 1..Len(actuals)
        BY SectionsOfParameters DEF TypeInv, CallInv, SectionInv, TakeNext, ExactInv, InOrder
    <1>2. /\ Len(Parameters) \in Nat
          /\ Section = Parameters[section] /\ Section \in FormalSection
          /\ Section.count \in Nat \ {0}
          /\ Section.by = "subroutine" => Section.count = 1
          /\ taken + 1 \in 1..Section.count
        <2>1. Len(Parameters) \in Nat /\ Section = Parameters[section] /\ Section \in FormalSection
            BY <1>1, FormalsOfSections DEF Section
        <2>2. Section.count \in Nat \ {0} /\ (Section.by = "subroutine" => Section.count = 1)
            BY <2>1, SectionParts
        <2>3. taken = 0 \/ taken < Section.count
            BY <1>1 DEF TypeInv, SectionInv
        <2>4. taken + 1 \in 1..Section.count
            <3>. DEFINE c == Section.count
            <3>1. c \in Nat \ {0} /\ (taken = 0 \/ taken < c)
                BY <2>2, <2>3
            <3>. HIDE DEF c
            <3>. QED  BY <1>1, <3>1 DEF c
        <2>. QED  BY <2>1, <2>2, <2>4
    <1>3. /\ callee' = callee /\ wanted' = wanted /\ count' = count /\ status' = status
          /\ actuals' = Append(actuals, a)
          /\ errors' = errors \cup At(Place, isWrong \/ IsFormatted(a))
          /\ Take(isGood, type)
        BY DEF TakeNext, Read
    <1>4. PICK n \in Nat : n = Place /\ n = Len(actuals) + 1 /\ n - 1 = Len(actuals)
        BY <1>1 DEF Place
    <1>5. /\ Len(actuals') = n /\ Place' = n + 1 /\ actuals'[n] = a
          /\ PartOf(actuals, actuals')
        <2>1. a \in AnyActual
            BY DEF TypeInv, CallInv, AnyActual
        <2>2. /\ Len(Append(actuals, a)) = Len(actuals) + 1
              /\ Append(actuals, a)[Len(actuals) + 1] = a
              /\ \A j \in 1..Len(actuals) : Append(actuals, a)[j] = actuals[j]
            BY <1>1, <2>1
        <2>. QED  BY <1>1, <1>3, <1>4, <2>2 DEF PartOf, Place
    <1>6. SectionAt(n) = section /\ n = PlaceOf(<<section, taken + 1>>)
        <2>1. <<section, taken + 1>> \in Formals
            BY <1>1, <1>2, FormalsOfSections
        <2>2. SectionAt(PlaceOf(<<section, taken + 1>>)) = section
            BY <1>1, <2>1, SectionOfPlace
        <2>. QED  BY <1>1, <1>4, <2>2 DEF PlaceInv
    <1>7. /\ Parameters' = Parameters /\ Formals' = Formals
          /\ \A x : SectionAt(x)' = SectionAt(x)
          /\ \A x : PlaceOf(x)' = PlaceOf(x)
        <2>1. ASSUME NEW x
              PROVE  /\ Parameters' = Parameters /\ Formals' = Formals
                     /\ SectionAt(x)' = SectionAt(x) /\ PlaceOf(x)' = PlaceOf(x)
            BY <1>3, SectionsAreFixed
        <2>. QED  BY <2>1
    <1>8. /\ Peers(n)' = Peers(n)
          /\ Peers(n) \subseteq 1..(n - 1) /\ Peers(n) \subseteq Nat
          /\ Peers(n) # {} =>
                Min(Peers(n)) \in Peers(n) /\ actuals'[Min(Peers(n))] = actuals[Min(Peers(n))]
        BY <1>1, <1>3, <1>4, <1>5, PeersAreFixed
    <1>9. good = 0 => first = NoType
        BY DEF TypeInv, SectionInv
    <1>10. by # "subroutine" => (AgreesWithPeers(n)' <=> AgreesWithFirst(a))
        <2>1. AgreesWithPeers(n)' <=>
                (by # "subroutine" /\ IsSchema(Section.type) /\ Peers(n) # {} =>
                    TypeAs(by, a) = TypeAs(by, actuals[Min(Peers(n))]))
            BY <1>1, <1>2, <1>5, <1>6, <1>7, <1>8 DEF AgreesWithPeers
        <2>2. /\ good = 0 <=> Peers(n) = {}
              /\ good > 0 => first = TypeAs(by, actuals[Min(Peers(n))])
            BY <1>1, <1>4 DEF PeerInv
        <2>3. good > 0 => first # NoType
            BY DEF TypeInv, SectionInv, SignatureAssumption
        <2>. QED  BY <1>1, <1>9, <2>1, <2>2, <2>3 DEF AgreesWithFirst
    <1>11. by = "subroutine" => AgreesWithPeers(n)'
        BY <1>1, <1>2, <1>6, <1>7 DEF AgreesWithPeers
    <1>12. n \in errors' <=> ~IsRight(n)'
        <2>1. n \notin errors
            BY <1>1, <1>4
        <2>2. n \in errors' <=> isWrong \/ IsFormatted(a)
            BY <1>3, <1>4, <2>1 DEF At
        <2>3. IsRight(n)' <=>
                /\ ~IsFormatted(a)
                /\ by = "value" => ~HasNoValue(a)
                /\ Suits(a, Section)
                /\ AgreesWithPeers(n)'
            BY <1>1, <1>2, <1>5, <1>6, <1>7 DEF IsRight
        <2>. QED  BY <1>10, <1>11, <2>2, <2>3
    <1>13. RightInv'
        <2>1. ASSUME NEW i \in 1..Len(actuals)
              PROVE  i \in errors' <=> ~IsRight(i)'
            <3>1. i \in errors <=> ~IsRight(i)
                BY <1>1 DEF RightInv
            <3>2. IsRight(i)' <=> IsRight(i)
                BY <1>1, <1>3, <1>5, RightIsFixed
            <3>3. i # n
                BY <1>4
            <3>4. i \in errors' <=> i \in errors
                BY <1>3, <1>4, <3>3 DEF At
            <3>. QED  BY <3>1, <3>2, <3>4
        <2>2. ASSUME NEW i \in 1..n PROVE i \in 1..Len(actuals) \/ i = n
            BY <1>4, <2>2
        <2>3. ASSUME NEW i \in 1..n PROVE i \in errors' <=> ~IsRight(i)'
            <3>1. CASE i = n
                BY <1>12, <3>1
            <3>2. CASE i \in 1..Len(actuals)
                BY <2>1, <3>2
            <3>. QED  BY <2>2, <3>1, <3>2
        <2>. QED  BY <1>5, <2>3 DEF RightInv
    <1>14. errors' \subseteq 1..Len(actuals')
        <2>1. errors' \subseteq errors \cup {n}
            BY <1>3, <1>4 DEF At
        <2>2. \A i \in 1..Len(actuals) : i \in 1..n
            BY <1>4
        <2>3. n \in 1..n
            BY <1>1, <1>4
        <2>. QED  BY <1>1, <1>5, <2>1, <2>2, <2>3
    <1>15. Peers(Place)' = Peers(n + 1)'
        <2>1. SectionAt(Place)' = SectionAt(n + 1)'
            BY <1>5 DEF SectionAt
        <2>. QED  BY <1>5, <2>1 DEF Peers
    <1>16. CASE taken + 1 = Section.count
        <2>1. section' = section + 1 /\ taken' = 0 /\ good' = 0
            BY <1>3, <1>16 DEF Take
        <2>2. PlaceOf(<<section + 1, 1>>) = n + 1
            BY <1>1, <1>2, <1>6, <1>16, NextPlace
        <2>3. ASSUME NEW j \in 1..n
              PROVE  SectionAt(j) \in 1..Len(Parameters) /\ SectionAt(j) <= section
            <3>1. j \in 1..Len(actuals) \/ j = n
                BY <1>4
            <3>. QED  BY <1>1, <1>6, <3>1 DEF PlaceInv
        <2>4. PlaceInv'
            <3>1. PlaceOf(<<section, taken + 1>>)' = Place'
                <4>1. <<section', taken' + 1>> = <<section + 1, 1>>
                    BY <2>1
                <4>2. PlaceOf(<<section, taken + 1>>)' = PlaceOf(<<section + 1, 1>>)
                    BY <1>7, <4>1 DEF PlaceOf
                <4>. QED  BY <1>5, <2>2, <4>2
            <3>2. ASSUME NEW j \in 1..n
                  PROVE  /\ SectionAt(j)' \in 1..Len(Parameters')
                         /\ SectionAt(j)' <= section' /\ SectionAt(j)' < section'
                <4>1. SectionAt(j)' = SectionAt(j)
                    BY <1>7
                <4>2. SectionAt(j) \in 1..Len(Parameters) /\ SectionAt(j) <= section
                    BY <2>3
                <4>3. Len(Parameters') = Len(Parameters) /\ section' = section + 1
                    BY <1>7, <2>1
                <4>. QED  BY <1>1, <1>2, <4>1, <4>2, <4>3
            <3>. QED  BY <1>5, <3>1, <3>2 DEF PlaceInv
        <2>5. section' <= Len(Parameters') => Peers(n + 1)' = {}
            <3>1. SUFFICES ASSUME section + 1 <= Len(Parameters) PROVE Peers(n + 1)' = {}
                BY <1>7, <2>1
            <3>2. section + 1 \in 1..Len(Parameters)
                BY <1>1, <1>2, <3>1
            <3>3. <<section + 1, 1>> \in Formals
                BY <1>1, <3>2, FormalsOfSections
            <3>4. SectionAt(n + 1) = section + 1
                BY <1>1, <2>2, <3>3, SectionOfPlace
            <3>5. ASSUME NEW j \in 1..n PROVE SectionAt(j)' # SectionAt(n + 1)'
                <4>1. SectionAt(j)' = SectionAt(j) /\ SectionAt(n + 1)' = section + 1
                    BY <1>7, <3>4
                <4>. QED  BY <1>1, <1>2, <2>3, <4>1
            <3>6. (n + 1) - 1 = n
                OBVIOUS
            <3>. QED  BY <3>5, <3>6 DEF Peers
        <2>6. PeerInv'
            BY <1>15, <2>1, <2>5 DEF PeerInv
        <2>. QED  BY <1>1, <1>3, <1>13, <1>14, <2>4, <2>6 DEF ExactInv
    <1>17. CASE taken + 1 # Section.count
        <2>1. /\ section' = section /\ taken' = taken + 1
              /\ good' = (IF isGood THEN good + 1 ELSE good)
              /\ first' = (IF isGood /\ good = 0 THEN type ELSE first)
            BY <1>3, <1>17 DEF Take
        <2>2. taken + 2 \in 1..Section.count /\ by # "subroutine"
            <3>. DEFINE c == Section.count
            <3>1. taken + 1 \in 1..c /\ taken + 1 # c /\ c \in Nat \ {0} /\ taken \in Nat
                BY <1>1, <1>2, <1>17
            <3>. HIDE DEF c
            <3>2. taken + 2 \in 1..c /\ c # 1
                BY <3>1
            <3>. QED  BY <1>1, <1>2, <3>2 DEF c
        <2>3. PlaceOf(<<section, taken + 2>>) = n + 1
            <3>1. (taken + 1) + 1 = taken + 2
                BY <1>1
            <3>2. PlaceOf(<<section, (taken + 1) + 1>>) = PlaceOf(<<section, taken + 1>>) + 1
                BY <1>1, <1>2, NextPlace
            <3>. QED  BY <1>6, <3>1, <3>2
        <2>4. SectionAt(n + 1) = section
            <3>1. <<section, taken + 2>> \in Formals
                BY <1>1, <1>2, <2>2, FormalsOfSections
            <3>. QED  BY <1>1, <2>3, <3>1, SectionOfPlace
        <2>5. PlaceInv'
            <3>1. PlaceOf(<<section, taken + 1>>)' = Place'
                <4>1. <<section', taken' + 1>> = <<section, taken + 2>>
                    BY <1>1, <2>1
                <4>2. PlaceOf(<<section, taken + 1>>)' = PlaceOf(<<section, taken + 2>>)
                    BY <1>7, <4>1 DEF PlaceOf
                <4>. QED  BY <1>5, <2>3, <4>2
            <3>2. ASSUME NEW j \in 1..n
                  PROVE  SectionAt(j)' \in 1..Len(Parameters') /\ SectionAt(j)' <= section'
                <4>1. j \in 1..Len(actuals) \/ j = n
                    BY <1>4
                <4>2. SectionAt(j) \in 1..Len(Parameters) /\ SectionAt(j) <= section
                    BY <1>1, <1>6, <4>1 DEF PlaceInv
                <4>. QED  BY <1>7, <2>1, <4>2
            <3>3. taken' # 0
                BY <1>1, <2>1
            <3>. QED  BY <1>5, <3>1, <3>2, <3>3 DEF PlaceInv
        <2>6. Peers(n + 1)' = Peers(n) \cup (IF Suits(a, Section) THEN {n} ELSE {})
            <3>1. (n + 1) - 1 = n
                OBVIOUS
            <3>2. Peers(n + 1)' = {j \in 1..n : SectionAt(j)' = section /\ Suits(actuals'[j], Section)}
                <4>1. SectionAt(n + 1)' = section /\ Parameters'[section] = Section
                    BY <1>2, <1>7, <2>4
                <4>. QED  BY <3>1, <4>1 DEF Peers
            <3>3. Peers(n) = {j \in 1..(n - 1) : SectionAt(j) = section /\ Suits(actuals[j], Section)}
                BY <1>2, <1>6 DEF Peers
            <3>4. ASSUME NEW j \in 1..n
                  PROVE  j \in Peers(n + 1)' <=> (j \in Peers(n) \/ (j = n /\ Suits(a, Section)))
                <4>1. CASE j = n
                    <5>1. SectionAt(j)' = section /\ actuals'[j] = a /\ n \notin 1..(n - 1)
                        BY <1>5, <1>6, <1>7, <4>1
                    <5>. QED  BY <3>2, <3>3, <4>1, <5>1
                <4>2. CASE j # n
                    <5>1. j \in 1..(n - 1) /\ SectionAt(j)' = SectionAt(j) /\ actuals'[j] = actuals[j]
                        BY <1>4, <1>5, <1>7, <4>2 DEF PartOf
                    <5>. QED  BY <3>2, <3>3, <4>2, <5>1
                <4>. QED  BY <4>1, <4>2
            <3>5. Peers(n + 1)' \subseteq 1..n /\ Peers(n) \subseteq 1..n /\ n \in 1..n
                BY <1>4, <1>1, <3>2, <3>3
            <3>. HIDE DEF Peers
            <3>. QED  BY <3>4, <3>5
        <2>7. ASSUME good = 0 PROVE PeerInv'
            <3>1. Peers(n) = {} /\ (isGood <=> Suits(a, Section))
                BY <1>1, <1>4, <1>9, <2>2, <2>7 DEF PeerInv, AgreesWithFirst
            <3>2. CASE ~isGood
                <4>1. good' = 0 /\ Peers(n + 1)' = {}
                    BY <2>1, <2>6, <2>7, <3>1, <3>2
                <4>. QED  BY <1>15, <4>1 DEF PeerInv
            <3>3. CASE isGood
                <4>1. /\ good' = 1 /\ Peers(n + 1)' = {n} /\ first' = TypeAs(by, a)
                      /\ Section' = Section
                    BY <1>1, <1>2, <1>7, <2>1, <2>2, <2>6, <2>7, <3>1, <3>3 DEF Section
                <4>2. Min({n}) = n
                    BY LeastOf
                <4>3. Peers(Place)' = {n}
                    BY <1>15, <4>1
                <4>. QED  BY <1>1, <4>1, <4>2, <4>3, <1>5 DEF PeerInv
            <3>. QED  BY <3>2, <3>3
        <2>8. ASSUME good # 0 PROVE PeerInv'
            <3>1. Peers(n) # {} /\ first = TypeAs(by, actuals[Min(Peers(n))])
                BY <1>1, <1>4, <2>8 DEF PeerInv
            <3>2. good' # 0 /\ first' = first /\ Section' = Section
                BY <1>1, <1>2, <1>7, <2>1, <2>8 DEF Section
            <3>. DEFINE S == Peers(n)
                        T == S \cup (IF Suits(a, Section) THEN {n} ELSE {})
            <3>3. S # {} /\ S \subseteq 1..(n - 1) /\ S \subseteq Nat /\ T \subseteq Nat /\ S \subseteq T
                BY <1>8, <3>1
            <3>4. \A y \in T : y \in S \/ y = n
                OBVIOUS
            <3>. HIDE DEF S, T
            <3>5. Min(S) \in S /\ \A y \in S : Min(S) <= y
                BY <3>3, LeastOf
            <3>6. \A y \in T : Min(S) <= y
                <4>1. Min(S) \in 1..(n - 1)
                    BY <3>3, <3>5
                <4>2. Min(S) <= n
                    BY <4>1
                <4>. QED  BY <3>4, <3>5, <4>2
            <3>7. Min(T) = Min(S)
                BY <3>3, <3>5, <3>6, LeastOf
            <3>8. Peers(Place)' = T /\ T # {}
                BY <1>15, <2>6, <3>3 DEF S, T
            <3>9. actuals'[Min(S)] = actuals[Min(S)]
                BY <1>8, <3>3 DEF S
            <3>10. first' = TypeAs(by, actuals'[Min(T)])
                BY <3>1, <3>2, <3>7, <3>9 DEF S
            <3>. QED  BY <1>1, <3>2, <3>8, <3>10 DEF PeerInv
        <2>9. PeerInv'
            BY <2>7, <2>8
        <2>. QED  BY <1>1, <1>3, <1>13, <1>14, <2>5, <2>9 DEF ExactInv
    <1>. QED  BY <1>16, <1>17
(* At the end of the call it is known whether there are as many actual     *)
(* parameters as formal ones.                                              *)
LEMMA StoppingIsExact ==
    ASSUME TypeInv, ExactInv, status = "declared", MissingParameter \/ FinishCall
    PROVE  ExactInv'
    <1>1. /\ InOrder /\ IsDeclared
          /\ Len(actuals) \in Nat /\ actuals \in Seq(AnyActual) /\ count \in Nat /\ Len(actuals) <= count
          /\ section \in 1..(Len(Parameters) + 1) /\ Len(Parameters) \in Nat
          /\ RightInv /\ errors \subseteq 1..Len(actuals)
          /\ PlaceOf(<<section, taken + 1>>) = Len(actuals) + 1
          /\ taken \in Nat
        BY SectionsOfParameters DEF TypeInv, CallInv, SectionInv, ExactInv, InOrder, PlaceInv, Place
    <1>2. /\ callee' = callee /\ wanted' = wanted /\ count' = count /\ actuals' = actuals
          /\ status' = "done"
        BY DEF MissingParameter, FinishCall, Stop
    <1>3. Formals' = Formals
        <2>1. \A x : Formals' = Formals
            BY <1>2, SectionsAreFixed
        <2>. QED  BY <2>1
    <1>4. ASSUME NEW i \in 1..Len(actuals) PROVE IsRight(i)' <=> IsRight(i)
        <2>1. PartOf(actuals, actuals')
            BY <1>1, <1>2 DEF PartOf
        <2>. QED  BY <1>1, <1>2, <2>1, RightIsFixed
    <1>5. ASSUME NEW STATE places, errors' = errors \cup places,
                 \A i \in 1..Len(actuals) : i \notin places
          PROVE  RightInv'
        <2>1. ASSUME NEW i \in 1..Len(actuals) PROVE i \in errors' <=> ~IsRight(i)'
            BY <1>1, <1>4, <1>5 DEF RightInv
        <2>. QED  BY <1>2, <2>1 DEF RightInv
    <1>6. ASSUME MissingParameter PROVE RightInv' /\ Verdict'
        <2>1. errors' = errors \cup {AtEnd} /\ AtEnd \notin 1..Len(actuals)
            BY <1>1, <1>6 DEF MissingParameter, Stop, AtEnd
        <2>2. RightInv'
            BY <1>5, <2>1
        <2>3. Cardinality(Formals) # count
            <3>. DEFINE c == Parameters[section].count
                        m == Cardinality(Formals)
            <3>1. section \in 1..Len(Parameters) /\ taken = 0 /\ Remaining < c
                BY <1>1, <1>6 DEF MissingParameter, Section
            <3>2. c \in Nat /\ m \in Nat
                BY <1>1, <3>1, FormalsOfSections, FirstAndLastPlace
            <3>3. PlaceOf(<<section, 1>>) + c <= 1 + m
                BY <1>1, <3>1, PlacesOfSection
            <3>4. PlaceOf(<<section, 1>>) = Len(actuals) + 1
                <4>1. taken + 1 = 1
                    BY <3>1
                <4>. QED  BY <1>1, <4>1
            <3>. HIDE DEF c, m
            <3>5. count - Len(actuals) < c
                BY <3>1 DEF Remaining
            <3>6. m # count
                BY <1>1, <3>2, <3>3, <3>4, <3>5
            <3>. QED  BY <3>6 DEF m
        <2>4. ~IsLegalDeclared'
            BY <1>2, <1>3, <2>3 DEF IsLegalDeclared
        <2>. QED  BY <2>1, <2>2, <2>4 DEF Verdict
    <1>7. ASSUME FinishCall PROVE RightInv' /\ Verdict'
        <2>1. /\ errors' = errors \cup At(Place, Place <= count)
              /\ section = Len(Parameters) + 1
            BY <1>1, <1>7 DEF FinishCall, Stop, Extraneous
        <2>2. \A i \in 1..Len(actuals) : i \notin At(Place, Place <= count)
            BY <1>1 DEF At, Place
        <2>3. RightInv'
            BY <1>5, <2>1, <2>2
        <2>4. taken = 0
            BY <1>1, <2>1 DEF TypeInv, SectionInv
        <2>5. Cardinality(Formals) = Len(actuals)
            <3>1. taken + 1 = 1
                BY <2>4
            <3>2. PlaceOf(<<Len(Parameters) + 1, 1>>) = Len(actuals) + 1
                BY <1>1, <2>1, <3>1
            <3>3. /\ PlaceOf(<<Len(Parameters) + 1, 1>>) = 1 + Cardinality(Formals)
                  /\ Cardinality(Formals) \in Nat
                BY <1>1, FirstAndLastPlace
            <3>. QED  BY <1>1, <3>2, <3>3
        <2>6. IsLegalDeclared' <=> count = Len(actuals) /\ \A i \in 1..Len(actuals) : IsRight(i)
            <3>1. Cardinality(Formals)' = Len(actuals)
                BY <1>3, <2>5
            <3>2. IsLegalDeclared' <=>
                    count = Len(actuals) /\ \A i \in 1..Len(actuals) : IsRight(i)'
                BY <1>2, <3>1 DEF IsLegalDeclared
            <3>. QED  BY <1>4, <3>2
        <2>7. errors = {} <=> \A i \in 1..Len(actuals) : IsRight(i)
            BY <1>1 DEF RightInv
        <2>8. errors' = {} <=> errors = {} /\ count = Len(actuals)
            <3>1. At(Place, Place <= count) = {} <=> count = Len(actuals)
                BY <1>1 DEF At, Place
            <3>. QED  BY <2>1, <3>1
        <2>. QED  BY <2>3, <2>6, <2>7, <2>8 DEF Verdict
    <1>8. RightInv' /\ Verdict'
        BY <1>6, <1>7
    <1>. QED  BY <1>2, <1>8 DEF ExactInv

LEMMA DeclaredIsExact ==
    ASSUME TypeInv, ExactInv, CallDeclared
    PROVE  ExactInv'
    <1>1. status = "declared" /\ IsDeclared
        BY DEF CallDeclared, TypeInv, CallInv
    <1>2. CASE MissingParameter \/ FinishCall
        BY <1>1, <1>2, StoppingIsExact
    <1>3. ASSUME NEW a \in Written[callee],
                 VariableParameter(a) \/ ValueParameter(a) \/ SubroutineParameter(a)
          PROVE  ExactInv'
        <2>1. a \in AnyActual
            BY DEF AnyActual, TypeInv, CallInv
        <2>2. InOrder /\ section \in 1..Len(Parameters) /\ section <= Len(Parameters)
            <3>1. InOrder /\ section \in 1..(Len(Parameters) + 1) /\ Len(Parameters) \in Nat
                BY <1>1, SectionsOfParameters DEF TypeInv, CallInv, SectionInv, InOrder
            <3>2. section <= Len(Parameters)
                BY <1>3 DEF VariableParameter, ValueParameter, SubroutineParameter, TakeNext
            <3>. QED  BY <3>1, <3>2
        <2>3. Section = Parameters[section] /\ Section \in FormalSection
            BY <2>2, FormalsOfSections DEF Section
        <2>4. FirstSuits
            <3>1. SUFFICES ASSUME Section.by # "subroutine", IsSchema(Section.type), first # NoType
                           PROVE  /\ first \in Type
                                  /\ IsInstance(first, Section.type)
                                  /\ Section.by = "value" => ~IsSchema(first)
                BY DEF FirstSuits
            <3>. DEFINE n == Len(actuals) + 1
                        S == Peers(n)
                        m == Min(S)
            <3>2. Place = n /\ Len(actuals) \in Nat
                BY DEF Place, TypeInv, CallInv
            <3>3. first \in Type /\ good > 0
                BY <3>1 DEF TypeInv, SectionInv
            <3>4. S # {} /\ first = TypeAs(Section.by, actuals[m])
                BY <1>1, <2>2, <3>2, <3>3 DEF ExactInv, PeerInv
            <3>5. SectionAt(n) = section
                <4>1. taken + 1 \in 1..Section.count
                    BY <1>1, <2>2, <2>3, <3>1, <3>3, SectionParts DEF TypeInv, SectionInv
                <4>2. <<section, taken + 1>> \in Formals
                    BY <2>2, <2>3, <4>1, FormalsOfSections
                <4>3. PlaceOf(<<section, taken + 1>>) = n
                    BY <1>1, <3>2 DEF ExactInv, PlaceInv
                <4>4. SectionAt(PlaceOf(<<section, taken + 1>>)) = section
                    BY <2>2, <4>2, SectionOfPlace
                <4>. QED  BY <4>3, <4>4
            <3>6. m \in S
                <4>1. S \subseteq Nat
                    BY <3>2 DEF Peers
                <4>. HIDE DEF S
                <4>. QED  BY <3>4, <4>1, LeastOf
            <3>. HIDE DEF m
            <3>7. Suits(actuals[m], Section)
                BY <2>3, <3>5, <3>6 DEF Peers
            <3>8. CASE Section.by = "variable"
                BY <3>1, <3>3, <3>4, <3>7, <3>8 DEF Suits, TypeAs
            <3>9. CASE Section.by = "value"
                BY <3>1, <3>3, <3>4, <3>7, <3>9 DEF Suits, TypeAs
            <3>. QED  BY <2>3, <3>1, <3>8, <3>9, SectionParts
        <2>5. CASE VariableParameter(a)
            <3>1. TakeNext("variable", a, IsGoodVariable(a), ~IsGoodVariable(a), VariableType(a))
                BY <2>5 DEF VariableParameter, IsGoodVariable
            <3>2. Section.by = "variable"
                BY <3>1 DEF TakeNext
            <3>3. IsGoodVariable(a) <=> Suits(a, Section) /\ AgreesWithFirst(a)
                BY <2>1, <2>3, <2>4, <3>2, GoodVariables
            <3>4. VariableType(a) = TypeAs("variable", a)
                BY DEF TypeAs
            <3>. HIDE DEF IsGoodVariable, VariableType
            <3>. QED  BY <1>1, <3>1, <3>3, <3>4, TakeNextIsExact
        <2>6. CASE ValueParameter(a)
            <3>1. TakeNext("value", a, IsGoodValue(a), ~IsGoodValue(a) \/ HasNoValue(a), ValueType(a))
                BY <2>6 DEF ValueParameter, IsGoodValue
            <3>2. Section.by = "value"
                BY <3>1 DEF TakeNext
            <3>3. IsGoodValue(a) <=> Suits(a, Section) /\ AgreesWithFirst(a)
                BY <2>1, <2>3, <2>4, <3>2, GoodValues
            <3>4. ValueType(a) = TypeAs("value", a)
                BY DEF TypeAs
            <3>. QED  BY <1>1, <3>1, <3>3, <3>4, TakeNextIsExact
        <2>7. CASE SubroutineParameter(a)
            <3>1. TakeNext("subroutine", a, IsGoodSubroutine(a), ~IsGoodSubroutine(a), NoType)
                BY <2>7 DEF SubroutineParameter, IsGoodSubroutine
            <3>2. Section.by = "subroutine"
                BY <3>1 DEF TakeNext
            <3>3. IsGoodSubroutine(a) <=> Suits(a, Section)
                BY <2>1, <2>3, <3>2, GoodSubroutines
            <3>. QED  BY <1>1, <3>1, <3>3, TakeNextIsExact
        <2>. QED  BY <1>3, <2>5, <2>6, <2>7
    <1>. QED  BY <1>2, <1>3 DEF CallDeclared
LEMMA InitialIsExact ==
    ASSUME Init
    PROVE  ExactInv
    <1>1. /\ callee \in DOMAIN Names /\ wanted \in {"procedure", "function"}
          /\ actuals = <<>> /\ errors = {} /\ status = "lookup"
          /\ section = 1 /\ taken = 0 /\ good = 0
        BY DEF Init
    <1>2. Len(actuals) = 0 /\ Place = 1 /\ \A i \in 1..0 : FALSE
        BY <1>1 DEF Place
    <1>3. RightInv /\ errors \subseteq 1..Len(actuals)
        BY <1>1, <1>2 DEF RightInv
    <1>4. ASSUME IsDeclared PROVE PlaceInv /\ PeerInv
        <2>1. <<section, taken + 1>> = <<1, 1>>
            BY <1>1
        <2>2. PlaceInv
            BY <1>1, <1>2, <1>4, <2>1, FirstAndLastPlace DEF PlaceInv, InOrder
        <2>3. Peers(Place) = {}
            <3>1. Place - 1 = 0
                BY <1>2
            <3>. QED  BY <1>2, <3>1 DEF Peers
        <2>. QED  BY <1>1, <2>2, <2>3 DEF PeerInv
    <1>. QED  BY <1>1, <1>3, <1>4 DEF ExactInv

LEMMA NothingIsExact ==
    ASSUME ExactInv, TypeInv, UNCHANGED <<callee, wanted, count, actuals, errors>>, UNCHANGED sectionVars,
           status' = status \/ (status' = "declared" /\ status = "lookup")
    PROVE  ExactInv'
    <1>1. Parameters' = Parameters /\ Section' = Section /\ Formals' = Formals /\ Place' = Place
        BY DEF Parameters, Section, Formals, Place, sectionVars
    <1>2. ASSUME NEW x PROVE PlaceOf(x)' = PlaceOf(x) /\ SectionAt(x)' = SectionAt(x)
        BY SectionsAreFixed
    <1>3. PlaceOf(<<section, taken + 1>>)' = PlaceOf(<<section, taken + 1>>)
        BY <1>1 DEF PlaceOf, sectionVars
    <1>4. PlaceInv => PlaceInv'
        BY <1>1, <1>2, <1>3 DEF PlaceInv, sectionVars
    <1>5. /\ Len(actuals) \in Nat /\ actuals \in Seq(AnyActual)
          /\ PartOf(actuals, actuals') /\ Place = Len(actuals) + 1 /\ Place \in 1..(Len(actuals) + 1)
        BY DEF TypeInv, CallInv, PartOf, Place
    <1>6. ASSUME NEW i \in 1..(Len(actuals) + 1) PROVE Peers(i)' = Peers(i)
        BY <1>5, PeersAreFixed
    <1>7. PeerInv => PeerInv'
        <2>1. SectionAt(Place)' = SectionAt(Place)
            BY <1>1, <1>2 DEF SectionAt
        <2>2. Peers(Place)' = Peers(Place)
            BY <1>1, <1>2, <2>1 DEF Peers
        <2>. QED  BY <1>1, <2>2 DEF PeerInv, sectionVars
    <1>8. ASSUME NEW i \in 1..Len(actuals) PROVE IsRight(i)' <=> IsRight(i)
        BY <1>5, RightIsFixed
    <1>9. RightInv => RightInv'
        BY <1>8 DEF RightInv
    <1>10. ASSUME IsDeclared, Verdict, status = "done" PROVE Verdict'
        <2>1. IsLegalDeclared => Len(actuals) = count
            BY DEF IsLegalDeclared
        <2>2. IsLegalDeclared' => Len(actuals) = count
            BY DEF IsLegalDeclared
        <2>3. Len(actuals) = count => (IsLegalDeclared' <=> IsLegalDeclared)
            BY <1>1, <1>8 DEF IsLegalDeclared
        <2>. QED  BY <1>10, <2>1, <2>2, <2>3 DEF Verdict
    <1>11. IsDeclared' <=> IsDeclared
        BY DEF IsDeclared
    <1>. QED  BY <1>4, <1>7, <1>9, <1>10, <1>11 DEF ExactInv

(* The names do not change while a call is resolved.                       *)
LEMMA CallsAreFixed ==
    ASSUME CallRequired
    PROVE  UNCHANGED <<callee, wanted, count, files>>
    <1>1. CASE MissingFirst \/ UseDefaultFile \/ FinishReading \/ FinishWriting
        BY <1>1 DEF MissingFirst, UseDefaultFile, FinishReading, FinishWriting, Stop, fileVars
    <1>2. ASSUME NEW a \in Written[callee], Required(a)
          PROVE  UNCHANGED <<callee, wanted, count, files>>
        <2>1. ASSUME NEW STATE places, NEW STATE result, Answer(a, places, result)
              PROVE  UNCHANGED <<callee, wanted, count, files>>
            BY <2>1 DEF Answer, Stop, fileVars
        <2>2. ASSUME NEW STATE places, GoOn(a, places)
              PROVE  UNCHANGED <<callee, wanted, count>>
            BY <2>2 DEF GoOn
        <2>3. ASSUME NEW line, TakeFile(a, line)
              PROVE  UNCHANGED <<callee, wanted, count, files>>
            BY <2>1, <2>2, <2>3 DEF TakeFile
        <2>4. CASE OneValue(a) \/ OneFile(a) \/ Transfer(a)
            BY <2>1, <2>2, <2>4 DEF OneValue, OneFile, Transfer, fileVars
        <2>5. CASE FirstToRead(a) \/ NextToRead(a)
            BY <2>1, <2>2, <2>3, <2>5 DEF FirstToRead, NextToRead, KeepIf
        <2>6. CASE FirstToWrite(a) \/ NextToWrite(a)
            BY <2>1, <2>2, <2>3, <2>6 DEF FirstToWrite, NextToWrite, WriteText
        <2>. QED  BY <1>2, <2>4, <2>5, <2>6 DEF Required
    <1>. QED  BY <1>1, <1>2 DEF CallRequired

LEMMA ErrorsAreKeptExact == Spec => []ExactInv
    <1>1. ASSUME TypeInv, ExactInv, [Next]_vars
          PROVE  ExactInv'
        <2>1. CASE LookUp
            <3>1. CASE IsDeclared
                <4>1. /\ status = "lookup" /\ status' = "declared"
                      /\ UNCHANGED <<callee, wanted, count, errors, actuals>> /\ UNCHANGED sectionVars
                    <5>1. Found = "declared" /\ Found # "nothing"
                        BY <1>1, <3>1 DEF Found, RequiredKind, IsDeclared, TypeInv, CallInv
                    <5>. QED  BY <2>1, <5>1 DEF LookUp
                <4>. QED  BY <1>1, <4>1, NothingIsExact
            <3>2. CASE ~IsDeclared
                <4>1. callee' = callee /\ wanted' = wanted
                    BY <2>1 DEF LookUp, Stop
                <4>. QED  BY <3>2, <4>1 DEF ExactInv, IsDeclared
            <3>. QED  BY <3>1, <3>2
        <2>2. CASE CallDeclared
            BY <1>1, <2>2, DeclaredIsExact
        <2>3. CASE CallRequired
            <3>1. ~IsDeclared
                BY <1>1, <2>3 DEF CallRequired, TypeInv, CallInv
            <3>2. callee' = callee /\ wanted' = wanted
                BY <2>3, CallsAreFixed
            <3>. QED  BY <3>1, <3>2 DEF ExactInv, IsDeclared
        <2>4. CASE UNCHANGED vars
            <3>1. /\ UNCHANGED <<callee, wanted, count, actuals, errors>> /\ UNCHANGED sectionVars
                  /\ status' = status
                BY <2>4 DEF vars, callVars
            <3>. QED  BY <1>1, <3>1, NothingIsExact
        <2>. QED  BY <1>1, <2>1, <2>2, <2>3, <2>4 DEF Next, Done
    <1>. QED  BY <1>1, InitialIsExact, TypesAreKept, PTL DEF Spec

(* For all types, names and signatures: resolveActualParameters() reports  *)
(* an error at exactly those actual parameters that do not suit the formal *)
(* parameter at the same place, or disagree with the first one of the same *)
(* section that suits a schema; whatever was wrong before.                 *)
THEOREM CallErrorsAreExact == Spec => []ErrorsAreExact
    <1>1. ExactInv => ErrorsAreExact
        BY DEF ExactInv, ErrorsAreExact, RightInv, IsDeclared
    <1>. QED  BY <1>1, ErrorsAreKeptExact, PTL
-----------------------------------------------------------------------------
(* The types that required procedures and functions ask for are told by    *)
(* their values.                                                           *)

LEMMA StringKinds ==
    ASSUME NEW t \in Type
    PROVE  /\ IsString(t) <=> KindOf(t).family = "string"
           /\ Form(t) \in {"text", "file"} =>
                ~IsString(t) /\ KindOf(t).family = "structure" /\ t \notin TypeOrdinalDynamic
    <1>. USE ValueParts DEF OrdinalValue, RealValue, StringValue, SetValue, EmptySetValue, PointerValue, Structure
    <1>. USE DEF OrdinalCase, RealCase, StringCase, SetCase, IncompleteCase, EmptySetCase, PointerCase,
                 StructureCase
    <1>1. IsString(t) <=> KindOf(t).family = "string"
        BY KindCases, FormsDiffer
    <1>2. Form(t) \in {"text", "file"} => ~IsString(t) /\ t \notin TypeOrdinalDynamic
        BY OrdinalForms, FormsDiffer
    <1>3. Form(t) \in {"text", "file"} => KindOf(t).family = "structure"
        BY <1>2, KindCases
    <1>. QED  BY <1>1, <1>2, <1>3

LEMMA CharKinds ==
    ASSUME NEW t \in Type
    PROVE  /\ TypeChar \in TypeOrdinalDynamic /\ KindOf(TypeChar) = OrdinalValue(TypeChar)
           /\ IsWhole(t) => (t = TypeChar <=> KindOf(t) = OrdinalValue(TypeChar))
           /\ KindOf(t).family = "ordinal" <=> t \in TypeOrdinalDynamic
    <1>1. /\ TypeChar \in Type /\ TypeChar \in TypeOrdinal /\ TypeChar \in TypeOrdinalDynamic
          /\ IsWhole(TypeChar)
        BY BuiltinTypes DEF TypeOrdinalDynamic, IsWhole, TypesAssumption, TypeChar
    <1>2. KindOf(TypeChar) = OrdinalValue(TypeChar)
        BY <1>1, ValueKindsOfTypes
    <1>3. KindOf(t).family = "ordinal" <=> t \in TypeOrdinalDynamic
        BY KindCases, ValueParts, FormsDiffer
           DEF OrdinalValue, RealValue, StringValue, SetValue, EmptySetValue, PointerValue, Structure,
               OrdinalCase, RealCase, StringCase, SetCase, IncompleteCase, EmptySetCase, PointerCase, StructureCase
    <1>4. ASSUME IsWhole(t), KindOf(t) = OrdinalValue(TypeChar) PROVE t = TypeChar
        <2>1. KindOf(t).family = "ordinal" /\ KindOf(t).of = TypeChar
            BY <1>4, ValueParts DEF OrdinalValue
        <2>2. t \in TypeOrdinal /\ KindOf(t) = OrdinalValue(t)
            BY <1>4, <2>1, ValueKindsOfTypes
        <2>. QED  BY <2>1, <2>2, ValueParts DEF OrdinalValue
    <1>. QED  BY <1>1, <1>2, <1>3, <1>4

IsReadableKind(k) == IsNumber(k) \/ k = OrdinalValue(TypeChar) \/ k.family = "string"
IsWritableKind(k) ==
    IsNumber(k) \/ k = OrdinalValue(TypeChar) \/ k = BooleanValue \/ k.family = "string"

(* checkReadParameterValidity()                                            *)
LEMMA ReadableKinds ==
    ASSUME NEW t \in Type
    PROVE  CanBeRead(t) <=> IsReadableKind(KindOf(t))
    <1>1. /\ TypeChar \in Type /\ TypeInteger \in Type /\ TypeReal \in Type
          /\ TypeInteger \in TypeOrdinalDynamic /\ TypeChar \in TypeOrdinalDynamic
          /\ IsWhole(TypeInteger)
        BY BuiltinTypes, CharKinds, IntegerIsOrdinal, BuiltinForms DEF IsWhole
    <1>2. /\ KindOf(TypeChar) = OrdinalValue(TypeChar) /\ KindOf(TypeInteger) = IntegerValue
          /\ RealValue.family # "ordinal" /\ IntegerValue.family = "ordinal"
          /\ OrdinalValue(TypeChar).family = "ordinal"
        BY <1>1, CharKinds, ValueKindsOfTypes, ValueParts DEF RealValue, IntegerValue, OrdinalValue
    <1>3. t = TypeReal <=> KindOf(t) = RealValue
        <2>1. CASE IsWhole(t)
            BY <2>1, ValueKindsOfTypes
        <2>2. CASE ~IsWhole(t)
            <3>1. t \in TypeOrdinalDynamic
                BY <2>2, OrdinalForms DEF IsWhole
            <3>. QED  BY <1>2, <3>1, CharKinds, FormsDiffer
        <2>. QED  BY <2>1, <2>2
    <1>4. IsString(t) <=> KindOf(t).family = "string"
        BY StringKinds
    <1>5. ASSUME NEW u \in {TypeChar, TypeInteger}
          PROVE  Compatible(t, u) <=> KindOf(t) = KindOf(u)
        <2>1. u \in Type /\ u \in TypeOrdinalDynamic
            BY <1>1
        <2>2. ~IsString(u) /\ Form(u) \notin {"set", "set_incomplete"}
            BY <2>1, FormsDiffer
        <2>3. OrdinalsAreCompatible(t, u) <=> t \in TypeOrdinalDynamic /\ KindOf(t) = KindOf(u)
            BY <2>1, ValuesOfOrdinals
        <2>4. KindOf(u).family = "ordinal"
            BY <2>1, CharKinds
        <2>5. KindOf(t) = KindOf(u) => t \in TypeOrdinalDynamic
            BY <2>4, CharKinds
        <2>6. Compatible(t, u) <=> t = u \/ OrdinalsAreCompatible(t, u)
            BY <2>2 DEF Compatible
        <2>. QED  BY <2>3, <2>5, <2>6
    <1>6. /\ Compatible(t, TypeChar) <=> KindOf(t) = OrdinalValue(TypeChar)
          /\ Compatible(t, TypeInteger) <=> KindOf(t) = IntegerValue
        BY <1>2, <1>5
    <1>. HIDE DEF TypeChar, TypeInteger, TypeReal
    <1>. QED  BY <1>3, <1>4, <1>6 DEF CanBeRead, IsReadableKind, IsNumber

(* char is its own form.                                                  *)
LEMMA CharForm == Form(TypeChar) = "char"
    BY DEF TypesAssumption, TypeChar

(* What can be written, and what the required functions are functions of.  *)
LEMMA OperandKinds ==
    ASSUME NEW t \in Type, Form(t) # "bounds"
    PROVE  /\ CanBeWritten(t) <=> IsWritableKind(ValueOf(t))
           /\ t \in {TypeInteger, TypeReal} <=> IsNumber(ValueOf(t))
           /\ t = TypeInteger <=> ValueOf(t) = IntegerValue
           /\ t = TypeReal <=> ValueOf(t) = RealValue
           /\ t \in TypeOrdinal <=> ValueOf(t).family = "ordinal"
    <1>1. CASE IsWhole(t)
        <2>. DEFINE k == KindOf(t)
        <2>1. /\ k = BooleanValue <=> t = TypeBoolean
              /\ k = IntegerValue <=> t = TypeInteger
              /\ k = RealValue <=> t = TypeReal
              /\ k.family = "ordinal" <=> t \in TypeOrdinal
            BY <1>1, ValueKindsOfTypes
        <2>2. t = TypeChar <=> k = OrdinalValue(TypeChar)
            BY <1>1, CharKinds
        <2>3. IsString(t) <=> k.family = "string"
            BY StringKinds
        <2>4. ValueOf(t) = k
            BY <1>1, ValuesByRange
        <2>. HIDE DEF k, TypeChar, TypeInteger, TypeReal, TypeBoolean
        <2>. QED  BY <2>1, <2>2, <2>3, <2>4 DEF CanBeWritten, IsWritableKind, IsNumber
    <1>2. CASE ~IsWhole(t)
        <2>. DEFINE k == ValueOf(t)
        <2>1. k = NarrowValue(FullRange(t)) /\ t \in TypeOrdinalDynamic
            BY <1>2, ValuesByRange
        <2>2. k.family = "ordinal" /\ ~IsWritableKind(k) /\ k \notin {IntegerValue, RealValue}
            BY <2>1, NarrowValues DEF IsWritableKind, IsNumber
        <2>3. t \in TypeOrdinal
            BY <2>1 DEF TypeOrdinalDynamic, OfForm
        <2>4. t \notin {TypeInteger, TypeReal, TypeChar, TypeBoolean} /\ ~IsString(t)
            BY <1>2, BuiltinForms, CharForm DEF IsWhole, IsString
        <2>. HIDE DEF k, TypeChar, TypeInteger, TypeReal, TypeBoolean
        <2>. QED  BY <2>2, <2>3, <2>4 DEF CanBeWritten, IsNumber, k
    <1>. QED  BY <1>1, <1>2

-----------------------------------------------------------------------------
(* What the language allows of a required procedure or function, by group. *)

PlainValue(a) == ~IsFormatted(a) /\ ~HasNoValue(a)
PlainVariable(a) == ~IsFormatted(a) /\ IsVariableAccess(a)
PlainFile(a, forms) == PlainVariable(a) /\ Form(VariableType(a)) \in forms

(* A required function of one value.                                       *)
RightKind(t) ==
    CASE callee \in AbsLike -> IsNumber(ValueOf(t))
      [] callee \in ChrLike -> ValueOf(t) = IntegerValue
      [] callee \in RoundLike -> ValueOf(t) = RealValue
      [] OTHER -> ValueOf(t).family = "ordinal"

LegalValue == count = 1 /\ PlainValue(actuals[1]) /\ RightKind(ValueType(actuals[1]))

LEMMA LegalValues == callee \in OneValueFunctions => (IsLegalRequired <=> LegalValue)
    <1>. USE DEF LegalValue, IsLegalRequired, IsOneValue, IsPlainValue, PlainValue, KindAt, RightKind
    <1>. USE DEF AbsLike, ChrLike, RoundLike, PredLike, GetLike
    <1>1. CASE callee \in AbsLike
        BY <1>1
    <1>2. CASE callee \in ChrLike
        BY <1>2 DEF IsInteger
    <1>3. CASE callee \in RoundLike
        BY <1>3 DEF IsReal
    <1>4. CASE callee \in PredLike \cup {"ord"}
        BY <1>4 DEF IsOrdinal
    <1>. QED  BY <1>1, <1>2, <1>3, <1>4 DEF OneValueFunctions

(* A required procedure or function of a file.                             *)
FileForms == IF callee \in {"eoln", "page"} THEN {"text"} ELSE {"text", "file"}

LegalFile ==
    \/ count = 0 /\ callee \notin GetLike /\ HasDefaultFile
    \/ count = 0 /\ callee \in GetLike /\ "none" \in files
    \/ count = 1 /\ PlainFile(actuals[1], FileForms)

LEMMA LegalFiles ==
    callee \in FileFunctions \cup {"page"} \cup GetLike => (IsLegalRequired <=> LegalFile)
    <1>. USE DEF LegalFile, IsLegalRequired, IsOneFile, StartsWithFile, IsPlainVariable, PlainFile, PlainVariable, FormAt,
                 FileForms, HasDefaultFile, DefaultFile, AbsLike, ChrLike, RoundLike, PredLike, GetLike
    <1>1. CASE callee = "eof"
        BY <1>1
    <1>2. CASE callee = "eoln"
        BY <1>2
    <1>3. CASE callee = "page"
        BY <1>3
    <1>4. CASE callee = "get"
        BY <1>4
    <1>5. CASE callee = "put"
        BY <1>5
    <1>6. CASE callee = "reset"
        BY <1>6
    <1>7. CASE callee = "rewrite"
        BY <1>7
    <1>. QED  BY <1>1, <1>2, <1>3, <1>4, <1>5, <1>6, <1>7 DEF FileFunctions

(* pack and unpack.                                                        *)
PlainArray(a, isPacked) ==
    /\ PlainVariable(a)
    /\ Form(VariableType(a)) = "array"
    /\ Types[VariableType(a)].packed = isPacked
LegalTransfer(unpacked, index, packed) ==
    /\ count = 3
    /\ PlainArray(unpacked, FALSE)
    /\ PlainArray(packed, TRUE)
    /\ Types[VariableType(unpacked)].component = Types[VariableType(packed)].component
    /\ PlainValue(index)
    /\ MayBeGiven(ValueOf(ValueType(index)), Types[VariableType(unpacked)].index)

LEMMA LegalTransfers ==
    /\ callee = "pack" => (IsLegalRequired <=> LegalTransfer(actuals[1], actuals[2], actuals[3]))
    /\ callee = "unpack" => (IsLegalRequired <=> LegalTransfer(actuals[2], actuals[3], actuals[1]))
    <1>. USE DEF IsTransfer, IsArray, IsPlainVariable, IsPlainValue, FormAt, KindAt,
                 LegalTransfer, PlainArray, PlainVariable, PlainValue
    <1>. USE DEF IsLegalRequired, AbsLike, ChrLike, RoundLike, PredLike, GetLike
    <1>1. callee = "pack" => (IsLegalRequired <=> IsTransfer(1, 2, 3))
        BY DEF IsTransfer
    <1>2. callee = "unpack" => (IsLegalRequired <=> IsTransfer(2, 3, 1))
        BY DEF IsTransfer
    <1>3. \A u, i, p : IsTransfer(u, i, p) <=> LegalTransfer(actuals[u], actuals[i], actuals[p])
        OBVIOUS
    <1>. HIDE DEF IsTransfer, LegalTransfer, IsLegalRequired
    <1>. QED  BY <1>1, <1>2, <1>3

(* read, readln, write and writeln: of text, and of files of components.   *)
StartOfText == IF count > 0 /\ PlainFile(actuals[1], {"text"}) THEN 2 ELSE 1

ReadableText(a) == PlainVariable(a) /\ IsReadableKind(KindOf(VariableType(a)))
WritableText(a) ==
    /\ ~HasNoValue(a)
    /\ IsWritableKind(ValueOf(ValueType(a)))
    /\ a.format \in {"none", "width"} \/ (a.format = "fraction" /\ ValueOf(ValueType(a)) = RealValue)
TextElement(a) == IF callee \in {"read", "readln"} THEN ReadableText(a) ELSE WritableText(a)

FileElement(t, a) ==
    IF callee = "read" THEN PlainVariable(a) /\ MayBeGiven(ValueOf(t), VariableType(a))
    ELSE PlainValue(a) /\ MayBeGiven(ValueOf(ValueType(a)), t)

LegalText ==
    /\ StartOfText = 1 => HasDefaultFile
    /\ callee \in {"read", "write"} => StartOfText <= count
    /\ \A i \in StartOfText..count : TextElement(actuals[i])
LegalComponents ==
    /\ callee \in {"read", "write"}
    /\ count > 1
    /\ PlainFile(actuals[1], {"file"})
    /\ \A i \in 2..count : FileElement(Types[VariableType(actuals[1])].component, actuals[i])

LEMMA LegalInputAndOutput ==
    callee \in {"read", "readln", "write", "writeln"} /\ count \in Nat =>
        (IsLegalRequired <=> LegalText \/ LegalComponents)
    <1>. DEFINE begin == IF StartsWithFile({"text"}) THEN 2 ELSE 1
                Start == callee \in {"read", "write"} => begin <= count
                Reads == (begin = 1 => "input" \in files) /\ Start /\ \A i \in begin..count : IsReadable(i)
                Writes == (begin = 1 => "output" \in files) /\ Start /\ \A i \in begin..count : IsWritable(i)
                t == Types[VariableType(actuals[1])].component
                Takes == /\ StartsWithFile({"file"}) /\ count > 1
                         /\ \A i \in 2..count : IsReadableFrom(t, i)
                Gives == /\ StartsWithFile({"file"}) /\ count > 1
                         /\ \A i \in 2..count : IsWritableTo(t, i)
    <1>1. /\ begin = StartOfText
          /\ StartsWithFile({"file"}) <=> count > 0 /\ PlainFile(actuals[1], {"file"})
        BY DEF StartsWithFile, StartOfText, PlainFile, IsPlainVariable, PlainVariable, FormAt
    <1>2. ASSUME NEW i
          PROVE  /\ IsReadable(i) <=> ReadableText(actuals[i])
                 /\ IsWritable(i) <=> WritableText(actuals[i])
                 /\ IsReadableFrom(t, i) <=>
                        PlainVariable(actuals[i]) /\ MayBeGiven(ValueOf(t), VariableType(actuals[i]))
                 /\ IsWritableTo(t, i) <=>
                        PlainValue(actuals[i]) /\ MayBeGiven(ValueOf(ValueType(actuals[i])), t)
        BY DEF IsReadable, ReadableText, IsReadableKind, IsWritable, WritableText, IsWritableKind,
               IsReadableFrom, IsWritableTo, IsPlainVariable, IsPlainValue, PlainVariable, PlainValue, KindAt
    <1>3. /\ callee = "read" => (IsLegalRequired <=> Reads \/ Takes)
          /\ callee = "readln" => (IsLegalRequired <=> Reads)
          /\ callee = "write" => (IsLegalRequired <=> Writes \/ Gives)
          /\ callee = "writeln" => (IsLegalRequired <=> Writes)
        BY DEF IsLegalRequired, IsTextTransfer, IsFileTransfer, AbsLike, ChrLike, RoundLike, PredLike, GetLike
    <1>. HIDE DEF begin, t
    <1>4. count \in Nat => (count > 1 => count > 0)
        OBVIOUS
    <1>5. /\ callee \in {"read", "readln"} => (LegalText <=> Reads)
          /\ callee \in {"write", "writeln"} => (LegalText <=> Writes)
        BY <1>1, <1>2 DEF LegalText, TextElement, HasDefaultFile, DefaultFile
    <1>6. count \in Nat =>
            /\ callee = "read" => (LegalComponents <=> Takes)
            /\ callee = "write" => (LegalComponents <=> Gives)
            /\ callee \in {"readln", "writeln"} => ~LegalComponents
        BY <1>1, <1>2, <1>4 DEF LegalComponents, FileElement, t
    <1>. HIDE DEF Reads, Writes, Takes, Gives
    <1>. QED  BY <1>3, <1>5, <1>6

(* All groups; and what the resolution of a call may be in the middle of.  *)
Transfers == {"pack", "unpack"}
Transferring == {"read", "readln", "write", "writeln"}

LegalByGroup ==
    /\ callee \in OneValueFunctions => (IsLegalRequired <=> LegalValue)
    /\ callee \in FileFunctions \cup {"page"} \cup GetLike => (IsLegalRequired <=> LegalFile)
    /\ callee = "pack" => (IsLegalRequired <=> LegalTransfer(actuals[1], actuals[2], actuals[3]))
    /\ callee = "unpack" => (IsLegalRequired <=> LegalTransfer(actuals[2], actuals[3], actuals[1]))
    /\ callee \in Transferring /\ count \in Nat => (IsLegalRequired <=> LegalText \/ LegalComponents)

LEMMA LegalGroups == LegalByGroup
    BY LegalValues, LegalFiles, LegalTransfers, LegalInputAndOutput DEF LegalByGroup, Transferring

(* A call with one actual parameter more.                                  *)
LEMMA OneMore ==
    ASSUME CallInv, NEW a \in Written[callee], Read(a), UNCHANGED <<callee, count, files>>
    PROVE  /\ a \in AnyActual
           /\ Len(actuals) \in Nat
           /\ Len(actuals') = Len(actuals) + 1
           /\ actuals'[Len(actuals) + 1] = a
           /\ \A i \in 1..Len(actuals) : actuals'[i] = actuals[i]
           /\ \A i \in 1..Len(actuals) : actuals[i] \in AnyActual
    BY DEF CallInv, Read, AnyActual

RequiredVerdict ==
    errors = {} <=> /\ Names[callee].kind = RequiredKind
                    /\ Len(actuals) = count
                    /\ IsLegalRequired

(* Functions of one value.                                                 *)
LEMMA RightOperands ==
    ASSUME NEW t \in Type, Form(t) # "bounds"
    PROVE  IsRightOperand(t) <=> RightKind(t)
    <1>1. /\ t \in {TypeInteger, TypeReal} <=> IsNumber(ValueOf(t))
          /\ t = TypeInteger <=> ValueOf(t) = IntegerValue
          /\ t = TypeReal <=> ValueOf(t) = RealValue
          /\ t \in TypeOrdinal <=> ValueOf(t).family = "ordinal"
        BY OperandKinds
    <1>. HIDE DEF TypeChar, TypeInteger, TypeReal, TypeBoolean
    <1>. QED  BY <1>1 DEF IsRightOperand, RightKind

LEMMA OneValueIsExact ==
    ASSUME CallInv, NEW a \in Written[callee], OneValue(a),
           actuals = <<>>, errors = {}, Names[callee].kind = RequiredKind
    PROVE  RequiredVerdict'
    <1>. DEFINE t == ValueType(a)
                c == IsRightOperand(t) /\ PlainValue(a)
    <1>1. /\ callee \in OneValueFunctions /\ Read(a)
          /\ UNCHANGED <<callee, wanted, count, files>>
          /\ errors' = At(1, ~IsRightOperand(t) \/ HasNoValue(a) \/ IsFormatted(a)) \cup At(2, 2 <= count)
          /\ Remaining > 0
        BY DEF OneValue, Answer, Stop, Extraneous, fileVars
    <1>2. /\ a \in AnyActual /\ Len(actuals') = 1 /\ actuals'[1] = a
          /\ count \in Nat /\ count > 0
        BY <1>1, OneMore DEF CallInv, Remaining
    <1>3. errors' = {} <=> c /\ count = 1
        <2>1. errors' = {} <=> c /\ ~(2 <= count)
            BY <1>1 DEF At, PlainValue
        <2>. QED  BY <1>2, <2>1
    <1>4. LegalByGroup'
        BY LegalGroups, PTL
    <1>5. IsLegalRequired' <=> LegalValue'
        BY <1>1, <1>4 DEF LegalByGroup
    <1>6. LegalValue' <=> count = 1 /\ PlainValue(a) /\ RightKind(t)
        BY <1>1, <1>2 DEF LegalValue, PlainValue, RightKind
    <1>7. IsRightOperand(t) <=> RightKind(t)
        BY <1>2, TypesOfActuals, ValuesAreNoBounds, RightOperands
    <1>8. Names[callee].kind' = RequiredKind'
        BY <1>1 DEF RequiredKind
    <1>. HIDE DEF t
    <1>. QED  BY <1>1, <1>2, <1>3, <1>5, <1>6, <1>7, <1>8 DEF RequiredVerdict

(* Procedures and functions of a file.                                     *)
LEMMA OneFileIsExact ==
    ASSUME CallInv, NEW a \in Written[callee], OneFile(a),
           actuals = <<>>, errors = {}, Names[callee].kind = RequiredKind
    PROVE  RequiredVerdict'
    <1>. DEFINE c == IsVariableAccess(a) /\ IsRightFile(a)
    <1>1. /\ callee \in FileFunctions \cup {"page"} \cup GetLike /\ Read(a)
          /\ UNCHANGED <<callee, wanted, count, files>>
          /\ Remaining > 0
        BY DEF OneFile, Answer, Stop, fileVars
    <1>2. /\ a \in AnyActual /\ Len(actuals') = 1 /\ actuals'[1] = a
          /\ count \in Nat /\ count > 0
        BY <1>1, OneMore DEF CallInv, Remaining
    <1>3. errors' = {} <=> c /\ ~IsFormatted(a) /\ count = 1
        <2>1. CASE ~IsVariableAccess(a) \/ (~IsRightFile(a) /\ callee \notin FileFunctions)
            BY <2>1 DEF OneFile, Answer, Stop
        <2>2. CASE IsVariableAccess(a) /\ (IsRightFile(a) \/ callee \in FileFunctions)
            <3>1. errors' = At(1, ~IsRightFile(a) \/ IsFormatted(a)) \cup At(2, 2 <= count)
                BY <2>2 DEF OneFile, Answer, Stop, Extraneous
            <3>2. errors' = {} <=> IsRightFile(a) /\ ~IsFormatted(a) /\ ~(2 <= count)
                BY <3>1 DEF At
            <3>. QED  BY <1>2, <2>2, <3>2
        <2>. QED  BY <2>1, <2>2
    <1>4. LegalByGroup'
        BY LegalGroups, PTL
    <1>5. IsLegalRequired' <=> LegalFile'
        BY <1>1, <1>4 DEF LegalByGroup
    <1>6. LegalFile' <=> count = 1 /\ PlainFile(a, FileForms)
        BY <1>1, <1>2 DEF LegalFile, FileForms, PlainFile, PlainVariable
    <1>7. PlainFile(a, FileForms) <=> c /\ ~IsFormatted(a)
        <2>1. IsVariableAccess(a) => VariableType(a) \in Type
            BY <1>2, TypesOfActuals
        <2>. QED  BY <2>1 DEF PlainFile, PlainVariable, FileForms, IsRightFile, IsText, TypeFileLike, OfForm
    <1>8. Names[callee].kind' = RequiredKind'
        BY <1>1 DEF RequiredKind
    <1>. HIDE DEF c
    <1>. QED  BY <1>1, <1>2, <1>3, <1>5, <1>6, <1>7, <1>8 DEF RequiredVerdict

(* Calls without actual parameters.                                        *)
LEMMA NoneIsExact ==
    ASSUME CallInv, MissingFirst \/ UseDefaultFile,
           actuals = <<>>, errors = {}, Names[callee].kind = RequiredKind,
           callee \notin UsersOfDefaultFile => files = {}
    PROVE  RequiredVerdict'
    <1>1. /\ UNCHANGED <<callee, wanted, count, files, actuals>>
          /\ count = 0 /\ Len(actuals) = 0
        BY DEF MissingFirst, UseDefaultFile, Stop, fileVars
    <1>2. LegalByGroup'
        BY LegalGroups, PTL
    <1>3. Names[callee].kind' = RequiredKind' /\ Len(actuals') = count'
        BY <1>1 DEF RequiredKind
    <1>4. CASE MissingFirst
        <2>1. errors' # {}
            BY <1>4 DEF MissingFirst, Stop
        <2>2. CASE callee \in OneValueFunctions
            <3>1. ~LegalValue'
                BY <1>1 DEF LegalValue
            <3>. QED  BY <1>1, <1>2, <2>1, <2>2, <3>1 DEF LegalByGroup, RequiredVerdict
        <2>3. CASE callee \in GetLike
            <3>1. files = {}
                BY <2>3 DEF GetLike, UsersOfDefaultFile, FileFunctions
            <3>2. ~LegalFile'
                BY <1>1, <2>3, <3>1 DEF LegalFile
            <3>. QED  BY <1>1, <1>2, <2>1, <2>3, <3>2 DEF LegalByGroup, RequiredVerdict
        <2>4. CASE callee \in Transfers
            <3>1. \A x, y, z : ~LegalTransfer(x, y, z)'
                BY <1>1 DEF LegalTransfer
            <3>2. ~IsLegalRequired'
                BY <1>1, <1>2, <2>4, <3>1 DEF LegalByGroup, Transfers
            <3>. QED  BY <2>1, <3>2 DEF RequiredVerdict
        <2>5. CASE callee \in {"read", "write"}
            <3>1. ~LegalText' /\ ~LegalComponents'
                BY <1>1, <2>5 DEF LegalText, LegalComponents, StartOfText
            <3>. QED  BY <1>1, <1>2, <2>1, <2>5, <3>1 DEF LegalByGroup, RequiredVerdict, Transferring
        <2>. QED  BY <1>4, <2>2, <2>3, <2>4, <2>5
                  DEF MissingFirst, RequiredFunctions, RequiredProcedures, FileFunctions, Transfers
    <1>5. CASE UseDefaultFile
        <2>1. errors' = {} <=> HasDefaultFile
            BY <1>5 DEF UseDefaultFile, Stop, At
        <2>2. HasDefaultFile' = HasDefaultFile
            BY <1>1 DEF HasDefaultFile, DefaultFile
        <2>3. CASE callee \in FileFunctions \cup {"page"}
            <3>1. callee \notin GetLike
                BY <2>3 DEF GetLike, FileFunctions
            <3>2. LegalFile' <=> HasDefaultFile
                BY <1>1, <2>2, <3>1 DEF LegalFile
            <3>. QED  BY <1>1, <1>2, <1>3, <2>1, <2>3, <3>2 DEF LegalByGroup, RequiredVerdict
        <2>4. CASE callee \in {"readln", "writeln"}
            <3>1. StartOfText' = 1 /\ 1 .. count' = {}
                BY <1>1 DEF StartOfText
            <3>2. LegalText' <=> HasDefaultFile
                BY <1>1, <2>2, <2>4, <3>1 DEF LegalText
            <3>3. ~LegalComponents'
                BY <1>1 DEF LegalComponents
            <3>. QED  BY <1>1, <1>2, <1>3, <2>1, <2>4, <3>2, <3>3
                      DEF LegalByGroup, RequiredVerdict, Transferring
        <2>. QED  BY <1>5, <2>3, <2>4 DEF UseDefaultFile, FileFunctions
    <1>. QED  BY <1>4, <1>5

(* Variables are of no synthetic type.                                     *)
LEMMA TypesOfVariables ==
    ASSUME NEW a \in AnyActual, IsVariableAccess(a)
    PROVE  VariableType(a) \in Type /\ Form(VariableType(a)) \notin SyntheticForms
    <1>1. VariableType(a) \in Type
        BY TypesOfActuals
    <1>2. /\ a.form = "variable" => Form(a.of) \notin SyntheticForms
          /\ a.form = "component" => a.of \in OfForm("array")
          /\ a.form = "field" => a.of \in OfForm("record") /\ a.field \in DOMAIN Types[a.of].fields
        BY DEF AnyActual, ParameterAssumption
    <1>3. Form(VariableType(a)) \notin SyntheticForms
        BY <1>2, DenotersMakeTypes DEF IsVariableAccess, VariableType, DenotersAssumption
    <1>. QED  BY <1>1, <1>3

(* pack and unpack: an array of either kind, of the components of the      *)
(* other one; and a value for the index of the unpacked one.               *)
ArrayAs(a, isPacked) ==
    /\ IsVariableAccess(a)
    /\ Form(VariableType(a)) = "array"
    /\ Types[VariableType(a)].packed = isPacked
ComponentOf(a) == Types[VariableType(a)].component
IndexOf(a, array) == AssignmentCompatible(ValueType(a), Types[VariableType(array)].index)

(* What is asked of the actual parameter after those before.               *)
RoleFits(before, a) ==
    IF callee = "pack"
    THEN /\ Len(before) = 0 => ArrayAs(a, FALSE)
         /\ Len(before) = 1 => IndexOf(a, before[1])
         /\ Len(before) = 2 => ArrayAs(a, TRUE) /\ ComponentOf(before[1]) = ComponentOf(a)
    ELSE /\ Len(before) = 0 => ArrayAs(a, TRUE)
         /\ Len(before) = 1 => ArrayAs(a, FALSE) /\ ComponentOf(before[1]) = ComponentOf(a)
         /\ Len(before) = 2 => IndexOf(a, before[2])
IsClean(i, a) == ~IsFormatted(a) /\ (Roles[i] = "index" => ~HasNoValue(a))

TransferUnderway ==
    /\ Len(actuals) < 3
    /\ Len(actuals) > 0 => Remaining > 0
    /\ Len(actuals) > 0 => ArrayAs(actuals[1], callee = "unpack")
    /\ Len(actuals) > 1 => IF callee = "pack" THEN IndexOf(actuals[2], actuals[1])
                           ELSE ArrayAs(actuals[2], FALSE) /\ ComponentOf(actuals[1]) = ComponentOf(actuals[2])
    /\ errors = {} <=> \A i \in 1..Len(actuals) : IsClean(i, actuals[i])

LEMMA RolesArePlayed ==
    ASSUME CallInv, callee \in Transfers, TransferUnderway, NEW a \in AnyActual
    PROVE  PlaysItsRole(a) <=> RoleFits(actuals, a)
    <1>1. Len(actuals) \in {0, 1, 2} /\ Place = Len(actuals) + 1
        <2>. DEFINE n == Len(actuals)
        <2>1. n \in Nat
            BY DEF CallInv
        <2>2. n < 3
            BY DEF TransferUnderway
        <2>3. Place = n + 1
            BY DEF Place
        <2>. HIDE DEF n
        <2>4. n \in {0, 1, 2}
            BY <2>1, <2>2
        <2>. QED  BY <2>3, <2>4 DEF n
    <1>2. ASSUME NEW b \in AnyActual, NEW p \in BOOLEAN
          PROVE  /\ IsVariableAccess(b) /\ Form(VariableType(b)) = "array" => Types[VariableType(b)].packed \in BOOLEAN
                 /\ ArrayAs(b, p) <=> /\ IsVariableAccess(b)
                                      /\ Form(VariableType(b)) = "array"
                                      /\ Types[VariableType(b)].packed <=> p
        <2>1. IsVariableAccess(b) /\ Form(VariableType(b)) = "array" => VariableType(b) \in OfForm("array")
            BY TypesOfActuals DEF OfForm
        <2>2. IsVariableAccess(b) /\ Form(VariableType(b)) = "array" => Types[VariableType(b)].packed \in BOOLEAN
            BY <2>1 DEF TypesAssumption
        <2>. QED  BY <2>2 DEF ArrayAs
    <1>3. \A i \in 1..Len(actuals) : actuals[i] \in AnyActual
        BY DEF CallInv
    <1>4. CASE Len(actuals) = 0
        <2>1. Place = 1 /\ 1 .. Len(actuals) = {}
            BY <1>1, <1>4
        <2>2. Arrays = {}
            BY <2>1 DEF Arrays
        <2>3. Roles[1] = IF callee = "pack" THEN "unpacked" ELSE "packed"
            BY DEF Roles
        <2>. HIDE DEF Roles
        <2>4. /\ callee = "pack" => (RoleFits(actuals, a) <=> ArrayAs(a, FALSE))
              /\ callee # "pack" => (RoleFits(actuals, a) <=> ArrayAs(a, TRUE))
            <3>. DEFINE n == Len(actuals)
            <3>1. n = 0 /\ ~(n = 1) /\ ~(n = 2)
                BY <1>4
            <3>. HIDE DEF n
            <3>. QED  BY <3>1 DEF RoleFits, n
        <2>5. PlaysItsRole(a) <=>
                /\ IsVariableAccess(a)
                /\ Form(VariableType(a)) = "array"
                /\ Types[VariableType(a)].packed <=> (callee # "pack")
            BY <2>1, <2>2, <2>3 DEF PlaysItsRole
        <2>. QED  BY <1>2, <2>4, <2>5
    <1>5. CASE Len(actuals) = 1
        <2>1. Place = 2 /\ 1 .. Len(actuals) = {1}
            BY <1>1, <1>5
        <2>2. /\ Roles[1] # "index"
              /\ Roles[2] = IF callee = "pack" THEN "index" ELSE "unpacked"
            BY DEF Roles
        <2>. HIDE DEF Roles
        <2>3. Arrays = {VariableType(actuals[1])}
            BY <2>1, <2>2 DEF Arrays
        <2>4. actuals[1] \in AnyActual
            BY <1>3, <2>1
        <2>5. ArrayAs(actuals[1], callee = "unpack")
            BY <1>5 DEF TransferUnderway
        <2>6. CASE callee = "pack"
            <3>1. ~Types[VariableType(actuals[1])].packed
                BY <1>2, <2>4, <2>5, <2>6
            <3>. QED  BY <1>5, <2>1, <2>2, <2>3, <2>6, <3>1 DEF PlaysItsRole, RoleFits, IndexOf
        <2>7. CASE callee # "pack"
            <3>1. RoleFits(actuals, a) <=> ArrayAs(a, FALSE) /\ ComponentOf(actuals[1]) = ComponentOf(a)
                BY <1>5, <2>7 DEF RoleFits
            <3>2. PlaysItsRole(a) <=>
                    /\ IsVariableAccess(a)
                    /\ Form(VariableType(a)) = "array"
                    /\ Types[VariableType(a)].packed <=> FALSE
                    /\ ComponentOf(actuals[1]) = ComponentOf(a)
                BY <2>1, <2>2, <2>3, <2>7 DEF PlaysItsRole, ComponentOf
            <3>. QED  BY <1>2, <3>1, <3>2
        <2>. QED  BY <2>6, <2>7
    <1>6. CASE Len(actuals) = 2
        <2>1. Place = 3 /\ 1 .. Len(actuals) = {1, 2}
            BY <1>1, <1>6
        <2>2. /\ Roles[1] # "index"
              /\ Roles[2] = IF callee = "pack" THEN "index" ELSE "unpacked"
              /\ Roles[3] = IF callee = "pack" THEN "packed" ELSE "index"
            BY DEF Roles
        <2>. HIDE DEF Roles
        <2>3. actuals[1] \in AnyActual /\ actuals[2] \in AnyActual
            BY <1>3, <2>1
        <2>4. ArrayAs(actuals[1], callee = "unpack")
            BY <1>6 DEF TransferUnderway
        <2>5. CASE callee = "pack"
            <3>1. Arrays = {VariableType(actuals[1])}
                BY <2>1, <2>2, <2>5 DEF Arrays
            <3>2. RoleFits(actuals, a) <=> ArrayAs(a, TRUE) /\ ComponentOf(actuals[1]) = ComponentOf(a)
                BY <1>6, <2>5 DEF RoleFits
            <3>3. PlaysItsRole(a) <=>
                    /\ IsVariableAccess(a)
                    /\ Form(VariableType(a)) = "array"
                    /\ Types[VariableType(a)].packed <=> TRUE
                    /\ ComponentOf(actuals[1]) = ComponentOf(a)
                BY <2>1, <2>2, <2>5, <3>1 DEF PlaysItsRole, ComponentOf
            <3>. QED  BY <1>2, <3>2, <3>3
        <2>6. CASE callee # "pack"
            <3>1. Arrays = {VariableType(actuals[1]), VariableType(actuals[2])}
                BY <2>1, <2>2, <2>6 DEF Arrays
            <3>2. RoleFits(actuals, a) <=> IndexOf(a, actuals[2])
                BY <1>6, <2>6 DEF RoleFits
            <3>3. callee = "unpack" /\ ArrayAs(actuals[2], FALSE)
                <4>1. callee = "unpack"
                    BY <2>6 DEF Transfers
                <4>2. Len(actuals) > 1
                    BY <1>6
                <4>3. ArrayAs(actuals[2], FALSE)
                    BY <2>6, <4>2 DEF TransferUnderway
                <4>. QED  BY <4>1, <4>3
            <3>4. Types[VariableType(actuals[1])].packed /\ ~Types[VariableType(actuals[2])].packed
                BY <1>2, <2>3, <2>4, <3>3
            <3>. QED  BY <2>1, <2>2, <2>6, <3>1, <3>2, <3>4 DEF PlaysItsRole, IndexOf
        <2>. QED  BY <2>5, <2>6
    <1>. QED  BY <1>1, <1>4, <1>5, <1>6

LEMMA IndexKinds ==
    ASSUME NEW a \in AnyActual, NEW b \in AnyActual, IsVariableAccess(b), Form(VariableType(b)) = "array"
    PROVE  IndexOf(a, b) <=> MayBeGiven(ValueOf(ValueType(a)), Types[VariableType(b)].index)
    <1>. DEFINE t == Types[VariableType(b)].index
    <1>1. VariableType(b) \in OfForm("array")
        BY TypesOfActuals DEF OfForm
    <1>2. t \in TypeOrdinalDynamic
        BY <1>1 DEF TypesAssumption
    <1>3. t \in Type /\ Form(t) \notin SyntheticForms
        BY <1>2 DEF TypeOrdinalDynamic, TypeOrdinal, SimpleForms, OfForm, SyntheticForms
    <1>4. ValueType(a) \in Type
        BY TypesOfActuals
    <1>. HIDE DEF t
    <1>5. AssignmentCompatible(ValueType(a), t) <=> MayBeGiven(ValueOf(ValueType(a)), t)
        BY <1>3, <1>4, GivenKinds
    <1>. QED  BY <1>5 DEF IndexOf, t

(* Three parameters that fit are what the language allows, if they have no *)
(* format and the index has a value.                                       *)
LEMMA LegalRoles ==
    ASSUME CallInv, callee \in Transfers, TransferUnderway, Len(actuals) = 2, NEW a \in AnyActual
    PROVE  LET x == actuals[1]
               y == actuals[2]
               right == /\ count = 3
                        /\ RoleFits(actuals, a)
                        /\ IsClean(1, x) /\ IsClean(2, y) /\ IsClean(3, a)
           IN  /\ callee = "pack" => (LegalTransfer(x, y, a) <=> right)
               /\ callee = "unpack" => (LegalTransfer(y, a, x) <=> right)
    <1>. DEFINE x == actuals[1]
                y == actuals[2]
    <1>1. x \in AnyActual /\ y \in AnyActual /\ Len(actuals) > 1 /\ Len(actuals) > 0
        BY DEF CallInv
    <1>2. ArrayAs(x, callee = "unpack")
        BY <1>1 DEF TransferUnderway
    <1>3. /\ callee = "pack" => IndexOf(y, x)
          /\ callee = "unpack" => ArrayAs(y, FALSE) /\ ComponentOf(x) = ComponentOf(y)
        BY <1>1 DEF TransferUnderway
    <1>4. /\ callee = "pack" => (RoleFits(actuals, a) <=> ArrayAs(a, TRUE) /\ ComponentOf(x) = ComponentOf(a))
          /\ callee = "unpack" => (RoleFits(actuals, a) <=> IndexOf(a, y))
        <2>. DEFINE n == Len(actuals)
        <2>1. n = 2 /\ ~(n = 0) /\ ~(n = 1)
            OBVIOUS
        <2>. HIDE DEF n
        <2>. QED  BY <2>1 DEF RoleFits, n
    <1>5. CASE callee = "pack"
        <2>1. /\ IsClean(1, x) <=> ~IsFormatted(x)
              /\ IsClean(2, y) <=> PlainValue(y)
              /\ IsClean(3, a) <=> ~IsFormatted(a)
            BY <1>5 DEF IsClean, Roles, PlainValue
        <2>2. /\ PlainArray(x, FALSE) <=> ~IsFormatted(x)
              /\ PlainArray(a, TRUE) <=> ArrayAs(a, TRUE) /\ ~IsFormatted(a)
            BY <1>2, <1>5 DEF PlainArray, ArrayAs, PlainVariable
        <2>3. MayBeGiven(ValueOf(ValueType(y)), Types[VariableType(x)].index)
            BY <1>1, <1>2, <1>3, <1>5, IndexKinds DEF ArrayAs
        <2>. HIDE DEF x, y
        <2>4. LegalTransfer(x, y, a) <=>
                /\ count = 3
                /\ PlainArray(x, FALSE) /\ PlainArray(a, TRUE)
                /\ ComponentOf(x) = ComponentOf(a)
                /\ PlainValue(y)
            BY <2>3 DEF LegalTransfer, ComponentOf
        <2>. QED  BY <1>4, <1>5, <2>1, <2>2, <2>4 DEF x, y
    <1>6. CASE callee = "unpack"
        <2>1. /\ IsClean(1, x) <=> ~IsFormatted(x)
              /\ IsClean(2, y) <=> ~IsFormatted(y)
              /\ IsClean(3, a) <=> PlainValue(a)
            BY <1>6 DEF IsClean, Roles, PlainValue
        <2>2. /\ PlainArray(y, FALSE) <=> ~IsFormatted(y)
              /\ PlainArray(x, TRUE) <=> ~IsFormatted(x)
            BY <1>2, <1>3, <1>6 DEF PlainArray, ArrayAs, PlainVariable
        <2>3. IndexOf(a, y) <=> MayBeGiven(ValueOf(ValueType(a)), Types[VariableType(y)].index)
            BY <1>1, <1>3, <1>6, IndexKinds DEF ArrayAs
        <2>. HIDE DEF x, y
        <2>4. LegalTransfer(y, a, x) <=>
                /\ count = 3
                /\ PlainArray(y, FALSE) /\ PlainArray(x, TRUE)
                /\ PlainValue(a)
                /\ IndexOf(a, y)
            BY <1>3, <1>6, <2>3 DEF LegalTransfer, ComponentOf
        <2>. QED  BY <1>4, <1>6, <2>1, <2>2, <2>4 DEF x, y
    <1>. QED  BY <1>5, <1>6 DEF Transfers

LEMMA TransferIsExact ==
    ASSUME CallInv, NEW a \in Written[callee], Transfer(a), TransferUnderway,
           status = "required", Names[callee].kind = RequiredKind
    PROVE  /\ status' = "done" => RequiredVerdict'
           /\ status' = "required" => TransferUnderway'
    <1>. DEFINE n == Len(actuals)
                wrong == At(Place, ~IsClean(Place, a))
                IsRightLast == count = 3 /\ RoleFits(actuals, a) /\ IsClean(3, a) /\ errors = {}
    <1>1. /\ callee \in Transfers /\ Read(a)
          /\ UNCHANGED <<callee, wanted, count, files>>
          /\ Remaining > 0
        BY DEF Transfer, Answer, GoOn, Stop, fileVars, Transfers
    <1>2. /\ a \in AnyActual /\ Len(actuals') = n + 1 /\ actuals'[n + 1] = a
          /\ \A i \in 1..n : actuals'[i] = actuals[i]
          /\ count \in Nat /\ n \in Nat /\ n < 3 /\ n < count
          /\ Place = n + 1
        <2>1. /\ a \in AnyActual /\ Len(actuals') = n + 1 /\ actuals'[n + 1] = a /\ n \in Nat
              /\ \A i \in 1..n : actuals'[i] = actuals[i]
            BY <1>1, OneMore
        <2>2. count \in Nat /\ n < 3 /\ Place = n + 1 /\ count - n > 0
            BY <1>1 DEF CallInv, TransferUnderway, Place, Remaining
        <2>. HIDE DEF n
        <2>. QED  BY <2>1, <2>2
    <1>3. PlaysItsRole(a) <=> RoleFits(actuals, a)
        BY <1>1, <1>2, RolesArePlayed
    <1>4. At(Place, IsFormatted(a) \/ (Roles[Place] = "index" /\ HasNoValue(a))) = wrong
        BY DEF IsClean, At
    <1>5. LegalByGroup'
        BY LegalGroups, PTL
    <1>6. IsLegalRequired' => count = 3
        <2>1. \A x, y, z : LegalTransfer(x, y, z)' => count = 3
            BY <1>1 DEF LegalTransfer
        <2>. QED  BY <1>1, <1>5, <2>1 DEF LegalByGroup, Transfers
    <1>7. Names[callee].kind' = RequiredKind'
        BY <1>1 DEF RequiredKind
    <1>8. n = 2 => (IsLegalRequired' <=> IsRightLast)
        <2>1. SUFFICES ASSUME n = 2 PROVE IsLegalRequired' <=> IsRightLast
            OBVIOUS
        <2>2. actuals'[1] = actuals[1] /\ actuals'[2] = actuals[2] /\ actuals'[3] = a
            BY <1>2, <2>1
        <2>3. errors = {} <=> IsClean(1, actuals[1]) /\ IsClean(2, actuals[2])
            <3>1. \A i : i \in 1..n <=> i = 1 \/ i = 2
                BY <2>1
            <3>. QED  BY <3>1 DEF TransferUnderway
        <2>4. /\ callee = "pack" => (LegalTransfer(actuals[1], actuals[2], a) <=> IsRightLast)
              /\ callee = "unpack" => (LegalTransfer(actuals[2], a, actuals[1]) <=> IsRightLast)
            BY <1>1, <1>2, <2>1, <2>3, LegalRoles
        <2>. HIDE DEF IsRightLast
        <2>5. /\ callee = "pack" => (IsLegalRequired' <=> LegalTransfer(actuals[1], actuals[2], a))
              /\ callee = "unpack" => (IsLegalRequired' <=> LegalTransfer(actuals[2], a, actuals[1]))
            BY <1>1, <1>5, <2>2 DEF LegalByGroup, LegalTransfer
        <2>. QED  BY <1>1, <2>4, <2>5 DEF Transfers
    <1>9. CASE ~PlaysItsRole(a)
        <2>1. status' = "done" /\ errors' # {}
            BY <1>9 DEF Transfer, Answer, Stop
        <2>2. Len(actuals') = count' => ~IsLegalRequired'
            <3>1. ~IsRightLast
                BY <1>3, <1>9
            <3>. HIDE DEF n, IsRightLast
            <3>2. count = 3 => n = 2 \/ n + 1 # count
                BY <1>2
            <3>. QED  BY <1>1, <1>2, <1>6, <1>8, <3>1, <3>2
        <2>. QED  BY <2>1, <2>2 DEF RequiredVerdict
    <1>10. CASE PlaysItsRole(a) /\ Place = 3
        <2>1. status' = "done" /\ errors' = errors \cup wrong \cup At(4, 4 <= count)
            <3>. HIDE DEF wrong
            <3>. QED  BY <1>1, <1>4, <1>10 DEF Transfer, Answer, Stop, Extraneous
        <2>2. errors' = {} <=> errors = {} /\ IsClean(3, a) /\ ~(4 <= count)
            BY <1>10, <2>1 DEF At
        <2>3. n = 2 /\ count >= 3
            <3>. HIDE DEF n
            <3>. QED  BY <1>2, <1>10
        <2>4. ~(4 <= count) <=> count = 3
            BY <1>2, <2>3
        <2>5. IsLegalRequired' <=> IsRightLast
            BY <1>8, <2>3
        <2>. QED  BY <1>1, <1>2, <1>3, <1>7, <1>10, <2>1, <2>2, <2>3, <2>4, <2>5 DEF RequiredVerdict
    <1>11. CASE PlaysItsRole(a) /\ Place < 3 /\ Remaining = 1
        <2>1. status' = "done" /\ errors' # {}
            BY <1>1, <1>11 DEF Transfer, Answer, Stop, AtEnd
        <2>2. Len(actuals') = count' => ~IsLegalRequired'
            BY <1>1, <1>2, <1>6, <1>11
        <2>. QED  BY <2>1, <2>2 DEF RequiredVerdict
    <1>12. CASE PlaysItsRole(a) /\ Place < 3 /\ Remaining > 1
        <2>1. status' = "required" /\ errors' = errors \cup wrong
            <3>. HIDE DEF wrong
            <3>. QED  BY <1>1, <1>4, <1>11, <1>12 DEF Transfer, Answer, Stop, GoOn, Remaining
        <2>2. n \in {0, 1} /\ Remaining' > 0
            <3>1. Remaining = count - n /\ Remaining' = count - Len(actuals')
                BY <1>1 DEF Remaining
            <3>. HIDE DEF n
            <3>2. n \in {0, 1} /\ count - (n + 1) > 0
                BY <1>2, <1>12, <3>1
            <3>. QED  BY <1>2, <3>1, <3>2
        <2>3. n = 0 => ArrayAs(a, callee = "unpack")
            <3>. HIDE DEF ArrayAs
            <3>. QED  BY <1>1, <1>3, <1>12 DEF RoleFits, Transfers
        <2>4. n = 1 => /\ ArrayAs(actuals[1], callee = "unpack")
                       /\ IF callee = "pack" THEN IndexOf(a, actuals[1])
                          ELSE ArrayAs(a, FALSE) /\ ComponentOf(actuals[1]) = ComponentOf(a)
            <3>1. SUFFICES ASSUME n = 1
                           PROVE  /\ ArrayAs(actuals[1], callee = "unpack")
                                  /\ IF callee = "pack" THEN IndexOf(a, actuals[1])
                                     ELSE ArrayAs(a, FALSE) /\ ComponentOf(actuals[1]) = ComponentOf(a)
                OBVIOUS
            <3>2. ArrayAs(actuals[1], callee = "unpack")
                BY <3>1 DEF TransferUnderway
            <3>3. RoleFits(actuals, a)
                BY <1>3, <1>12
            <3>. HIDE DEF ArrayAs, IndexOf, ComponentOf
            <3>4. IF callee = "pack" THEN IndexOf(a, actuals[1])
                  ELSE ArrayAs(a, FALSE) /\ ComponentOf(actuals[1]) = ComponentOf(a)
                BY <3>1, <3>3 DEF RoleFits
            <3>. QED  BY <3>2, <3>4
        <2>5. ArrayAs(actuals[1], callee = "unpack")'
            <3>1. actuals'[1] = IF n = 0 THEN a ELSE actuals[1]
                BY <1>2, <2>2
            <3>. QED  BY <1>1, <2>2, <2>3, <2>4, <3>1 DEF ArrayAs
        <2>6. n = 1 => (IF callee = "pack" THEN IndexOf(actuals[2], actuals[1])
                        ELSE ArrayAs(actuals[2], FALSE) /\ ComponentOf(actuals[1]) = ComponentOf(actuals[2]))'
            <3>1. n = 1 => actuals'[1] = actuals[1] /\ actuals'[2] = a
                BY <1>2
            <3>. QED  BY <1>1, <2>4, <3>1 DEF ArrayAs, ComponentOf, IndexOf
        <2>7. errors' = {} <=> \A i \in 1..(n + 1) : IsClean(i, actuals'[i])
            <3>1. errors' = {} <=> errors = {} /\ IsClean(n + 1, a)
                BY <1>2, <2>1 DEF At
            <3>2. errors = {} <=> \A i \in 1..n : IsClean(i, actuals[i])
                BY DEF TransferUnderway
            <3>. HIDE DEF n
            <3>3. \A i : i \in 1..(n + 1) <=> i \in 1..n \/ i = n + 1
                BY <1>2
            <3>. QED  BY <1>2, <3>1, <3>2, <3>3
        <2>8. (errors = {} <=> \A i \in 1..Len(actuals) : IsClean(i, actuals[i]))'
            <3>1. ASSUME NEW i PROVE IsClean(i, actuals[i])' <=> IsClean(i, actuals'[i])
                BY <1>1 DEF IsClean, Roles
            <3>. QED  BY <1>2, <2>7, <3>1
        <2>9. Len(actuals') < 3 /\ (Len(actuals') > 1 => n = 1)
            <3>. HIDE DEF n
            <3>. QED  BY <1>2, <2>2
        <2>10. TransferUnderway'
            BY <2>2, <2>5, <2>6, <2>8, <2>9 DEF TransferUnderway
        <2>. QED  BY <2>1, <2>10
    <1>13. Remaining = 1 \/ Remaining > 1
        BY <1>1, <1>2 DEF Remaining
    <1>14. Place = 3 \/ Place < 3
        BY <1>2
    <1>. QED  BY <1>9, <1>10, <1>11, <1>12, <1>13, <1>14

(* read, readln, write and writeln.                                        *)
Readers == {"read", "readln"}
Writers == {"write", "writeln"}

(* The first actual parameter is the file.                                 *)
IsFile(t) == IsFileOf({"read", "write"}, t)
IsFirstFile(a) == IsVariableAccess(a) /\ IsFile(VariableType(a))
Element(f, a) == IF IsText(f) THEN TextElement(a) ELSE FileElement(Types[f].component, a)
FirstElement(a) == IF IsFirstFile(a) THEN 2 ELSE 1

TextUnderway ==
    /\ actuals = <<>> => errors = {}
    /\ actuals # <<>> /\ IsFirstFile(actuals[1]) =>
        /\ file = VariableType(actuals[1])
        /\ callee \in {"read", "write"} => count >= 2
    /\ actuals # <<>> /\ ~IsFirstFile(actuals[1]) => file = Text /\ HasDefaultFile
    /\ actuals # <<>> =>
        (errors = {} <=>
            /\ IsFirstFile(actuals[1]) => ~IsFormatted(actuals[1])
            /\ \A i \in FirstElement(actuals[1])..Len(actuals) : Element(file, actuals[i]))

(* A file is found to be one as a value, too, and is not read or written   *)
(* as text itself.                                                         *)
LEMMA FilesAreFiles ==
    ASSUME NEW a \in AnyActual
    PROVE  /\ IsVariableAccess(a) => (IsFile(ValueType(a)) <=> IsFile(VariableType(a)))
           /\ IsVariableAccess(a) /\ IsFile(VariableType(a)) => ValueType(a) = VariableType(a)
           /\ IsFile(ValueType(a)) => ~WritableText(a)
           /\ IsFile(VariableType(a)) => ~ReadableText(a)
    <1>1. ValueType(a) \in Type /\ (IsVariableAccess(a) => VariableType(a) \in Type)
        BY TypesOfActuals
    <1>2. \A t : IsFile(t) => Form(t) \in {"text", "file"}
        BY DEF IsFile, IsFileOf, IsText, IsTypedFile
    <1>3. ASSUME IsVariableAccess(a), IsFile(VariableType(a)) \/ IsFile(ValueType(a))
          PROVE  ValueType(a) = VariableType(a)
        <2>1. CASE IsFile(ValueType(a))
            BY <1>2, <1>3, <2>1, FilesArePromoted
        <2>2. CASE IsFile(VariableType(a))
            <3>. DEFINE t == VariableType(a)
            <3>1. t \in Type /\ Form(t) \in {"text", "file"}
                BY <1>1, <1>2, <1>3, <2>2
            <3>2. t \notin TypeOrdinalDynamic /\ Form(t) # "set"
                BY <3>1, StringKinds
            <3>3. Promoted(t) = t
                BY <3>2 DEF Promoted
            <3>4. ValueType(a) = Promoted(t)
                BY <1>3 DEF ValueType, IsVariableAccess
            <3>. QED  BY <3>3, <3>4
        <2>. QED  BY <1>3, <2>1, <2>2
    <1>4. ASSUME NEW t \in Type, IsFile(t)
          PROVE  ~IsReadableKind(KindOf(t)) /\ ~IsWritableKind(ValueOf(t))
        <2>1. KindOf(t).family = "structure" /\ ValueOf(t) = KindOf(t)
            BY <1>2, <1>4, StringKinds, ValuesByRange
        <2>. QED  BY <2>1, ValueParts DEF IsReadableKind, IsWritableKind, IsNumber, OrdinalValue, BooleanValue,
                                          IntegerValue, RealValue
    <1>5. IsFile(ValueType(a)) => ~WritableText(a)
        BY <1>1, <1>4 DEF WritableText
    <1>6. IsFile(VariableType(a)) => ~ReadableText(a)
        BY <1>1, <1>4 DEF ReadableText, PlainVariable
    <1>. HIDE DEF IsFile
    <1>. QED  BY <1>3, <1>5, <1>6

(* So it is no element of a text.                                          *)
LEMMA FilesAreNoText ==
    ASSUME NEW a \in AnyActual, callee \in Transferring,
           \/ callee \in Readers /\ (~IsVariableAccess(a) \/ IsFile(VariableType(a)))
           \/ callee \in Writers /\ IsFile(ValueType(a))
           \/ IsFirstFile(a)
    PROVE  ~TextElement(a)
    <1>. HIDE DEF IsFile
    <1>1. CASE callee \in Readers
        <2>1. TextElement(a) <=> ReadableText(a)
            BY <1>1 DEF TextElement, Readers
        <2>2. ReadableText(a) => IsVariableAccess(a)
            BY DEF ReadableText, PlainVariable
        <2>3. callee \notin Writers
            BY <1>1 DEF Readers, Writers
        <2>. QED  BY <2>1, <2>2, <2>3, FilesAreFiles DEF IsFirstFile
    <1>2. CASE callee \in Writers
        <2>1. TextElement(a) <=> WritableText(a)
            BY <1>2 DEF TextElement, Writers
        <2>2. callee \notin Readers
            BY <1>2 DEF Readers, Writers
        <2>. QED  BY <2>1, <2>2, FilesAreFiles DEF IsFirstFile
    <1>. QED  BY <1>1, <1>2 DEF Transferring, Readers, Writers

(* At the end of the call it is known what the language allows.            *)
LEMMA TextVerdict ==
    ASSUME CallInv, callee \in Transferring, TextUnderway, actuals # <<>>, Len(actuals) = count
    PROVE  IsLegalRequired <=> errors = {}
    <1>. DEFINE a == actuals[1]
    <1>1. a \in AnyActual /\ count \in Nat /\ count > 0
        BY DEF CallInv
    <1>2. IsLegalRequired <=> LegalText \/ LegalComponents
        BY <1>1, LegalGroups DEF LegalByGroup
    <1>3. /\ PlainFile(a, {"text"}) <=> ~IsFormatted(a) /\ IsVariableAccess(a) /\ IsText(VariableType(a))
          /\ PlainFile(a, {"file"}) <=> ~IsFormatted(a) /\ IsVariableAccess(a) /\ IsTypedFile(VariableType(a))
          /\ ~(IsText(VariableType(a)) /\ IsTypedFile(VariableType(a)))
        BY DEF PlainFile, PlainVariable, IsText, IsTypedFile
    <1>4. /\ IsFirstFile(a) => IsVariableAccess(a)
          /\ IsFirstFile(a) => IsText(VariableType(a)) \/ (IsTypedFile(VariableType(a)) /\ callee \in {"read", "write"})
          /\ IsVariableAccess(a) /\ IsText(VariableType(a)) => IsFirstFile(a)
          /\ IsVariableAccess(a) /\ IsTypedFile(VariableType(a)) /\ callee \in {"read", "write"} => IsFirstFile(a)
        BY DEF IsFirstFile, IsFile, IsFileOf
    <1>5. StartOfText = IF PlainFile(a, {"text"}) THEN 2 ELSE 1
        BY <1>1 DEF StartOfText
    <1>6. IsFirstFile(a) => ~TextElement(a)
        BY <1>1, FilesAreNoText
    <1>7. 1 \in 1..count
        BY <1>1
    <1>8. errors = {} <=>
            /\ IsFirstFile(a) => ~IsFormatted(a)
            /\ \A i \in FirstElement(a)..count : Element(file, actuals[i])
        BY DEF TextUnderway
    <1>9. CASE IsFirstFile(a)
        <2>. DEFINE f == VariableType(a)
        <2>1. file = f /\ (callee \in {"read", "write"} => count >= 2)
            BY <1>9 DEF TextUnderway
        <2>2. errors = {} <=> ~IsFormatted(a) /\ \A i \in 2..count : Element(f, actuals[i])
            BY <1>8, <1>9, <2>1 DEF FirstElement
        <2>3. StartOfText = 1 => ~LegalText
            <3>1. ASSUME StartOfText = 1, LegalText PROVE FALSE
                <4>1. \A i \in 1..count : TextElement(actuals[i])
                    BY <3>1 DEF LegalText
                <4>. QED  BY <1>6, <1>7, <1>9, <4>1
            <3>. QED  BY <3>1
        <2>4. CASE IsText(f)
            <3>1. ~LegalComponents
                BY <1>3, <2>4 DEF LegalComponents
            <3>2. StartOfText = IF IsFormatted(a) THEN 1 ELSE 2
                BY <1>3, <1>4, <1>5, <1>9, <2>4
            <3>3. StartOfText = 2 => (LegalText <=> \A i \in 2..count : TextElement(actuals[i]))
                <4>1. count >= 2 <=> 2 <= count
                    BY <1>1
                <4>. QED  BY <2>1, <4>1 DEF LegalText
            <3>4. \A x : Element(f, x) <=> TextElement(x)
                BY <2>4 DEF Element
            <3>. QED  BY <1>2, <2>2, <2>3, <3>1, <3>2, <3>3, <3>4
        <2>5. CASE ~IsText(f)
            <3>1. IsTypedFile(f) /\ callee \in {"read", "write"}
                BY <1>4, <1>9, <2>5
            <3>2. ~LegalText
                BY <1>3, <1>5, <2>3, <2>5
            <3>3. \A x : Element(f, x) <=> FileElement(Types[f].component, x)
                BY <2>5 DEF Element
            <3>4. LegalComponents <=> ~IsFormatted(a) /\ \A i \in 2..count : FileElement(Types[f].component, actuals[i])
                <4>1. count > 1
                    BY <1>1, <2>1, <3>1
                <4>2. PlainFile(a, {"file"}) <=> ~IsFormatted(a)
                    BY <1>3, <1>4, <1>9, <3>1
                <4>. QED  BY <3>1, <4>1, <4>2 DEF LegalComponents
            <3>. QED  BY <1>2, <2>2, <3>2, <3>3, <3>4
        <2>. QED  BY <2>4, <2>5
    <1>10. CASE ~IsFirstFile(a)
        <2>1. file = Text /\ HasDefaultFile
            BY <1>10 DEF TextUnderway
        <2>2. IsText(Text)
            BY DEF IsText, OfForm
        <2>3. errors = {} <=> \A i \in 1..count : TextElement(actuals[i])
            <3>1. \A x : Element(file, x) <=> TextElement(x)
                BY <2>1, <2>2 DEF Element
            <3>. QED  BY <1>8, <1>10, <3>1 DEF FirstElement
        <2>4. StartOfText = 1
            BY <1>3, <1>4, <1>5, <1>10
        <2>5. LegalText <=> \A i \in 1..count : TextElement(actuals[i])
            <3>1. 1 <= count
                BY <1>1
            <3>. QED  BY <2>1, <2>4, <3>1 DEF LegalText
        <2>6. ~LegalComponents
            BY <1>3, <1>4, <1>10 DEF LegalComponents
        <2>. QED  BY <1>2, <2>3, <2>5, <2>6
    <1>. QED  BY <1>9, <1>10

(* What is read or written is what the language allows to be.              *)
LEMMA ElementsToRead ==
    ASSUME NEW a \in AnyActual, callee \in Readers, NEW STATE f,
           IsText(f) \/ (f \in Type /\ IsTypedFile(f) /\ callee = "read")
    PROVE  Element(f, a) <=>
            /\ ~IsFormatted(a)
            /\ IsVariableAccess(a)
            /\ IF IsText(f) THEN CanBeRead(VariableType(a))
               ELSE AssignmentCompatible(Types[f].component, VariableType(a))
    <1>. DEFINE t == VariableType(a)
                c == Types[f].component
    <1>1. IsVariableAccess(a) => t \in Type /\ Form(t) \notin SyntheticForms
        BY TypesOfVariables
    <1>2. IsVariableAccess(a) => (CanBeRead(t) <=> IsReadableKind(KindOf(t)))
        BY <1>1, ReadableKinds
    <1>3. CASE IsText(f)
        <2>1. Element(f, a) <=> ReadableText(a)
            BY <1>3 DEF Element, TextElement, Readers
        <2>. QED  BY <1>2, <1>3, <2>1 DEF ReadableText, PlainVariable
    <1>4. CASE ~IsText(f)
        <2>1. f \in OfForm("file") /\ callee = "read"
            BY <1>4 DEF IsTypedFile, OfForm
        <2>2. c \in Type
            BY <2>1 DEF TypesAssumption
        <2>3. Element(f, a) <=> PlainVariable(a) /\ MayBeGiven(ValueOf(c), t)
            BY <1>4, <2>1 DEF Element, FileElement
        <2>4. IsVariableAccess(a) => (AssignmentCompatible(c, t) <=> MayBeGiven(ValueOf(c), t))
            BY <1>1, <2>2, GivenKinds
        <2>. HIDE DEF c, t
        <2>. QED  BY <1>4, <2>3, <2>4 DEF PlainVariable, c, t
    <1>. QED  BY <1>3, <1>4

LEMMA ElementsToWrite ==
    ASSUME NEW a \in AnyActual, callee \in Writers
    PROVE  /\ TextElement(a) <=> ~HasNoValue(a) /\ CanBeWritten(ValueType(a)) /\ FormatFits(a)
           /\ \A f \in OfForm("file") :
                FileElement(Types[f].component, a) <=>
                    /\ ~HasNoValue(a) /\ ~IsFormatted(a)
                    /\ AssignmentCompatible(ValueType(a), Types[f].component)
    <1>. DEFINE t == ValueType(a)
    <1>1. t \in Type /\ Form(t) # "bounds"
        BY TypesOfActuals, ValuesAreNoBounds
    <1>2. /\ CanBeWritten(t) <=> IsWritableKind(ValueOf(t))
          /\ t = TypeReal <=> ValueOf(t) = RealValue
        BY <1>1, OperandKinds
    <1>3. TextElement(a) <=> WritableText(a)
        BY DEF TextElement, Writers
    <1>4. TextElement(a) <=> ~HasNoValue(a) /\ CanBeWritten(t) /\ FormatFits(a)
        <2>. HIDE DEF TypeReal
        <2>. QED  BY <1>2, <1>3 DEF WritableText, FormatFits
    <1>5. ASSUME NEW f \in OfForm("file")
          PROVE  FileElement(Types[f].component, a) <=>
                    /\ ~HasNoValue(a) /\ ~IsFormatted(a)
                    /\ AssignmentCompatible(t, Types[f].component)
        <2>. DEFINE c == Types[f].component
        <2>1. c \in Type /\ Form(c) \notin SyntheticForms
            BY DenotersMakeTypes DEF DenotersAssumption, TypesAssumption
        <2>2. AssignmentCompatible(t, c) <=> MayBeGiven(ValueOf(t), c)
            BY <1>1, <2>1, GivenKinds
        <2>3. FileElement(c, a) <=> PlainValue(a) /\ MayBeGiven(ValueOf(t), c)
            BY DEF FileElement, Writers
        <2>. QED  BY <2>2, <2>3 DEF PlainValue
    <1>. QED  BY <1>4, <1>5

(* The file that is read or written.                                       *)
LEMMA FileIsKnown ==
    ASSUME CallInv, TextUnderway, actuals # <<>>
    PROVE  /\ file \in Type
           /\ IsText(file) \/ (IsTypedFile(file) /\ callee \in {"read", "write"})
           /\ IsText(file) => file = Text
    <1>1. actuals[1] \in AnyActual
        BY DEF CallInv
    <1>2. Text \in Type /\ Form(Text) = "text"
        BY DEF OfForm
    <1>3. file \in Type /\ (IsText(file) \/ (IsTypedFile(file) /\ callee \in {"read", "write"}))
        <2>1. CASE IsFirstFile(actuals[1])
            <3>1. file = VariableType(actuals[1]) /\ IsVariableAccess(actuals[1])
                BY <2>1 DEF TextUnderway, IsFirstFile
            <3>. QED  BY <1>1, <2>1, <3>1, TypesOfActuals DEF IsFirstFile, IsFile, IsFileOf
        <2>2. CASE ~IsFirstFile(actuals[1])
            <3>1. file = Text
                BY <2>2 DEF TextUnderway
            <3>. QED  BY <1>2, <3>1 DEF IsText
        <2>. QED  BY <2>1, <2>2
    <1>. QED  BY <1>3 DEF IsText, OfForm

(* One element more.                                                       *)
LEMMA ElementsStay ==
    ASSUME callee' = callee, NEW x
    PROVE  /\ TextElement(x)' <=> TextElement(x)
           /\ \A t : FileElement(t, x)' <=> FileElement(t, x)
           /\ IsFirstFile(x)' <=> IsFirstFile(x)
    BY DEF TextElement, FileElement, IsFirstFile, IsFile, IsFileOf

LEMMA FirstGoesOn ==
    ASSUME CallInv, NEW a \in Written[callee], Read(a), UNCHANGED <<callee, count, files>>, actuals = <<>>,
           \/ /\ IsFirstFile(a)
              /\ file' = VariableType(a)
              /\ callee \in {"read", "write"} => count >= 2
              /\ errors' = {} <=> ~IsFormatted(a)
           \/ /\ ~IsFirstFile(a)
              /\ file' = Text
              /\ HasDefaultFile
              /\ errors' = {} <=> TextElement(a)
    PROVE  TextUnderway'
    <1>1. Len(actuals') = 1 /\ actuals'[1] = a /\ actuals' # <<>>
        BY OneMore
    <1>2. IsFirstFile(actuals[1])' <=> IsFirstFile(a)
        BY <1>1, ElementsStay DEF IsFirstFile, IsFile, IsFileOf
    <1>3. HasDefaultFile' <=> HasDefaultFile
        BY DEF HasDefaultFile, DefaultFile
    <1>4. FirstElement(actuals[1])' = IF IsFirstFile(a) THEN 2 ELSE 1
        BY <1>2 DEF FirstElement
    <1>5. CASE IsFirstFile(a)
        <2>1. FirstElement(actuals[1])' .. Len(actuals') = {}
            BY <1>1, <1>4, <1>5
        <2>2. /\ file' = VariableType(a)
              /\ callee \in {"read", "write"} => count >= 2
              /\ errors' = {} <=> ~IsFormatted(a)
            BY <1>5
        <2>3. (file = VariableType(actuals[1]))' /\ (~IsFormatted(actuals[1]))' = ~IsFormatted(a)
            BY <1>1, <2>2 DEF VariableType, IsFormatted
        <2>. QED  BY <1>1, <1>2, <1>5, <2>1, <2>2, <2>3 DEF TextUnderway
    <1>6. CASE ~IsFirstFile(a)
        <2>1. FirstElement(actuals[1])' .. Len(actuals') = {1}
            BY <1>1, <1>4, <1>6
        <2>2. file' = Text /\ HasDefaultFile /\ (errors' = {} <=> TextElement(a))
            BY <1>6
        <2>3. Element(file, actuals[1])' <=> TextElement(a)
            <3>1. IsText(file)'
                BY <2>2 DEF IsText, OfForm
            <3>. QED  BY <1>1, <3>1 DEF Element, TextElement
        <2>. QED  BY <1>1, <1>2, <1>3, <1>6, <2>1, <2>2, <2>3 DEF TextUnderway
    <1>. QED  BY <1>5, <1>6

LEMMA NextGoesOn ==
    ASSUME CallInv, NEW a \in Written[callee], Read(a), UNCHANGED <<callee, count, files, file>>, actuals # <<>>,
           TextUnderway, errors' = {} <=> errors = {} /\ Element(file, a)
    PROVE  TextUnderway'
    <1>. DEFINE n == Len(actuals)
                b == actuals[1]
    <1>1. /\ n \in Nat /\ n > 0 /\ Len(actuals') = n + 1
          /\ actuals'[n + 1] = a
          /\ \A i \in 1..n : actuals'[i] = actuals[i]
        <2>1. n # 0
            BY DEF CallInv
        <2>. QED  BY <2>1, OneMore
    <1>2. actuals'[1] = b /\ actuals' # <<>>
        BY <1>1
    <1>3. IsFirstFile(actuals[1])' <=> IsFirstFile(b)
        BY <1>2 DEF IsFirstFile, IsFile, IsFileOf
    <1>4. HasDefaultFile' <=> HasDefaultFile
        BY DEF HasDefaultFile, DefaultFile
    <1>5. FirstElement(actuals[1])' = FirstElement(b) /\ FirstElement(b) \in {1, 2}
        BY <1>3 DEF FirstElement
    <1>6. ASSUME NEW i PROVE Element(file, actuals[i])' <=> Element(file, actuals'[i])
        BY DEF Element, TextElement, FileElement
    <1>7. errors = {} <=> /\ IsFirstFile(b) => ~IsFormatted(b)
                          /\ \A i \in FirstElement(b)..n : Element(file, actuals[i])
        BY DEF TextUnderway
    <1>8. errors' = {} <=> /\ IsFirstFile(b) => ~IsFormatted(b)
                           /\ \A i \in FirstElement(b)..(n + 1) : Element(file, actuals'[i])
        <2>. HIDE DEF n, b
        <2>1. \A i : i \in FirstElement(b)..(n + 1) <=> i \in FirstElement(b)..n \/ i = n + 1
            BY <1>1, <1>5
        <2>2. \A i \in FirstElement(b)..n : i \in 1..n
            BY <1>1, <1>5
        <2>3. (\A i \in FirstElement(b)..(n + 1) : Element(file, actuals'[i])) <=>
                (\A i \in FirstElement(b)..n : Element(file, actuals[i])) /\ Element(file, a)
            BY <1>1, <2>1, <2>2
        <2>. QED  BY <1>7, <2>3
    <1>9. (errors = {} <=>
            /\ IsFirstFile(actuals[1]) => ~IsFormatted(actuals[1])
            /\ \A i \in FirstElement(actuals[1])..Len(actuals) : Element(file, actuals[i]))'
        <2>1. IsFormatted(actuals[1])' <=> IsFormatted(b)
            BY <1>2 DEF IsFormatted
        <2>. HIDE DEF b, n
        <2>. QED  BY <1>1, <1>3, <1>5, <1>6, <1>8, <2>1
    <1>10. (file = VariableType(actuals[1]))' <=> file = VariableType(b)
        BY <1>2 DEF VariableType
    <1>11. /\ IsFirstFile(b) => file = VariableType(b) /\ (callee \in {"read", "write"} => count >= 2)
           /\ ~IsFirstFile(b) => file = Text /\ HasDefaultFile
        BY DEF TextUnderway
    <1>. HIDE DEF b, n
    <1>. QED  BY <1>2, <1>3, <1>4, <1>9, <1>10, <1>11 DEF TextUnderway

(* The steps.  A call that is given up at its first actual parameter is    *)
(* none the language allows.                                               *)
LEMMA GivingUpIsExact ==
    ASSUME CallInv, NEW a \in Written[callee], callee \in Transferring, actuals = <<>>,
           NEW STATE places, NEW STATE result, places # {}, Answer(a, places, result),
           \/ callee \in Readers /\ ~IsVariableAccess(a)
           \/ callee \in Writers /\ IsFile(ValueType(a)) /\ ~IsVariableAccess(a)
           \/ IsFirstFile(a) /\ callee \in {"read", "write"} /\ count < 2
           \/ ~IsFirstFile(a) /\ ~HasDefaultFile
    PROVE  RequiredVerdict'
    <1>1. /\ Read(a) /\ UNCHANGED <<callee, wanted, count, files>>
          /\ errors' # {}
        BY DEF Answer, Stop, fileVars
    <1>2. /\ a \in AnyActual /\ Len(actuals') = 1 /\ actuals'[1] = a /\ actuals' = <<a>>
        BY <1>1, OneMore DEF Read
    <1>3. Len(actuals') = count' => ~IsLegalRequired'
        <2>1. SUFFICES ASSUME count = 1 PROVE ~IsLegalRequired'
            BY <1>1, <1>2
        <2>2. LegalByGroup'
            BY LegalGroups, PTL
        <2>3. ~LegalComponents'
            BY <1>1, <2>1 DEF LegalComponents
        <2>4. IsLegalRequired' <=> LegalText'
            BY <1>1, <2>1, <2>2, <2>3 DEF LegalByGroup
        <2>5. /\ PlainFile(a, {"text"}) <=> ~IsFormatted(a) /\ IsVariableAccess(a) /\ IsText(VariableType(a))
              /\ IsVariableAccess(a) /\ IsText(VariableType(a)) => IsFirstFile(a)
            BY DEF PlainFile, PlainVariable, IsText, IsFirstFile, IsFile, IsFileOf
        <2>6. StartOfText' = IF PlainFile(a, {"text"}) THEN 2 ELSE 1
            BY <1>1, <1>2, <2>1 DEF StartOfText, PlainFile, PlainVariable
        <2>7. StartOfText' = 1 => (LegalText' => HasDefaultFile /\ TextElement(a))
            <3>1. 1 \in 1..count' /\ actuals'[1] = a
                BY <1>1, <1>2, <2>1
            <3>2. HasDefaultFile' <=> HasDefaultFile
                BY <1>1 DEF HasDefaultFile, DefaultFile
            <3>3. TextElement(actuals[1])' <=> TextElement(a)
                BY <1>1, <1>2 DEF TextElement
            <3>. QED  BY <3>1, <3>2, <3>3 DEF LegalText
        <2>8. StartOfText' = 2 /\ callee \in {"read", "write"} => ~LegalText'
            BY <1>1, <2>1 DEF LegalText
        <2>9. CASE IsFirstFile(a) /\ callee \in {"read", "write"}
            BY <1>2, <2>4, <2>6, <2>7, <2>8, <2>9, FilesAreNoText
        <2>10. CASE \/ callee \in Readers /\ ~IsVariableAccess(a)
                    \/ callee \in Writers /\ IsFile(ValueType(a)) /\ ~IsVariableAccess(a)
            <3>1. ~TextElement(a)
                BY <1>2, <2>10, FilesAreNoText
            <3>. QED  BY <2>4, <2>5, <2>6, <2>7, <2>10, <3>1
        <2>11. CASE ~IsFirstFile(a) /\ ~HasDefaultFile
            BY <2>4, <2>5, <2>6, <2>7, <2>11
        <2>. QED  BY <2>9, <2>10, <2>11
    <1>. QED  BY <1>1, <1>2, <1>3 DEF RequiredVerdict

LEMMA TakingFileIsExact ==
    ASSUME CallInv, NEW a \in Written[callee], callee \in Transferring, actuals = <<>>, errors = {},
           NEW line, line \in {"readln", "writeln"},
           callee = line <=> callee \notin {"read", "write"},
           IsFirstFile(a), TakeFile(a, line), status = "required"
    PROVE  /\ status' = "done" => RequiredVerdict'
           /\ status' = "required" => TextUnderway'
    <1>1. count \in Nat
        BY DEF CallInv
    <1>2. CASE callee # line /\ count < 2
        <2>1. Answer(a, At(1, IsFormatted(a)) \cup {AtEnd}, "fallback")
            BY <1>1, <1>2 DEF TakeFile
        <2>2. RequiredVerdict' /\ status' = "done"
            <3>1. At(1, IsFormatted(a)) \cup {AtEnd} # {}
                OBVIOUS
            <3>2. status' = "done"
                BY <2>1 DEF Answer, Stop
            <3>. QED  BY <1>2, <2>1, <3>1, <3>2, GivingUpIsExact
        <2>. QED  BY <2>2
    <1>3. CASE callee = line \/ count >= 2
        <2>1. /\ Read(a) /\ UNCHANGED <<callee, count, files>>
              /\ file' = VariableType(a)
              /\ errors' = errors \cup At(1, IsFormatted(a))
              /\ status' = "required"
            BY <1>1, <1>3 DEF TakeFile, GoOn
        <2>2. errors' = {} <=> ~IsFormatted(a)
            BY <2>1 DEF At
        <2>3. callee \in {"read", "write"} => count >= 2
            BY <1>3
        <2>4. TextUnderway'
            BY <2>1, <2>2, <2>3, FirstGoesOn
        <2>. QED  BY <2>1, <2>4
    <1>. QED  BY <1>1, <1>2, <1>3

LEMMA ReadingIsExact ==
    ASSUME CallInv, NEW a \in Written[callee], FirstToRead(a) \/ NextToRead(a), TextUnderway,
           status = "required"
    PROVE  /\ status' = "done" => RequiredVerdict'
           /\ status' = "required" => TextUnderway'
    <1>1. a \in AnyActual /\ callee \in Readers /\ callee \in Transferring /\ count \in Nat
        BY DEF AnyActual, FirstToRead, NextToRead, Readers, Transferring, CallInv
    <1>2. callee \notin Writers
        BY <1>1 DEF Readers, Writers
    <1>3. CASE FirstToRead(a)
        <2>. DEFINE t == VariableType(a)
        <2>1. actuals = <<>> /\ errors = {}
            <3>1. actuals = <<>>
                BY <1>3 DEF FirstToRead, Place, CallInv
            <3>. QED  BY <3>1 DEF TextUnderway
        <2>2. IsFileOf({"read"}, t) <=> IsFile(t)
            BY <1>1 DEF IsFile, IsFileOf, Readers
        <2>3. CASE ~IsVariableAccess(a)
            <3>1. Answer(a, {1}, "fallback")
                BY <1>3, <2>3 DEF FirstToRead
            <3>2. RequiredVerdict'
                BY <1>1, <2>1, <2>3, <3>1, GivingUpIsExact
            <3>3. status' = "done"
                BY <3>1 DEF Answer, Stop
            <3>. QED  BY <3>2, <3>3
        <2>4. CASE IsVariableAccess(a) /\ IsFile(t)
            <3>1. TakeFile(a, "readln")
                BY <1>3, <2>2, <2>4 DEF FirstToRead
            <3>2. callee = "readln" <=> callee \notin {"read", "write"}
                BY <1>1 DEF Readers
            <3>3. IsFirstFile(a)
                BY <2>4 DEF IsFirstFile
            <3>. QED  BY <1>1, <2>1, <3>1, <3>2, <3>3, TakingFileIsExact
        <2>5. CASE IsVariableAccess(a) /\ ~IsFile(t) /\ ~HasDefaultFile
            <3>1. Answer(a, {1}, "fallback")
                BY <1>3, <2>2, <2>5 DEF FirstToRead
            <3>2. ~IsFirstFile(a)
                BY <2>5 DEF IsFirstFile
            <3>3. RequiredVerdict'
                BY <1>1, <2>1, <2>5, <3>1, <3>2, GivingUpIsExact
            <3>4. status' = "done"
                BY <3>1 DEF Answer, Stop
            <3>. QED  BY <3>3, <3>4
        <2>6. CASE IsVariableAccess(a) /\ ~IsFile(t) /\ HasDefaultFile
            <3>1. KeepIf(CanBeRead(t), a, Text)
                BY <1>3, <2>2, <2>6 DEF FirstToRead
            <3>2. /\ Read(a) /\ UNCHANGED <<callee, count, files>>
                  /\ file' = Text /\ status' = status
                  /\ errors' = errors \cup At(Place, ~CanBeRead(t) \/ IsFormatted(a))
                BY <3>1 DEF KeepIf, GoOn
            <3>3. errors' = {} <=> CanBeRead(t) /\ ~IsFormatted(a)
                BY <2>1, <3>2 DEF At
            <3>4. IsText(Text)
                BY DEF IsText, OfForm
            <3>5. Element(Text, a) <=> CanBeRead(t) /\ ~IsFormatted(a)
                BY <1>1, <2>6, <3>4, ElementsToRead
            <3>6. errors' = {} <=> TextElement(a)
                BY <3>3, <3>4, <3>5 DEF Element
            <3>7. ~IsFirstFile(a)
                BY <2>6 DEF IsFirstFile
            <3>8. TextUnderway'
                BY <2>1, <2>6, <3>2, <3>6, <3>7, FirstGoesOn
            <3>. QED  BY <3>2, <3>8
        <2>. QED  BY <2>3, <2>4, <2>5, <2>6
    <1>4. CASE NextToRead(a)
        <2>. DEFINE fits == /\ IsVariableAccess(a)
                            /\ IF IsText(file) THEN CanBeRead(VariableType(a))
                               ELSE AssignmentCompatible(Types[file].component, VariableType(a))
        <2>1. actuals # <<>>
            BY <1>4 DEF NextToRead, Place
        <2>2. KeepIf(fits, a, file)
            BY <1>4 DEF NextToRead
        <2>. HIDE DEF fits
        <2>3. /\ Read(a) /\ UNCHANGED <<callee, count, files, file>>
              /\ status' = status
              /\ errors' = errors \cup At(Place, ~fits \/ IsFormatted(a))
            BY <2>2 DEF KeepIf, GoOn
        <2>4. Element(file, a) <=> ~IsFormatted(a) /\ fits
            <3>1. IsText(file) \/ (file \in Type /\ IsTypedFile(file) /\ callee = "read")
                BY <1>1, <2>1, FileIsKnown DEF Readers
            <3>. QED  BY <1>1, <3>1, ElementsToRead DEF fits
        <2>5. errors' = {} <=> errors = {} /\ Element(file, a)
            BY <2>3, <2>4 DEF At
        <2>6. TextUnderway'
            BY <2>1, <2>3, <2>5, NextGoesOn
        <2>. QED  BY <2>3, <2>6
    <1>. QED  BY <1>3, <1>4

LEMMA WritingIsExact ==
    ASSUME CallInv, NEW a \in Written[callee], FirstToWrite(a) \/ NextToWrite(a), TextUnderway,
           status = "required"
    PROVE  /\ status' = "done" => RequiredVerdict'
           /\ status' = "required" => TextUnderway'
    <1>. DEFINE t == ValueType(a)
    <1>1. a \in AnyActual /\ callee \in Writers /\ callee \in Transferring /\ count \in Nat
        BY DEF AnyActual, FirstToWrite, NextToWrite, Writers, Transferring, CallInv
    <1>2. callee \notin Readers
        BY <1>1 DEF Readers, Writers
    <1>3. TextElement(a) <=> ~HasNoValue(a) /\ CanBeWritten(t) /\ FormatFits(a)
        BY <1>1, ElementsToWrite
    <1>4. ASSUME WriteText(a)
          PROVE  /\ Read(a) /\ UNCHANGED <<callee, count, files>>
                 /\ file' = Text /\ status' = status
                 /\ errors' = {} <=> errors = {} /\ TextElement(a)
        <2>1. errors' = errors \cup At(Place, HasNoValue(a) \/ ~CanBeWritten(t) \/ ~FormatFits(a))
            BY <1>4 DEF WriteText, GoOn
        <2>2. errors' = {} <=> errors = {} /\ TextElement(a)
            BY <1>3, <2>1 DEF At
        <2>. QED  BY <1>4, <2>2 DEF WriteText, GoOn
    <1>5. CASE FirstToWrite(a)
        <2>1. actuals = <<>> /\ errors = {}
            <3>1. actuals = <<>>
                BY <1>5 DEF FirstToWrite, Place, CallInv
            <3>. QED  BY <3>1 DEF TextUnderway
        <2>2. IsFileOf({"write"}, t) <=> IsFile(t)
            BY <1>1 DEF IsFile, IsFileOf, Writers
        <2>. HIDE DEF IsFile
        <2>3. IsFirstFile(a) <=> IsVariableAccess(a) /\ IsFile(t)
            BY <1>1, FilesAreFiles DEF IsFirstFile
        <2>4. CASE IsFile(t) /\ ~IsVariableAccess(a)
            <3>1. Answer(a, {1}, "fallback")
                BY <1>5, <2>2, <2>4 DEF FirstToWrite
            <3>2. RequiredVerdict'
                BY <1>1, <2>1, <2>4, <3>1, GivingUpIsExact
            <3>3. status' = "done"
                BY <3>1 DEF Answer, Stop
            <3>. QED  BY <3>2, <3>3
        <2>5. CASE IsFile(t) /\ IsVariableAccess(a)
            <3>1. TakeFile(a, "writeln")
                BY <1>5, <2>2, <2>5 DEF FirstToWrite
            <3>2. callee = "writeln" <=> callee \notin {"read", "write"}
                BY <1>1 DEF Writers
            <3>. QED  BY <1>1, <2>1, <2>3, <2>5, <3>1, <3>2, TakingFileIsExact
        <2>6. CASE ~IsFile(t) /\ ~HasDefaultFile
            <3>1. Answer(a, {1}, "fallback")
                BY <1>5, <2>2, <2>6 DEF FirstToWrite
            <3>2. RequiredVerdict'
                BY <1>1, <2>1, <2>3, <2>6, <3>1, GivingUpIsExact
            <3>3. status' = "done"
                BY <3>1 DEF Answer, Stop
            <3>. QED  BY <3>2, <3>3
        <2>7. CASE ~IsFile(t) /\ HasDefaultFile
            <3>1. WriteText(a)
                BY <1>5, <2>2, <2>7 DEF FirstToWrite
            <3>2. TextUnderway'
                BY <1>4, <2>1, <2>3, <2>7, <3>1, FirstGoesOn
            <3>. QED  BY <1>4, <3>1, <3>2
        <2>. QED  BY <2>4, <2>5, <2>6, <2>7
    <1>6. CASE NextToWrite(a)
        <2>1. actuals # <<>>
            BY <1>6 DEF NextToWrite, Place
        <2>2. /\ file \in Type
              /\ IsText(file) \/ (IsTypedFile(file) /\ callee \in {"read", "write"})
              /\ IsText(file) => file = Text
            BY <2>1, FileIsKnown
        <2>3. CASE IsText(file) /\ WriteText(a)
            <3>1. Element(file, a) <=> TextElement(a)
                BY <2>3 DEF Element
            <3>2. file' = file
                BY <1>4, <2>2, <2>3
            <3>3. TextUnderway'
                BY <1>4, <2>1, <2>3, <3>1, <3>2, NextGoesOn
            <3>. QED  BY <1>4, <2>3, <3>3
        <2>4. CASE ~(IsText(file) /\ WriteText(a))
            <3>. DEFINE fits == AssignmentCompatible(t, Types[file].component)
            <3>1. /\ IsTypedFile(file) /\ ~IsText(file)
                  /\ GoOn(a, At(Place, HasNoValue(a) \/ IsFormatted(a) \/ ~fits))
                  /\ UNCHANGED <<files, file>>
                BY <1>6, <2>4 DEF NextToWrite, IsText, IsTypedFile
            <3>2. /\ Read(a) /\ UNCHANGED <<callee, count, files, file>>
                  /\ status' = status
                  /\ errors' = errors \cup At(Place, HasNoValue(a) \/ IsFormatted(a) \/ ~fits)
                BY <3>1 DEF GoOn
            <3>3. file \in OfForm("file")
                BY <2>2, <3>1 DEF IsTypedFile, OfForm
            <3>4. Element(file, a) <=> ~HasNoValue(a) /\ ~IsFormatted(a) /\ fits
                BY <1>1, <3>1, <3>3, ElementsToWrite DEF Element
            <3>. HIDE DEF fits
            <3>5. errors' = {} <=> errors = {} /\ Element(file, a)
                BY <3>2, <3>4 DEF At
            <3>6. TextUnderway'
                BY <2>1, <3>2, <3>5, NextGoesOn
            <3>. QED  BY <3>2, <3>6
        <2>. QED  BY <2>3, <2>4
    <1>. QED  BY <1>5, <1>6

LEMMA EndingIsExact ==
    ASSUME CallInv, FinishReading \/ FinishWriting, TextUnderway, Names[callee].kind = RequiredKind
    PROVE  RequiredVerdict'
    <1>1. /\ UNCHANGED <<callee, wanted, count, actuals, files>> /\ errors' = errors
          /\ callee \in Transferring
        BY DEF FinishReading, FinishWriting, Stop, fileVars, Transferring
    <1>2. Len(actuals) = count /\ actuals # <<>>
        BY DEF FinishReading, FinishWriting, Remaining, Place, CallInv
    <1>3. IsLegalRequired <=> errors = {}
        BY <1>1, <1>2, TextVerdict
    <1>4. IsLegalRequired' <=> IsLegalRequired
        <2>1. LegalByGroup /\ LegalByGroup'
            BY LegalGroups, PTL
        <2>2. LegalText' <=> LegalText
            BY <1>1 DEF LegalText, StartOfText, TextElement, HasDefaultFile, DefaultFile
        <2>3. LegalComponents' <=> LegalComponents
            BY <1>1 DEF LegalComponents, FileElement
        <2>. QED  BY <1>1, <2>1, <2>2, <2>3 DEF LegalByGroup, CallInv
    <1>5. Names[callee].kind' = RequiredKind' /\ Len(actuals') = count'
        BY <1>1, <1>2 DEF RequiredKind
    <1>. QED  BY <1>1, <1>3, <1>4, <1>5 DEF RequiredVerdict
-----------------------------------------------------------------------------
(* The invariant of the calls of required procedures and functions.        *)

Underway ==
    /\ callee \in Transfers => TransferUnderway
    /\ callee \in Transferring => TextUnderway
    /\ callee \notin Transfers \cup Transferring => actuals = <<>> /\ errors = {}

Grouped == OneValueFunctions \cup FileFunctions \cup {"page"} \cup GetLike \cup Transfers \cup Transferring

RequiredInv ==
    /\ callee \notin UsersOfDefaultFile => files = {}
    /\ status = "lookup" => actuals = <<>> /\ errors = {}
    /\ status = "required" => Names[callee].kind = RequiredKind /\ Underway
    /\ status = "done" /\ ~IsDeclared =>
        /\ Names[callee].kind = RequiredKind => callee \in Grouped
        /\ RequiredVerdict

LEMMA GroupsDiffer ==
    /\ callee \in OneValueFunctions \cup FileFunctions \cup {"page"} \cup GetLike =>
            callee \notin Transfers \cup Transferring
    /\ callee \in Transfers => callee \notin Transferring
    BY DEF OneValueFunctions, FileFunctions, GetLike, Transfers, Transferring, AbsLike, ChrLike, RoundLike,
           PredLike

LEMMA NothingIsUnderway ==
    actuals = <<>> /\ errors = {} => Underway
    <1>1. SUFFICES ASSUME actuals = <<>>, errors = {} PROVE Underway
        OBVIOUS
    <1>2. Len(actuals) = 0 /\ 1 .. Len(actuals) = {}
        BY <1>1
    <1>3. TransferUnderway
        BY <1>1, <1>2 DEF TransferUnderway
    <1>4. TextUnderway
        BY <1>1 DEF TextUnderway
    <1>. QED  BY <1>1, <1>3, <1>4 DEF Underway

LEMMA RequiredIsExact ==
    ASSUME TypeInv, RequiredInv, CallRequired
    PROVE  RequiredInv'
    <1>1. /\ status = "required" /\ CallInv /\ Names[callee].kind = RequiredKind /\ Underway
          /\ callee \notin UsersOfDefaultFile => files = {}
        BY DEF CallRequired, TypeInv, RequiredInv
    <1>2. UNCHANGED <<callee, wanted, count, files>>
        BY CallsAreFixed
    <1>3. callee \in Grouped
        <2>1. CASE MissingFirst \/ UseDefaultFile
            BY <2>1 DEF MissingFirst, UseDefaultFile, Grouped, Transfers, Transferring, RequiredFunctions,
                        RequiredProcedures, FileFunctions
        <2>2. CASE FinishReading \/ FinishWriting
            BY <2>2 DEF FinishReading, FinishWriting, Grouped, Transferring
        <2>3. ASSUME NEW a, Required(a) PROVE callee \in Grouped
            <3>1. CASE OneValue(a) \/ OneFile(a) \/ Transfer(a)
                BY <3>1 DEF OneValue, OneFile, Transfer, Grouped, Transfers
            <3>2. CASE FirstToRead(a) \/ NextToRead(a) \/ FirstToWrite(a) \/ NextToWrite(a)
                BY <3>2 DEF FirstToRead, NextToRead, FirstToWrite, NextToWrite, Grouped, Transferring
            <3>. QED  BY <2>3, <3>1, <3>2 DEF Required
        <2>. QED  BY <2>1, <2>2, <2>3 DEF CallRequired
    <1>4. SUFFICES /\ status' \in {"required", "done"}
                   /\ status' = "required" => Underway'
                   /\ status' = "done" => RequiredVerdict'
        BY <1>3, <1>1, <1>2 DEF RequiredInv, RequiredKind
    <1>5. CASE MissingFirst \/ UseDefaultFile
        <2>1. status' = "done" /\ count = 0
            BY <1>5 DEF MissingFirst, UseDefaultFile, Stop
        <2>2. actuals = <<>>
            <3>1. actuals \in Seq(AnyActual) /\ Len(actuals) <= 0
                BY <1>1, <2>1 DEF CallInv
            <3>. QED  BY <3>1
        <2>3. errors = {}
            <3>1. 1 .. Len(actuals) = {}
                BY <2>2
            <3>. QED  BY <1>1, <2>2, <3>1 DEF Underway, TransferUnderway, TextUnderway
        <2>4. RequiredVerdict'
            BY <1>1, <1>5, <2>2, <2>3, NoneIsExact
        <2>. QED  BY <2>1, <2>4
    <1>6. CASE FinishReading \/ FinishWriting
        <2>1. status' = "done" /\ callee \in Transferring
            BY <1>6 DEF FinishReading, FinishWriting, Stop, Transferring
        <2>2. RequiredVerdict'
            BY <1>1, <1>6, <2>1, EndingIsExact DEF Underway
        <2>. QED  BY <2>1, <2>2
    <1>7. ASSUME NEW a \in Written[callee], Required(a)
          PROVE  /\ status' \in {"required", "done"}
                 /\ status' = "required" => Underway'
                 /\ status' = "done" => RequiredVerdict'
        <2>1. CASE OneValue(a)
            <3>1. status' = "done" /\ callee \in OneValueFunctions
                BY <2>1 DEF OneValue, Answer, Stop
            <3>2. actuals = <<>> /\ errors = {}
                BY <1>1, <3>1, GroupsDiffer DEF Underway
            <3>3. RequiredVerdict'
                BY <1>1, <1>7, <2>1, <3>2, OneValueIsExact
            <3>. QED  BY <3>1, <3>3
        <2>2. CASE OneFile(a)
            <3>1. status' = "done" /\ callee \in FileFunctions \cup {"page"} \cup GetLike
                BY <2>2 DEF OneFile, Answer, Stop
            <3>2. actuals = <<>> /\ errors = {}
                BY <1>1, <3>1, GroupsDiffer DEF Underway
            <3>3. RequiredVerdict'
                BY <1>1, <1>7, <2>2, <3>2, OneFileIsExact
            <3>. QED  BY <3>1, <3>3
        <2>3. CASE Transfer(a)
            <3>1. status' \in {"required", "done"} /\ callee \in Transfers
                BY <1>1, <2>3 DEF Transfer, Answer, GoOn, Stop, Transfers
            <3>2. TransferUnderway
                BY <1>1, <3>1 DEF Underway
            <3>3. /\ status' = "done" => RequiredVerdict'
                  /\ status' = "required" => TransferUnderway'
                BY <1>1, <1>7, <2>3, <3>2, TransferIsExact
            <3>. QED  BY <1>2, <3>1, <3>3, GroupsDiffer DEF Underway
        <2>4. CASE FirstToRead(a) \/ NextToRead(a) \/ FirstToWrite(a) \/ NextToWrite(a)
            <3>1. callee \in Transferring
                BY <2>4 DEF FirstToRead, NextToRead, FirstToWrite, NextToWrite, Transferring
            <3>2. TextUnderway /\ callee \notin Transfers
                BY <1>1, <3>1, GroupsDiffer DEF Underway
            <3>3. /\ status' = "done" => RequiredVerdict'
                  /\ status' = "required" => TextUnderway'
                BY <1>1, <1>7, <2>4, <3>2, ReadingIsExact, WritingIsExact
            <3>4. status' \in {"required", "done"}
                <4>1. \A places, result : Answer(a, places, result) => status' = "done"
                    BY DEF Answer, Stop
                <4>2. \A places : GoOn(a, places) => status' = "required"
                    BY <1>1 DEF GoOn
                <4>. QED  BY <2>4, <4>1, <4>2
                          DEF FirstToRead, NextToRead, FirstToWrite, NextToWrite, KeepIf, TakeFile, WriteText
            <3>. QED  BY <1>2, <3>1, <3>2, <3>3, <3>4 DEF Underway
        <2>. QED  BY <1>7, <2>1, <2>2, <2>3, <2>4 DEF Required
    <1>. QED  BY <1>5, <1>6, <1>7 DEF CallRequired

(* Nothing changes.                                                        *)
LEMMA RequiredStays ==
    ASSUME CallInv, RequiredInv, UNCHANGED <<callVars, fileVars>>
    PROVE  RequiredInv'
    <1>1. UNCHANGED <<callee, wanted, count, actuals, errors, status, files, file>>
        BY DEF callVars, fileVars
    <1>2. /\ LegalValue' <=> LegalValue
          /\ LegalFile' <=> LegalFile
          /\ \A x, y, z : LegalTransfer(x, y, z)' <=> LegalTransfer(x, y, z)
        BY <1>1 DEF LegalValue, RightKind, LegalFile, FileForms, LegalTransfer, HasDefaultFile, DefaultFile
    <1>3. /\ LegalText' <=> LegalText
          /\ LegalComponents' <=> LegalComponents
        BY <1>1 DEF LegalText, StartOfText, TextElement, HasDefaultFile, DefaultFile, LegalComponents, FileElement
    <1>4. LegalByGroup /\ LegalByGroup'
        BY LegalGroups, PTL
    <1>5. callee \in Grouped => (IsLegalRequired' <=> IsLegalRequired)
        BY <1>1, <1>2, <1>3, <1>4 DEF LegalByGroup, Grouped, Transfers, CallInv
    <1>6. (Names[callee].kind = RequiredKind => callee \in Grouped) /\ RequiredVerdict => RequiredVerdict'
        BY <1>1, <1>5 DEF RequiredVerdict, RequiredKind
    <1>7. TransferUnderway => TransferUnderway'
        BY <1>1 DEF TransferUnderway, Remaining, IsClean, Roles
    <1>8. TextUnderway => TextUnderway'
        BY <1>1 DEF TextUnderway, Element, TextElement, FileElement, IsFirstFile, FirstElement, IsFile, IsFileOf,
                    HasDefaultFile, DefaultFile
    <1>9. Underway => Underway'
        BY <1>1, <1>7, <1>8 DEF Underway
    <1>. QED  BY <1>1, <1>6, <1>9 DEF RequiredInv, RequiredKind, IsDeclared

LEMMA VerdictsAreKept == Spec => []RequiredInv
    <1>1. Init => RequiredInv
        BY DEF Init, RequiredInv
    <1>2. ASSUME TypeInv, RequiredInv, [Next]_vars
          PROVE  RequiredInv'
        <2>1. CASE LookUp
            <3>1. UNCHANGED <<callee, wanted, count, files, actuals>> /\ actuals = <<>> /\ errors = {}
                BY <1>2, <2>1 DEF LookUp, Stop, fileVars, RequiredInv
            <3>2. CASE Found = "nothing"
                <4>1. /\ status' = "done" /\ errors' # {}
                      /\ Names[callee].kind # wanted => Names[callee].kind # RequiredKind
                    BY <2>1, <3>2 DEF LookUp, Stop, Found
                <4>2. RequiredKind' = RequiredKind
                    BY <3>1 DEF RequiredKind
                <4>3. ~IsDeclared' => RequiredVerdict'
                    BY <3>1, <4>1, <4>2 DEF RequiredVerdict, IsDeclared
                <4>4. ~IsDeclared' => (Names[callee].kind # RequiredKind)'
                    BY <3>1, <4>1, <4>2 DEF IsDeclared
                <4>. QED  BY <1>2, <3>1, <4>1, <4>3, <4>4 DEF RequiredInv
            <3>3. CASE Found # "nothing"
                <4>1. status' = Found /\ errors' = errors
                    BY <2>1, <3>3 DEF LookUp
                <4>2. Found \in {"declared", "required"} /\ (Found = "required" => Names[callee].kind = RequiredKind)
                    BY <3>3 DEF Found
                <4>3. Underway'
                    <5>1. (actuals = <<>> /\ errors = {} => Underway)'
                        BY NothingIsUnderway, PTL
                    <5>. QED  BY <3>1, <4>1, <5>1
                <4>4. RequiredKind' = RequiredKind
                    BY <3>1 DEF RequiredKind
                <4>. QED  BY <1>2, <3>1, <4>1, <4>2, <4>3, <4>4 DEF RequiredInv
            <3>. QED  BY <3>2, <3>3
        <2>2. CASE CallDeclared
            <3>1. IsDeclared /\ status = "declared"
                BY <1>2, <2>2 DEF CallDeclared, TypeInv, CallInv
            <3>2. UNCHANGED <<callee, wanted, files>> /\ status' \in {"declared", "done"}
                BY <2>2, <3>1 DEF CallDeclared, fileVars, MissingParameter, FinishCall, Stop, VariableParameter,
                                  ValueParameter, SubroutineParameter, TakeNext
            <3>. QED  BY <1>2, <3>1, <3>2 DEF RequiredInv, IsDeclared
        <2>3. CASE CallRequired
            BY <1>2, <2>3, RequiredIsExact
        <2>4. CASE UNCHANGED vars
            <3>1. UNCHANGED <<callVars, fileVars>>
                BY <2>4 DEF vars
            <3>. QED  BY <1>2, <3>1, RequiredStays DEF TypeInv
        <2>. QED  BY <1>2, <2>1, <2>2, <2>3, <2>4 DEF Next, Done
    <1>. QED  BY <1>1, <1>2, TypesAreKept, PTL DEF Spec

(* For all types, names and signatures: a call is accepted if, and only    *)
(* if, it is one the language allows, whatever is called: by               *)
(* resolveActualParameters(), or by one of the resolveBuiltinCall...()     *)
(* functions.  An accepted call is part of the tree.                       *)
THEOREM CallsAreAcceptedIfLegal == Spec => []AcceptedIffLegal
    <1>1. ASSUME TypeInv, ExactInv, RequiredInv, LostOnlyAfterErrors
          PROVE  AcceptedIffLegal
        <2>1. SUFFICES ASSUME status = "done" PROVE errors = {} <=> IsLegal
            BY <1>1 DEF AcceptedIffLegal, LostOnlyAfterErrors
        <2>2. CASE IsDeclared
            BY <1>1, <2>1, <2>2 DEF ExactInv, Verdict, IsLegal, IsDeclared
        <2>3. CASE ~IsDeclared
            BY <1>1, <2>1, <2>3 DEF RequiredInv, RequiredVerdict, IsLegal, IsDeclared
        <2>. QED  BY <2>2, <2>3
    <1>. QED  BY <1>1, TypesAreKept, ErrorsAreKeptExact, VerdictsAreKept, CallsAreNotLost, PTL
===================================================================================
