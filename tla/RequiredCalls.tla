------------------------------ MODULE RequiredCalls -------------------------------
(***************************************************************************)
(* Calls of the required procedures and functions: resolveBuiltinCall...() *)
(* of semantics-analyze.cxx.  Each looks at its actual parameters in its   *)
(* own way; some go on after an error and some do not.  new and dispose    *)
(* are in VariantPart, with their case constants.                          *)
(***************************************************************************)
EXTENDS ActualParameters

CONSTANT ProgramFiles    \* which of input and output may be program parameters

VARIABLES
    files,   \* those that are
    file,    \* what is read or written: NoFile before that is known, "text",
             \* or a file type
    kept     \* how many variables or values are to be read or written

fileVars == <<files, file, kept>>

NoFile == "no_file"
Text == "text"

(* The required functions and procedures by what resolves them.            *)
AbsLike == {"abs", "arctan", "cos", "exp", "ln", "sin", "sqr", "sqrt"}
ChrLike == {"chr", "odd"}
PredLike == {"pred", "succ"}
RoundLike == {"round", "trunc"}
GetLike == {"get", "put", "reset", "rewrite"}
OneValueFunctions == AbsLike \cup ChrLike \cup {"ord"} \cup PredLike \cup RoundLike
FileFunctions == {"eof", "eoln"}
RequiredFunctions == OneValueFunctions \cup FileFunctions
RequiredProcedures ==
    GetLike \cup {"pack", "unpack", "page", "read", "readln", "write", "writeln"}

(* There is one type text, the one of the files input and output.          *)
ASSUME TextIsOneType == OfForm("text") = {Text}

IsText(t) == Form(t) = "text"
IsTypedFile(t) == Form(t) = "file"

(* The file resolveBuiltinFile() looks for, which may not be there.        *)
UsersOfDefaultFile == FileFunctions \cup {"page", "read", "readln", "write", "writeln"}
DefaultFile == IF callee \in {"page", "write", "writeln"} THEN "output" ELSE "input"
HasDefaultFile == DefaultFile \in files

(* The resolution goes on with the actual parameter after a.               *)
GoOn(a, places) ==
    /\ Read(a)
    /\ errors' = errors \cup places
    /\ UNCHANGED <<callee, wanted, count, node, status>>

Answer(a, places, result) == Read(a) /\ Stop(places, result) /\ UNCHANGED fileVars

-----------------------------------------------------------------------------
(* No actual parameters.                                                   *)

MissingFirst ==
    /\ callee \in ((RequiredFunctions \cup RequiredProcedures) \ {"eof", "eoln", "page", "readln", "writeln"})
    /\ count = 0
    /\ Stop({AtEnd}, IF callee \in ChrLike \cup {"ord"} THEN callee ELSE "fallback")
    /\ UNCHANGED <<actuals, fileVars>>

UseDefaultFile ==
    /\ callee \in {"eof", "eoln", "page", "readln", "writeln"}
    /\ count = 0
    /\ IF HasDefaultFile \/ callee \in FileFunctions
       THEN Stop(At(AtEnd, ~HasDefaultFile), callee)
       ELSE Stop({AtEnd}, "fallback")
    /\ UNCHANGED <<actuals, fileVars>>

-----------------------------------------------------------------------------
(* One actual parameter.                                                   *)

IsRightOperand(t) ==
    CASE callee \in AbsLike -> t \in {TypeInteger, TypeReal}
      [] callee \in ChrLike -> t = TypeInteger
      [] callee \in RoundLike -> t = TypeReal
      [] OTHER -> t \in TypeOrdinal

OneValue(a) ==
    /\ callee \in OneValueFunctions
    /\ Remaining > 0
    /\ Answer(a,
          At(1, ~IsRightOperand(ValueType(a)) \/ HasNoValue(a) \/ IsFormatted(a)) \cup Extraneous(2),
          callee)

IsRightFile(a) ==
    IF callee \in {"eoln", "page"} THEN IsText(VariableType(a)) ELSE VariableType(a) \in TypeFileLike

(* The functions look for further parameters also if the type is wrong.    *)
OneFile(a) ==
    /\ callee \in (FileFunctions \cup {"page"} \cup GetLike)
    /\ Remaining > 0
    /\ \/ /\ ~IsVariableAccess(a)
          /\ Answer(a, {1}, IF callee \in FileFunctions THEN callee ELSE "fallback")
       \/ /\ IsVariableAccess(a) /\ ~IsRightFile(a) /\ callee \notin FileFunctions
          /\ Answer(a, {1}, "fallback")
       \/ /\ IsVariableAccess(a) /\ (IsRightFile(a) \/ callee \in FileFunctions)
          /\ Answer(a, At(1, ~IsRightFile(a) \/ IsFormatted(a)) \cup Extraneous(2), callee)

-----------------------------------------------------------------------------
(* pack and unpack.  The first error ends the resolution.                  *)

Roles == IF callee = "pack" THEN <<"unpacked", "index", "packed">> ELSE <<"packed", "unpacked", "index">>

(* The array types read before.                                            *)
Arrays == {VariableType(actuals[i]) : i \in {j \in 1..Len(actuals) : Roles[j] # "index"}}

PlaysItsRole(a) ==
    IF Roles[Place] = "index"
    THEN \A t \in Arrays : ~Types[t].packed => AssignmentCompatible(ValueType(a), Types[t].index)
    ELSE /\ IsVariableAccess(a)
         /\ Form(VariableType(a)) = "array"
         /\ Types[VariableType(a)].packed <=> Roles[Place] = "packed"
         /\ \A t \in Arrays : Types[t].component = Types[VariableType(a)].component

Transfer(a) ==
    /\ callee \in {"pack", "unpack"}
    /\ Remaining > 0
    /\ LET wrong == At(Place, IsFormatted(a) \/ (Roles[Place] = "index" /\ HasNoValue(a)))
       IN  \/ /\ ~PlaysItsRole(a)
              /\ Answer(a, {Place}, "fallback")
           \/ /\ PlaysItsRole(a) /\ Place = 3
              /\ Answer(a, wrong \cup Extraneous(4), callee)
           \/ /\ PlaysItsRole(a) /\ Place < 3 /\ Remaining = 1
              /\ Answer(a, wrong \cup {AtEnd}, "fallback")
           \/ /\ PlaysItsRole(a) /\ Place < 3 /\ Remaining > 1
              /\ GoOn(a, wrong)
              /\ UNCHANGED fileVars

-----------------------------------------------------------------------------
(* read and readln.                                                        *)

(* checkReadParameterValidity(), after the variable has been threatened.   *)
CanBeRead(t) ==
    \/ t = TypeReal
    \/ Compatible(t, TypeChar)
    \/ Compatible(t, TypeInteger)
    \/ IsString(t)

(* A variable to read into: kept if it fits.                               *)
KeepIf(fits, a, f) ==
    /\ GoOn(a, At(Place, ~fits \/ IsFormatted(a)))
    /\ file' = f
    /\ kept' = IF fits THEN kept + 1 ELSE kept
    /\ UNCHANGED files

(* The first actual parameter is a file, or to be read from input.         *)
IsFileOf(callees, t) == IsText(t) \/ (IsTypedFile(t) /\ callee \in callees)
TakeFile(a, line) ==
    \/ /\ callee # line /\ count < 2
       /\ Answer(a, At(1, IsFormatted(a)) \cup {AtEnd}, "fallback")
    \/ /\ callee = line \/ count >= 2
       /\ GoOn(a, At(1, IsFormatted(a)))
       /\ file' = VariableType(a)
       /\ UNCHANGED <<files, kept>>

FirstToRead(a) ==
    /\ callee \in {"read", "readln"}
    /\ Place = 1
    /\ Remaining > 0
    /\ LET t == VariableType(a)
       IN  \/ /\ ~IsVariableAccess(a)
              /\ Answer(a, {1}, "fallback")
           \/ /\ IsVariableAccess(a) /\ IsFileOf({"read"}, t)
              /\ TakeFile(a, "readln")
           \/ /\ IsVariableAccess(a) /\ ~IsFileOf({"read"}, t) /\ ~HasDefaultFile
              /\ Answer(a, {1}, "fallback")
           \/ /\ IsVariableAccess(a) /\ ~IsFileOf({"read"}, t) /\ HasDefaultFile
              /\ KeepIf(CanBeRead(t), a, Text)

NextToRead(a) ==
    /\ callee \in {"read", "readln"}
    /\ Place > 1
    /\ Remaining > 0
    /\ KeepIf(/\ IsVariableAccess(a)
              /\ IF IsText(file) THEN CanBeRead(VariableType(a))
                 ELSE AssignmentCompatible(Types[file].component, VariableType(a)),
              a, file)

(* Slip: a readln of nothing but a file is given up like a read.           *)
FinishReadingSomething ==
    /\ callee \in {"read", "readln"}
    /\ Place > 1
    /\ Remaining = 0
    /\ Stop({}, IF kept = 0 THEN "fallback" ELSE callee)
    /\ UNCHANGED <<actuals, fileVars>>

FinishReading ==
    /\ callee \in {"read", "readln"}
    /\ Place > 1
    /\ Remaining = 0
    /\ Stop({}, IF callee = "read" /\ kept = 0 THEN "fallback" ELSE callee)
    /\ UNCHANGED <<actuals, fileVars>>

-----------------------------------------------------------------------------
(* write and writeln.  The first actual parameter is resolved as a value,  *)
(* with the messages held, and again as a variable if it is a file.        *)

CanBeWritten(t) == t \in {TypeInteger, TypeReal, TypeChar, TypeBoolean} \/ IsString(t)

(* Widths have to be integers, and only a real number has a second one.    *)
FormatFits(a) ==
    \/ a.format \in {"none", "width"}
    \/ a.format = "fraction" /\ ValueType(a) = TypeReal

(* finishResolvingWriteParameter(): a value of a type that can be written  *)
(* is kept, whatever its format.                                           *)
WriteText(a) ==
    LET fits == CanBeWritten(ValueType(a))
    IN  /\ GoOn(a, At(Place, HasNoValue(a) \/ ~fits \/ ~FormatFits(a)))
        /\ file' = Text
        /\ kept' = IF fits THEN kept + 1 ELSE kept
        /\ UNCHANGED files

FirstToWrite(a) ==
    /\ callee \in {"write", "writeln"}
    /\ Place = 1
    /\ Remaining > 0
    /\ LET isFile == IsFileOf({"write"}, ValueType(a))
       IN  \/ /\ isFile /\ ~IsVariableAccess(a)
              /\ Answer(a, {1}, "fallback")
           \/ /\ isFile /\ IsVariableAccess(a)
              /\ TakeFile(a, "writeln")
           \/ /\ ~isFile /\ ~HasDefaultFile
              /\ Answer(a, {1}, "fallback")
           \/ /\ ~isFile /\ HasDefaultFile
              /\ WriteText(a)

NextToWrite(a) ==
    /\ callee \in {"write", "writeln"}
    /\ Place > 1
    /\ Remaining > 0
    /\ \/ /\ IsText(file)
          /\ WriteText(a)
       \/ /\ IsTypedFile(file)
          /\ LET fits == AssignmentCompatible(ValueType(a), Types[file].component)
             IN  /\ GoOn(a, At(Place, HasNoValue(a) \/ IsFormatted(a) \/ ~fits))
                 /\ kept' = IF fits THEN kept + 1 ELSE kept
                 /\ UNCHANGED <<files, file>>

(* A writeln with actual parameters becomes a write.                       *)
FinishWriting ==
    /\ callee \in {"write", "writeln"}
    /\ Place > 1
    /\ Remaining = 0
    /\ Stop({}, IF callee = "write" /\ kept = 0 THEN "fallback" ELSE "write")
    /\ UNCHANGED <<actuals, fileVars>>

Required(a) ==
    \/ OneValue(a)
    \/ OneFile(a)
    \/ Transfer(a)
    \/ FirstToRead(a)
    \/ NextToRead(a)
    \/ FirstToWrite(a)
    \/ NextToWrite(a)
===================================================================================
