------------------------------ MODULE Subroutines ------------------------------
(***************************************************************************)
(* analyzeSubroutineDeclarations() of semantics-analyze.cxx: the procedure *)
(* and function declarations of one block, among them forward declarations *)
(* and the delayed ones that complete them.                                *)
(*                                                                         *)
(* A declaration's own block is reduced to the names it defines, the calls *)
(* in it and whether it assigns to a variable with the function's name;    *)
(* these are resolved against its own parameters and what the declarations *)
(* before it have left in the enclosing block.                             *)
(***************************************************************************)
EXTENDS Headings

CONSTANTS
    Names,              \* the names the declarations of a block may have
    DeclarationParts    \* the declarations of each block, in their order

(* A call of the procedure or function x.                                  *)
Call(x, isFunction) == [name |-> x, function |-> isFunction]
Calls == [name : Identifiers, function : BOOLEAN]

Forward == [forward |-> TRUE, assigns |-> FALSE, calls |-> {}, defines |-> {}]
Blocks == [forward : {FALSE}, assigns : BOOLEAN, calls : SUBSET Calls,
           defines : SUBSET Identifiers]

(* The grammar has no function identification with a forward directive.    *)
Declaration ==
    {d \in [heading : {"function", "identification", "procedure"}, name : Names,
            list : ParameterLists, result : Identifiers \cup {None},
            body : Blocks \cup {Forward}] :
        /\ d.heading = "identification" => ~d.body.forward /\ d.list = <<>>
        /\ (d.result = None) = (d.heading # "function")
        /\ d.body.assigns => d.heading # "procedure"}

ASSUME DeclarationPartsAssumption ==
    Names \subseteq Identifiers /\ DeclarationParts \subseteq Seq(Declaration)

VARIABLES
    declarations,   \* those of the block, in the order of the text
    taken,          \* the names that the block has defined before them
    next,           \* the declaration to be analysed
    subroutines,    \* DOMAIN Block::subroutines_
    functions,      \* those of them with a result type
    parameters,     \* of each of them the list of its signature
    forward,        \* forward_declarations
    built,          \* history: the declarations whose block was built, by name
    calls,          \* the calls that could be resolved, and where they are
    errors          \* the errors reported: the code and the declaration

block == <<subroutines, functions, parameters>>
vars == <<declarations, taken, next, block, forward, built, calls, errors>>

-----------------------------------------------------------------------------

Current == declarations[next]
Name == Current.name
Analyzing == next \in DOMAIN declarations
Err(code) == [code |-> code, at |-> next]

(* Declaration i introduces a name, unless it is an identification.        *)
Introduces(i, x) ==
    declarations[i].name = x /\ declarations[i].heading # "identification"

(* Scope::dos_ has this place for x.                                       *)
IsDefiningPoint(i, x) ==
    /\ x \notin taken /\ Introduces(i, x)
    /\ \A j \in 1 .. i - 1 : ~Introduces(j, x)

Collected == {x \in Identifiers : x \in taken \/ \E i \in DOMAIN declarations : Introduces(i, x)}

(* The types defined by the block, and those it does not hide.             *)
VisibleTypes == DOMAIN TypeForms \ (Collected \ taken)

(* Nothing is resolved for these; all the others have a signature.         *)
IsDelayed ==
    \/ Current.heading = "identification"
    \/ Current.heading = "procedure" /\ Name \in forward /\ Current.list = <<>>

IsFunction == Current.heading \in {"function", "identification"}

(* resolveSignature(), before anything else is looked at.                  *)
HeadingErrors ==
    IF IsDelayed THEN {}
    ELSE {Err(code) : code \in
            SignatureErrors(Current.list, Current.result, VisibleTypes, Collected)}

Skip(code) ==
    /\ errors' = errors \cup HeadingErrors \cup {Err(code)}
    /\ next' = next + 1
    /\ UNCHANGED <<declarations, taken, block, forward, built, calls>>

(* Slip: a delayed block gets the parameters that its own heading shows.   *)
ParametersInTheText == Current.list

(* The scope of the block starts as that of the parameter list which came  *)
(* with the name, mergeFrom(), and gets what the block defines itself.     *)
Parameters == parameters'[Name]
Hidden == Collect(Parameters) \cup Current.body.defines

(* lookupSubroutineReference(), within the block and in the block at hand. *)
CallsParameter(c) == IsSubroutineParameter(Parameters, c.name, c.function)
CallsSubroutine(c) ==
    /\ c.name \notin Hidden
    /\ c.name \in subroutines' /\ c.function = (c.name \in functions')

ResolvedCalls ==
    {[at |-> next, call |-> c, parameter |-> CallsParameter(c)] :
        c \in {c \in Current.body.calls : CallsParameter(c) \/ CallsSubroutine(c)}}

CallErrors ==
    {IF c.name \in Hidden \cup Collected \cup DOMAIN TypeForms
        THEN Err("WRONG_IDENTIFIER_KIND") ELSE Err("UNDEFINED_IDENTIFIER") :
        c \in {c \in Current.body.calls : ~CallsParameter(c) /\ ~CallsSubroutine(c)}}

DuplicateErrors ==
    {Err("DUPLICATE_IDENTIFIER") : x \in Current.body.defines \cap Collect(Parameters)}

(* An assignment to something else of this name is no result.              *)
MissingResult ==
    IF Name \in functions' /\ (Name \in Hidden \/ ~Current.body.assigns)
        THEN {Err("MISSING_RESULT_ASSIGNMENT")} ELSE {}

(* buildBlock(), or a forward declaration.  The calls are resolved once    *)
(* the subroutine itself is known.                                         *)
Continue(fwd) ==
    /\ next' = next + 1
    /\ \/ /\ Current.body.forward
          /\ forward' = fwd \cup {Name}
          /\ errors' = errors \cup HeadingErrors
          /\ UNCHANGED <<built, calls>>
       \/ /\ ~Current.body.forward
          /\ forward' = fwd
          /\ built' = [built EXCEPT ![Name] = @ \cup {next}]
          /\ calls' = calls \cup ResolvedCalls
          /\ errors' = errors \cup HeadingErrors \cup DuplicateErrors \cup CallErrors
                            \cup MissingResult
    /\ UNCHANGED <<declarations, taken>>

Enter ==
    /\ subroutines' = subroutines \cup {Name}
    /\ functions' = IF IsFunction THEN functions \cup {Name} ELSE functions
    /\ parameters' = [parameters EXCEPT ![Name] = Current.list]
    /\ Continue(forward)

(* Slip: a name that the block has defined otherwise is overlooked.        *)
DeclareTaken == Analyzing /\ ~IsDelayed /\ Enter

Declare ==
    /\ Analyzing /\ ~IsDelayed
    /\ \/ ~IsDefiningPoint(next, Name) /\ Skip("DUPLICATE_IDENTIFIER")
       \/ IsDefiningPoint(next, Name) /\ Enter

(* Slip: a completed declaration remains a forward declaration.            *)
DeclareDelayedStillForward ==
    /\ Analyzing /\ IsDelayed
    /\ Name \in forward /\ (Name \in functions) = IsFunction
    /\ UNCHANGED block
    /\ Continue(forward)

DeclareDelayed ==
    /\ Analyzing /\ IsDelayed
    /\ \/ /\ Name \notin forward
          /\ \/ Name \notin subroutines /\ Skip("MISSING_FORWARD_DECLARATION")
             \/ Name \in subroutines /\ Skip("DUPLICATE_SUBROUTINE_DECLARATION")
       \/ /\ Name \in forward
          /\ (Name \in functions) # IsFunction
          /\ Skip("MISMATCHED_SUBROUTINE_DECLARATION")
       \/ /\ Name \in forward
          /\ (Name \in functions) = IsFunction
          /\ UNCHANGED block
          /\ Continue(forward \ {Name})

Last == Len(declarations)

(* Slip: what was never completed goes unnoticed.                          *)
FinishSilently ==
    /\ next = Last + 1
    /\ next' = next + 1
    /\ UNCHANGED <<declarations, taken, block, forward, built, calls, errors>>

(* The forward declarations that are left are reported where they began.   *)
Finish ==
    /\ next = Last + 1
    /\ next' = next + 1
    /\ errors' = errors \cup
          {[code |-> "MISSING_DELAYED_DECLARATION", at |-> i] :
              i \in {i \in DOMAIN declarations :
                        declarations[i].name \in forward
                        /\ IsDefiningPoint(i, declarations[i].name)}}
    /\ UNCHANGED <<declarations, taken, block, forward, built, calls>>

Analyzed == next = Last + 2
Done == Analyzed /\ UNCHANGED vars

Init ==
    /\ declarations \in DeclarationParts
    /\ taken \in SUBSET Names
    /\ next = 1
    /\ subroutines = {} /\ functions = {} /\ forward = {} /\ calls = {} /\ errors = {}
    /\ built = [x \in Names |-> {}] /\ parameters = [x \in Names |-> <<>>]

Next == Declare \/ DeclareDelayed \/ Finish \/ Done
Spec == Init /\ [][Next]_vars
=============================================================================
