---------------------------- MODULE SubroutineProofs ---------------------------
(***************************************************************************)
(* For every set of names, all parameter lists and calls and any number of *)
(* declarations: the maps of the block stay about what was declared, every *)
(* block is built once, a block without errors is complete, and there are  *)
(* none exactly if the declarations are legal.                             *)
(***************************************************************************)
EXTENDS SubroutineRules, WellFoundedInduction, TLAPS

(* Where the analysis is, and what it reads.                               *)
Text ==
    /\ declarations \in Seq(Declaration)
    /\ taken \subseteq Names
    /\ next \in 1 .. Len(declarations) + 2
    /\ built \in [Names -> SUBSET (1 .. next - 1)]
    /\ parameters \in [Names -> ParameterLists]
    /\ \A e \in errors : e.at \in DOMAIN declarations

(* A subroutine was entered by the declaration that is its defining point. *)
Entered ==
    /\ \A x \in subroutines : x \in Names /\ \E i \in 1 .. next - 1 :
          i \in DOMAIN declarations /\ IsDefiningPoint(i, x)
    /\ functions \subseteq subroutines
    /\ \A x \in Names \ subroutines : built[x] = {}

(* What could be resolved stays right; without errors, all of it could be. *)
Resolved ==
    /\ \A r \in calls :
          r.parameter \/ (r.call.name \in subroutines /\ r.call.function = (r.call.name \in functions))
    /\ errors = {} =>
          \A i \in 1 .. next - 1 : i \in DOMAIN declarations =>
              \A c \in declarations[i].body.calls : \E r \in calls : r.at = i /\ r.call = c

Completed == Analyzed /\ errors = {} => forward = {}

Inv == Text /\ Entered /\ BuiltOnce /\ Resolved /\ Completed

-----------------------------------------------------------------------------

LEMMA InitInv == Init => Inv
<1> SUFFICES ASSUME Init PROVE Inv
    OBVIOUS
<1>1. declarations \in Seq(Declaration)
    BY DeclarationPartsAssumption DEF Init
<1>2. Len(declarations) \in Nat
    BY <1>1
<1>3. Text
    BY <1>1, <1>2, ListsAssumption DEF Init, Text
<1>4. Entered /\ BuiltOnce
    BY DEF Init, Entered, BuiltOnce
<1>5. Resolved
    BY DEF Init, Resolved
<1>6. Completed
    BY DEF Init, Completed
<1> QED
    BY <1>3, <1>4, <1>5, <1>6 DEF Inv

(* The text does not change.                                               *)
LEMMA SamePoints ==
    ASSUME declarations' = declarations, taken' = taken
    PROVE  \A i, x : IsDefiningPoint(i, x)' = IsDefiningPoint(i, x)
BY DEF IsDefiningPoint, Introduces

(* What all the steps of the analysis have in common.                      *)
LEMMA CurrentDeclaration ==
    ASSUME Inv, Analyzing
    PROVE  /\ next \in Nat /\ next \in 1 .. Len(declarations) /\ Len(declarations) \in Nat
           /\ DOMAIN declarations = 1 .. Len(declarations)
           /\ Current \in Declaration /\ Name \in Names /\ Current.list \in ParameterLists
           /\ Current.body \in Blocks \cup {Forward}
           /\ next + 1 \in 1 .. Len(declarations) + 2
<1>1. declarations \in Seq(Declaration) /\ next \in DOMAIN declarations
    BY DEF Inv, Text, Analyzing
<1>2. Len(declarations) \in Nat /\ DOMAIN declarations = 1 .. Len(declarations)
    BY <1>1
<1>3. Current \in Declaration
    BY <1>1, <1>2 DEF Current
<1>4. Name \in Names /\ Current.body \in Blocks \cup {Forward} /\ Current.list \in ParameterLists
    BY <1>3 DEF Name, Declaration
<1> QED
    BY <1>1, <1>2, <1>3, <1>4

(* A declaration that is skipped leaves an error behind.                   *)
LEMMA SkipInv ==
    ASSUME Inv, Analyzing, NEW code, Skip(code)
    PROVE  Inv'
<1>1. next' = next + 1 /\ Err(code) \in errors'
    BY DEF Skip
<1>2. Text'
    <2>1. \A e \in errors' : e.at \in DOMAIN declarations
        BY DEF Skip, block, Err, HeadingErrors, Inv, Text, Analyzing
    <2>2. built \in [Names -> SUBSET (1 .. (next + 1) - 1)]
        <3>1. 1 .. next - 1 \subseteq 1 .. (next + 1) - 1
            BY CurrentDeclaration
        <3> QED
            BY <3>1 DEF Inv, Text
    <2> QED
        BY <1>1, <2>1, <2>2, CurrentDeclaration DEF Skip, block, Inv, Text
<1>3. Entered'
    <2>1. ASSUME NEW x \in subroutines, NEW i \in 1 .. next - 1
          PROVE  i \in 1 .. next' - 1
        BY <1>1, CurrentDeclaration
    <2>2. declarations' = declarations /\ taken' = taken /\ subroutines' = subroutines
          /\ functions' = functions /\ built' = built
        BY DEF Skip, block
    <2> QED
        BY <2>1, <2>2, SamePoints DEF Inv, Entered
<1>4. BuiltOnce'
    BY DEF Skip, block, Inv, BuiltOnce
<1>5. Resolved'
    BY <1>1 DEF Skip, block, Inv, Resolved
<1>6. Completed'
    BY <1>1 DEF Completed
<1> QED
    BY <1>2, <1>3, <1>4, <1>5, <1>6 DEF Inv

(* The declaration at hand stands before the next one.                     *)
LEMMA NextRange ==
    ASSUME Inv, Analyzing
    PROVE  /\ 1 .. next - 1 \subseteq 1 .. (next + 1) - 1
           /\ next \in 1 .. (next + 1) - 1
           /\ \A i \in 1 .. (next + 1) - 1 : i = next \/ i \in 1 .. next - 1
           /\ built \in [Names -> SUBSET (1 .. (next + 1) - 1)]
           /\ built[Name] \subseteq 1 .. next - 1
BY CurrentDeclaration DEF Inv, Text

(* A declaration that goes on with its own block, or is a forward one:     *)
(* it is a new subroutine, or one that was waiting for its block.          *)
LEMMA ContinueInv ==
    ASSUME Inv, Analyzing, NEW fwd,
           Continue(fwd),
           fwd = forward \ {Name},
           parameters' \in [Names -> ParameterLists],
           subroutines' = subroutines \cup {Name},
           functions' \subseteq subroutines',
           Name \in subroutines => Name \in forward /\ functions' = functions,
           Name \notin subroutines => IsDefiningPoint(next, Name),
           \A x \in subroutines : (x \in functions') = (x \in functions)
    PROVE  Inv'
<1>0. ASSUME NEW r \in calls
      PROVE  r.parameter \/ (r.call.name \in subroutines'
                            /\ r.call.function = (r.call.name \in functions'))
    <2>1. CASE r.parameter
        BY <2>1
    <2>2. CASE ~r.parameter
        <3>1. r.call.name \in subroutines /\ r.call.function = (r.call.name \in functions)
            BY <2>2 DEF Inv, Resolved
        <3>2. (r.call.name \in functions') = (r.call.name \in functions)
            BY <3>1
        <3> QED
            BY <3>1, <3>2
    <2> QED
        BY <2>1, <2>2
<1>1. next' = next + 1 /\ declarations' = declarations /\ taken' = taken
    BY DEF Continue
<1>2. built[Name] = {}
    BY CurrentDeclaration DEF Inv, BuiltOnce, Entered, Text
<1>3. Entered'
    <2>1. ASSUME NEW x \in subroutines'
          PROVE  x \in Names /\ \E i \in 1 .. next' - 1 :
                     i \in DOMAIN declarations' /\ IsDefiningPoint(i, x)'
        <3>1. CASE x \in subroutines
            <4>1. PICK i \in 1 .. next - 1 : i \in DOMAIN declarations /\ IsDefiningPoint(i, x)
                BY <3>1 DEF Inv, Entered
            <4>2. i \in 1 .. next' - 1
                BY <1>1, NextRange
            <4>3. IsDefiningPoint(i, x)'
                BY <1>1, <4>1, SamePoints
            <4> QED
                BY <1>1, <3>1, <4>1, <4>2, <4>3 DEF Inv, Entered
        <3>2. CASE x \notin subroutines
            <4>1. x = Name /\ IsDefiningPoint(next, x)
                BY <2>1, <3>2
            <4> QED
                BY <1>1, <4>1, SamePoints, CurrentDeclaration, NextRange
        <3> QED
            BY <3>1, <3>2
    <2>2. \A x \in Names \ subroutines' : built'[x] = {}
        BY CurrentDeclaration DEF Continue, Inv, Entered, Text
    <2> QED
        BY <2>1, <2>2 DEF Entered
<1>4. Completed'
    BY <1>1, CurrentDeclaration DEF Completed, Analyzed, Last
<1>5. CASE Current.body.forward
    <2>1. forward' = fwd \cup {Name} /\ built' = built /\ calls' = calls
          /\ errors' = errors \cup HeadingErrors
        BY <1>5, CurrentDeclaration DEF Continue
    <2>2. Current.body.calls = {}
        <3>1. \A b \in Blocks : ~b.forward
            BY DEF Blocks
        <3>2. Current.body = Forward
            BY <1>5, <3>1, CurrentDeclaration
        <3> QED
            BY <3>2 DEF Forward
    <2>3. Text'
        <3>1. \A e \in errors' : e.at \in DOMAIN declarations'
            BY <1>1, <2>1, CurrentDeclaration DEF Inv, Text, HeadingErrors, Err
        <3> QED
            BY <1>1, <2>1, <3>1, CurrentDeclaration, NextRange DEF Inv, Text
    <2>4. BuiltOnce'
        BY <1>1, <1>2, <2>1 DEF Inv, BuiltOnce
    <2>5. Resolved'
        <3>1. errors' = {} => errors = {}
            BY <2>1
        <3>2. \A r \in calls' :
                 r.parameter \/ (r.call.name \in subroutines'
                                /\ r.call.function = (r.call.name \in functions'))
            BY <1>0, <2>1
        <3>3. ASSUME errors' = {}, NEW i \in 1 .. next' - 1, i \in DOMAIN declarations',
                     NEW c \in declarations'[i].body.calls
              PROVE  \E r \in calls' : r.at = i /\ r.call = c
            BY <1>1, <2>1, <2>2, <3>1, <3>3, NextRange DEF Inv, Resolved, Current
        <3> QED
            BY <3>2, <3>3 DEF Resolved
    <2> QED
        BY <1>3, <1>4, <2>3, <2>4, <2>5 DEF Inv
<1>6. CASE ~Current.body.forward
    <2>1. /\ forward' = fwd /\ calls' = calls \cup ResolvedCalls
          /\ built' = [built EXCEPT ![Name] = @ \cup {next}]
          /\ errors' = errors \cup HeadingErrors \cup DuplicateErrors \cup CallErrors
                         \cup MissingResult
        BY <1>6 DEF Continue
    <2>2. Text'
        <3>1. \A e \in HeadingErrors \cup DuplicateErrors \cup CallErrors \cup MissingResult : e.at = next
            BY DEF HeadingErrors, DuplicateErrors, CallErrors, MissingResult, Err
        <3>2. \A e \in errors' : e.at \in DOMAIN declarations'
            BY <1>1, <2>1, <3>1, CurrentDeclaration DEF Inv, Text
        <3>3. built' \in [Names -> SUBSET (1 .. next' - 1)]
            BY <1>1, <2>1, CurrentDeclaration, NextRange
        <3> QED
            BY <1>1, <3>2, <3>3, CurrentDeclaration DEF Inv, Text
    <2>3. BuiltOnce'
        <3>1. built'[Name] = {next}
            BY <1>2, <2>1, CurrentDeclaration DEF Inv, Text
        <3>2. \A x \in Names : x # Name => built'[x] = built[x]
            BY <2>1 DEF Inv, Text
        <3>3. \A x \in Names : \A i, j \in built'[x] : i = j
            BY <3>1, <3>2 DEF Inv, BuiltOnce
        <3>4. forward' = {x \in subroutines' : built'[x] = {}}
            <4>1. \A x \in forward' : x \in subroutines' /\ built'[x] = {}
                BY <2>1, <3>2 DEF Inv, BuiltOnce, Entered
            <4>2. \A x \in subroutines' : built'[x] = {} => x \in forward'
                BY <2>1, <3>1, <3>2 DEF Inv, BuiltOnce, Entered
            <4> QED
                BY <4>1, <4>2
        <3> QED
            BY <3>3, <3>4 DEF BuiltOnce
    <2>4. Resolved'
        <3>1. \A r \in calls' :
                 r.parameter \/ (r.call.name \in subroutines'
                                /\ r.call.function = (r.call.name \in functions'))
            <4>1. \A r \in calls : r.parameter \/ (r.call.name \in subroutines'
                                /\ r.call.function = (r.call.name \in functions'))
                BY <1>0
            <4>2. \A r \in ResolvedCalls : r.parameter \/ (r.call.name \in subroutines'
                                /\ r.call.function = (r.call.name \in functions'))
                <5> SUFFICES ASSUME NEW c \in Current.body.calls,
                                    CallsParameter(c) \/ CallsSubroutine(c), ~CallsParameter(c)
                             PROVE  c.name \in subroutines' /\ c.function = (c.name \in functions')
                    BY DEF ResolvedCalls
                <5> QED
                    BY DEF CallsSubroutine
            <4> QED
                BY <2>1, <4>1, <4>2
        <3>2. ASSUME errors' = {}, NEW c \in Current.body.calls
              PROVE  \E r \in calls' : r.at = next /\ r.call = c
            <4>1. CallErrors = {}
                BY <2>1, <3>2
            <4>2. CallsParameter(c) \/ CallsSubroutine(c)
                BY <3>2, <4>1 DEF CallErrors
            <4>3. [at |-> next, call |-> c, parameter |-> CallsParameter(c)] \in ResolvedCalls
                BY <3>2, <4>2 DEF ResolvedCalls
            <4> QED
                BY <2>1, <4>3
        <3>3. ASSUME errors' = {}, NEW i \in 1 .. next' - 1, i \in DOMAIN declarations',
                     NEW c \in declarations'[i].body.calls
              PROVE  \E r \in calls' : r.at = i /\ r.call = c
            BY <1>1, <2>1, <3>2, <3>3, NextRange DEF Inv, Resolved, Current
        <3> QED
            BY <3>1, <3>3 DEF Resolved
    <2> QED
        BY <1>3, <1>4, <2>2, <2>3, <2>4 DEF Inv
<1> QED
    BY <1>5, <1>6

-----------------------------------------------------------------------------

LEMMA DeclareInv ==
    ASSUME Inv, Declare
    PROVE  Inv'
<1>1. Analyzing
    BY DEF Declare
<1>2. CASE Skip("DUPLICATE_IDENTIFIER")
    BY <1>1, <1>2, SkipInv
<1>3. CASE /\ IsDefiningPoint(next, Name)
           /\ subroutines' = subroutines \cup {Name}
           /\ functions' = IF IsFunction THEN functions \cup {Name} ELSE functions
           /\ parameters' = [parameters EXCEPT ![Name] = Current.list]
           /\ Continue(forward)
    (* Nothing before this declaration can have entered the name.          *)
    <2>1. Name \notin subroutines
        BY <1>1, <1>3, CurrentDeclaration DEF Inv, Entered, IsDefiningPoint
    <2>2. forward = forward \ {Name}
        BY <2>1 DEF Inv, BuiltOnce
    <2>3. functions' \subseteq subroutines'
          /\ \A x \in subroutines : (x \in functions') = (x \in functions)
        BY <1>3, <2>1 DEF Inv, Entered
    <2>4. parameters' \in [Names -> ParameterLists]
        BY <1>1, <1>3, CurrentDeclaration DEF Inv, Text
    <2> QED
        BY <1>1, <1>3, <2>1, <2>2, <2>3, <2>4, ContinueInv
<1> QED
    BY <1>2, <1>3 DEF Declare, Enter

LEMMA DeclareDelayedInv ==
    ASSUME Inv, DeclareDelayed
    PROVE  Inv'
<1>1. Analyzing
    BY DEF DeclareDelayed
<1>2. ASSUME NEW code, Skip(code)
      PROVE  Inv'
    BY <1>1, <1>2, SkipInv
<1>3. CASE /\ Name \in forward
           /\ UNCHANGED block
           /\ Continue(forward \ {Name})
    <2>1. Name \in subroutines
        BY <1>3 DEF Inv, BuiltOnce
    <2>2. subroutines' = subroutines \cup {Name} /\ functions' = functions
          /\ functions' \subseteq subroutines' /\ parameters' \in [Names -> ParameterLists]
        BY <1>3, <2>1 DEF block, Inv, Entered, Text
    <2> QED
        BY <1>1, <1>3, <2>1, <2>2, ContinueInv
<1> QED
    BY <1>2, <1>3 DEF DeclareDelayed

(* A forward declaration that is left has its defining point reported.     *)
LEMMA FinishInv ==
    ASSUME Inv, Finish
    PROVE  Inv'
<1>1. next = Len(declarations) + 1 /\ next' = next + 1 /\ Len(declarations) \in Nat
      /\ DOMAIN declarations = 1 .. Len(declarations)
    BY DEF Inv, Text, Finish, Last
<1>2. UNCHANGED <<declarations, taken, subroutines, functions, parameters, forward, built, calls>>
    BY DEF Finish, block
<1>3. Text'
    <2>1. \A e \in errors' : e.at \in DOMAIN declarations
        BY DEF Finish, Inv, Text
    <2>2. built \in [Names -> SUBSET (1 .. next' - 1)]
        <3>1. 1 .. next - 1 \subseteq 1 .. next' - 1
            BY <1>1
        <3> QED
            BY <3>1 DEF Inv, Text
    <2> QED
        BY <1>1, <1>2, <2>1, <2>2 DEF Inv, Text
<1>4. Entered'
    <2>1. ASSUME NEW x \in subroutines, NEW i \in 1 .. next - 1
          PROVE  i \in 1 .. next' - 1
        BY <1>1
    <2> QED
        BY <1>2, <2>1, SamePoints DEF Inv, Entered
<1>5. BuiltOnce'
    BY <1>2 DEF block, Inv, BuiltOnce
<1>6. Resolved'
    <2>1. errors' = {} => errors = {}
        BY DEF Finish
    <2>2. \A i \in 1 .. next' - 1 : i \in DOMAIN declarations => i \in 1 .. next - 1
        BY <1>1
    <2> QED
        BY <1>2, <2>1, <2>2 DEF Inv, Resolved
<1>7. Completed'
    <2>1. ASSUME NEW x \in forward
          PROVE  errors' # {}
        <3>1. PICK i \in DOMAIN declarations : IsDefiningPoint(i, x)
            BY <2>1 DEF Inv, Entered, BuiltOnce
        <3>2. declarations[i].name = x
            BY <3>1 DEF IsDefiningPoint, Introduces
        <3>3. [code |-> "MISSING_DELAYED_DECLARATION", at |-> i] \in errors'
            BY <2>1, <3>1, <3>2 DEF Finish
        <3> QED
            BY <3>3
    <2> QED
        BY <1>2, <2>1 DEF Completed
<1> QED
    BY <1>3, <1>4, <1>5, <1>6, <1>7 DEF Inv

(* Whatever is declared, delayed or forgotten, analyzeSubroutineDeclarations*)
(* keeps its maps and the blocks it builds in step: the five parts of Inv  *)
(* hold together, and the theorems below follow from them.                 *)
THEOREM SubroutinesInvariant == Spec => []Inv
<1>1. Inv /\ [Next]_vars => Inv'
    <2> SUFFICES ASSUME Inv, [Next]_vars PROVE Inv'
        OBVIOUS
    <2>1. CASE Declare
        BY <2>1, DeclareInv
    <2>2. CASE DeclareDelayed
        BY <2>2, DeclareDelayedInv
    <2>3. CASE Finish
        BY <2>3, FinishInv
    <2>4. CASE UNCHANGED vars
        <3>1. Text' /\ BuiltOnce'
            BY <2>4 DEF vars, block, Inv, Text, BuiltOnce
        <3>2. Entered'
            BY <2>4, SamePoints DEF vars, block, Inv, Entered
        <3>3. Resolved' /\ Completed'
            BY <2>4 DEF vars, block, Inv, Resolved, Completed, Analyzed, Last
        <3> QED
            BY <3>1, <3>2, <3>3 DEF Inv
    <2> QED
        BY <2>1, <2>2, <2>3, <2>4 DEF Next, Done
<1> QED
    BY <1>1, InitInv, PTL DEF Spec

(* The maps of the block are about names that the declarations seen so far *)
(* have introduced (analyzeSubroutineDeclarations, checkDuplicateIdentifier).*)
THEOREM SubroutinesTypeCorrect == Spec => []TypeOK
<1>1. Inv => TypeOK
    BY DEF Inv, Text, Entered, TypeOK, IsDefiningPoint
<1> QED
    BY <1>1, SubroutinesInvariant, PTL

(* buildBlock() is called once for a block at most, and never for one that *)
(* is not waiting for it.                                                  *)
THEOREM SubroutinesBuiltOnce == Spec => []BuiltOnce
<1>1. Inv => BuiltOnce
    BY DEF Inv
<1> QED
    BY <1>1, SubroutinesInvariant, PTL

(* Without errors, every subroutine has its block when the declarations    *)
(* end, and every call that was resolved on the way leads to one of them.  *)
THEOREM SubroutinesCallsAreComplete == Spec => []CallsAreComplete
<1>1. Inv => CallsAreComplete
    <2> SUFFICES ASSUME Inv, Analyzed, errors = {} PROVE
            /\ \A x \in subroutines : built[x] # {}
            /\ \A i \in DOMAIN declarations : \A c \in declarations[i].body.calls :
                  \E r \in calls :
                      /\ r.at = i /\ r.call = c
                      /\ \/ r.parameter
                         \/ c.name \in subroutines /\ c.function = (c.name \in functions)
        BY DEF CallsAreComplete
    <2>1. forward = {}
        BY DEF Inv, Completed
    <2>2. \A x \in subroutines : built[x] # {}
        BY <2>1 DEF Inv, BuiltOnce
    <2>3. \A i \in DOMAIN declarations : i \in 1 .. next - 1
        BY DEF Inv, Text, Analyzed, Last
    <2> QED
        BY <2>2, <2>3 DEF Inv, Resolved
<1> QED
    BY <1>1, SubroutinesInvariant, PTL

-----------------------------------------------------------------------------
(* Lists of parameters, and the lists of the headings in them.             *)

Sublists(l) == {l[k].list : k \in {k \in DOMAIN l : IsHeading(l[k])}}

LEMMA ListFacts ==
    ASSUME NEW l \in ParameterLists
    PROVE  /\ l \in Seq(Section) /\ Len(l) \in Nat /\ DOMAIN l = 1 .. Len(l)
           /\ \A k \in DOMAIN l : l[k] \in Section /\ l[k].list \in ParameterLists
           /\ Nesting[l] \in Nat /\ Sublists(l) \subseteq ParameterLists
           /\ \A s \in Sublists(l) : Nesting[s] < Nesting[l]
<1>1. l \in Seq(Section) /\ Len(l) \in Nat /\ DOMAIN l = 1 .. Len(l)
    BY ListsAssumption
<1>2. \A k \in DOMAIN l : l[k] \in Section
    BY <1>1
<1>3. \A s \in Section : s.list \in ParameterLists
    BY DEF Section
<1> QED
    BY <1>1, <1>2, <1>3, NestingAssumption DEF Sublists

LEMMA Minimum ==
    ASSUME NEW T, T \subseteq Nat, T # {}
    PROVE  \E n \in T : \A m \in T : n <= m
<1> DEFINE R == OpToRel(<, Nat)
<1>1. IsWellFoundedOn(R, Nat)
    BY NatLessThanWellFounded
<1>2. PICK x \in T : \A y \in T : ~(<<y, x>> \in R)
    BY <1>1, WFMin
<1>3. \A a, b \in Nat : <<a, b>> \in R <=> a < b
    BY DEF OpToRel
<1> HIDE DEF R
<1>4. ASSUME NEW m \in T PROVE x <= m
    <2>1. ~(<<m, x>> \in R) /\ m \in Nat /\ x \in Nat
        BY <1>2
    <2>2. ~(m < x)
        BY <1>3, <2>1
    <2> QED
        BY <2>1, <2>2
<1> QED
    BY <1>4

(* What is true of a list if it is of those in it is true of all lists.    *)
LEMMA ListInduction ==
    ASSUME NEW P, \A l \in ParameterLists : (\A s \in Sublists(l) : s \in P) => l \in P
    PROVE  ParameterLists \subseteq P
<1> DEFINE T == {Nesting[l] : l \in ParameterLists \ P}
<1> SUFFICES ASSUME ~(ParameterLists \subseteq P) PROVE FALSE
    OBVIOUS
<1>1. T \subseteq Nat /\ T # {}
    <2>1. \A l \in ParameterLists : Nesting[l] \in Nat
        BY ListFacts
    <2> QED
        BY <2>1
<1> HIDE DEF T
<1>2. PICK n \in T : \A m \in T : n <= m
    BY <1>1, Minimum
<1> USE DEF T
<1>3. PICK l \in ParameterLists \ P : n = Nesting[l]
    BY <1>2
<1>4. PICK s \in Sublists(l) : s \notin P
    BY <1>3
<1>5. s \in ParameterLists /\ Nesting[s] < Nesting[l] /\ Nesting[s] \in Nat /\ Nesting[l] \in Nat
    BY <1>3, <1>4, ListFacts
<1>6. Nesting[s] \in T
    BY <1>4, <1>5
<1> HIDE DEF T
<1>7. Nesting[l] <= Nesting[s]
    BY <1>2, <1>3, <1>6
<1> QED
    BY <1>5, <1>7

(* A function of lists may be told from what it is of the lists in a list. *)
Causal(V, step) ==
    \A l \in ParameterLists : \A g \in [ParameterLists -> V] :
        /\ step[l][g] \in V
        /\ \A h \in [ParameterLists -> V] :
              (\A s \in Sublists(l) : g[s] = h[s]) => step[l][g] = step[l][h]
Told(V, step, n, f) ==
    /\ f \in [ParameterLists -> V]
    /\ \A l \in ParameterLists : Nesting[l] < n => f[l] = step[l][f]

LEMMA ToldAlike ==
    ASSUME NEW V, NEW step, Causal(V, step),
           NEW n \in Nat, NEW f, NEW g, Told(V, step, n, f), Told(V, step, n, g)
    PROVE  \A l \in ParameterLists : Nesting[l] < n => f[l] = g[l]
<1> DEFINE P == {l \in ParameterLists : Nesting[l] < n => f[l] = g[l]}
<1>1. ASSUME NEW l \in ParameterLists, \A s \in Sublists(l) : s \in P
      PROVE  l \in P
    <2>1. ASSUME Nesting[l] < n PROVE f[l] = g[l]
        <3>1. ASSUME NEW s \in Sublists(l) PROVE f[s] = g[s]
            <4>1. s \in P /\ s \in ParameterLists
                BY <1>1
            <4>2. Nesting[s] < Nesting[l] /\ Nesting[l] \in Nat /\ Nesting[s] \in Nat
                BY <4>1, ListFacts
            <4>3. Nesting[s] < n
                BY <2>1, <4>2
            <4> QED
                BY <4>1, <4>3
        <3>2. step[l][f] = step[l][g]
            BY <3>1 DEF Told, Causal
        <3> QED
            BY <2>1, <3>2 DEF Told
    <2> QED
        BY <2>1
<1> HIDE DEF P
<1>2. ParameterLists \subseteq P
    BY <1>1, ListInduction
<1> QED
    BY <1>2 DEF P

LEMMA ToldSoFar ==
    ASSUME NEW V, NEW v \in V, NEW step, Causal(V, step)
    PROVE  \A n \in Nat : \E f : Told(V, step, n, f)
<1> DEFINE T == {n \in Nat : ~ \E f : Told(V, step, n, f)}
<1> SUFFICES ASSUME T # {} PROVE FALSE
    OBVIOUS
<1>1. PICK n \in T : \A m \in T : n <= m
    <2>1. T \subseteq Nat
        OBVIOUS
    <2> HIDE DEF T
    <2> QED
        BY <2>1, Minimum
<1>2. n # 0
    <2>1. Told(V, step, 0, [l \in ParameterLists |-> v])
        BY ListFacts DEF Told
    <2> QED
        BY <2>1
<1>3. n \in Nat /\ n - 1 \in Nat /\ ~(n <= n - 1)
    BY <1>2
<1>4. PICK f : Told(V, step, n - 1, f)
    BY <1>1, <1>3
<1> DEFINE g == [l \in ParameterLists |-> step[l][f]]
<1>5. f \in [ParameterLists -> V] /\ g \in [ParameterLists -> V]
    BY <1>4 DEF Told, Causal
<1>6. ASSUME NEW l \in ParameterLists, Nesting[l] < n
      PROVE  g[l] = step[l][g]
    <2>1. ASSUME NEW s \in Sublists(l) PROVE f[s] = g[s]
        <3>1. s \in ParameterLists /\ Nesting[s] < Nesting[l] /\ Nesting[l] \in Nat /\ Nesting[s] \in Nat
            BY ListFacts
        <3>2. Nesting[s] < n - 1
            BY <1>3, <1>6, <3>1
        <3> QED
            BY <1>4, <3>1, <3>2 DEF Told
    <2> HIDE DEF g
    <2>2. step[l][f] = step[l][g]
        BY <1>5, <2>1 DEF Causal
    <2> QED
        BY <2>2 DEF g
<1> HIDE DEF g
<1>7. Told(V, step, n, g)
    BY <1>5, <1>6 DEF Told
<1> QED
    BY <1>7

LEMMA ListRecursion ==
    ASSUME NEW V, NEW v \in V, NEW step, Causal(V, step)
    PROVE  \E f \in [ParameterLists -> V] : \A l \in ParameterLists : f[l] = step[l][f]
<1> DEFINE upto(n) == CHOOSE f : Told(V, step, n, f)
           f == [l \in ParameterLists |-> upto(Nesting[l] + 1)[l]]
<1>1. ASSUME NEW n \in Nat PROVE Told(V, step, n, upto(n))
    BY ToldSoFar
<1> HIDE DEF upto
<1>2. ASSUME NEW l \in ParameterLists
      PROVE  /\ Nesting[l] \in Nat /\ Nesting[l] + 1 \in Nat /\ Nesting[l] < Nesting[l] + 1
             /\ Told(V, step, Nesting[l] + 1, upto(Nesting[l] + 1))
    BY <1>1, ListFacts
<1>3. f \in [ParameterLists -> V]
    BY <1>2 DEF Told
<1>4. ASSUME NEW l \in ParameterLists PROVE f[l] = step[l][f]
    <2> DEFINE g == upto(Nesting[l] + 1)
    <2>1. f[l] = g[l] /\ g[l] = step[l][g] /\ g \in [ParameterLists -> V]
        BY <1>2 DEF Told
    <2>2. ASSUME NEW s \in Sublists(l) PROVE f[s] = g[s]
        <3> DEFINE h == upto(Nesting[s] + 1)
        <3>1. s \in ParameterLists /\ Nesting[s] < Nesting[l] /\ Nesting[l] \in Nat /\ Nesting[s] \in Nat
            BY ListFacts
        <3>2. f[s] = h[s]
            BY <3>1
        <3>3. Told(V, step, Nesting[s] + 1, h) /\ Told(V, step, Nesting[l] + 1, g)
            BY <1>2, <3>1
        <3> HIDE DEF f, g, h
        <3>4. Told(V, step, Nesting[s] + 1, g)
            <4>1. \A m \in ParameterLists : Nesting[m] < Nesting[s] + 1 => Nesting[m] < Nesting[l] + 1
                BY <3>1, ListFacts
            <4> QED
                BY <3>3, <4>1 DEF Told
        <3>5. Nesting[s] + 1 \in Nat /\ Nesting[s] < Nesting[s] + 1
            BY <3>1
        <3> QED
            BY <3>1, <3>2, <3>3, <3>4, <3>5, ToldAlike
    <2> HIDE DEF f, g
    <2>3. step[l][f] = step[l][g]
        BY <1>3, <2>1, <2>2 DEF Causal
    <2> QED
        BY <2>1, <2>3
<1> HIDE DEF f
<1> QED
    BY <1>3, <1>4

(* What a section defines: its names and two bounds for each index type.   *)
LEMMA SectionFacts ==
    ASSUME NEW s \in Section
    PROVE  /\ s.names \in Seq(Identifiers) /\ Len(s.names) \in Nat /\ s.names # <<>>
           /\ DOMAIN s.names = 1 .. Len(s.names)
           /\ s.indexes \in Seq(IndexTypes) /\ Len(s.indexes) \in Nat
           /\ DOMAIN s.indexes = 1 .. Len(s.indexes)
           /\ Defines(s) \in Seq(Identifiers)
           /\ DOMAIN Defines(s) = 1 .. Len(s.names) + 2 * Len(s.indexes)
           /\ \A j \in DOMAIN s.names : j \in DOMAIN Defines(s) /\ Defines(s)[j] = s.names[j]
<1>1. s.names \in Seq(Identifiers) /\ s.indexes \in Seq(IndexTypes) /\ s.names # <<>>
    BY DEF Section
<1>2. /\ Len(s.names) \in Nat /\ DOMAIN s.names = 1 .. Len(s.names)
      /\ Len(s.indexes) \in Nat /\ DOMAIN s.indexes = 1 .. Len(s.indexes)
    BY <1>1
<1>3. Bounds(s) \in [1 .. 2 * Len(s.indexes) -> Identifiers]
    <2>1. ASSUME NEW b \in 1 .. 2 * Len(s.indexes) PROVE s.indexes[(b + 1) \div 2] \in IndexTypes
        <3>1. (b + 1) \div 2 \in 1 .. Len(s.indexes)
            BY <1>2
        <3> QED
            BY <1>1, <1>2, <3>1
    <2>2. \A spec \in IndexTypes : spec.low \in Identifiers /\ spec.high \in Identifiers
        BY DEF IndexTypes
    <2> QED
        BY <2>1, <2>2 DEF Bounds
<1> DEFINE b == Bounds(s)
           m == 2 * Len(s.indexes)
<1> HIDE DEF b
<1>4. m \in Nat
    BY <1>2
<1>5. b \in Seq(Identifiers) /\ Len(b) = m
    <2> HIDE DEF m
    <2>1. b \in [1 .. m -> Identifiers]
        BY <1>3 DEF b, m
    <2>2. b \in Seq(Identifiers)
        BY <1>4, <2>1
    <2> QED
        BY <1>4, <2>1, <2>2
<1> HIDE DEF m
<1>6. Defines(s) = s.names \o b
    BY DEF Defines, b
<1>7. s.names \o b \in Seq(Identifiers) /\ Len(s.names \o b) = Len(s.names) + m
    BY <1>1, <1>5
<1>8. DOMAIN (s.names \o b) = 1 .. Len(s.names) + m
    BY <1>7
<1>9. \A j \in DOMAIN s.names : j \in 1 .. Len(s.names) + m /\ (s.names \o b)[j] = s.names[j]
    BY <1>1, <1>2, <1>4, <1>5
<1> QED
    BY <1>1, <1>2, <1>6, <1>7, <1>8, <1>9 DEF m

LEMMA CollectedNames ==
    ASSUME NEW l \in ParameterLists
    PROVE  Collect(l) \subseteq Identifiers
<1>1. ASSUME NEW k \in DOMAIN l, NEW j \in DOMAIN Defines(l[k])
      PROVE  Defines(l[k])[j] \in Identifiers
    <2>1. Defines(l[k]) \in Seq(Identifiers)
        BY ListFacts, SectionFacts
    <2> QED
        BY <2>1
<1> QED
    BY <1>1 DEF Collect

ResolvedWith(g, l) ==
    [around \in SUBSET Identifiers |->
        LET hidden == around \cup Collect(l)
        IN  {[list |-> l, hidden |-> hidden]}
            \cup UNION {g[l[k].list][hidden] : k \in {k \in DOMAIN l : IsHeading(l[k]) /\ HasName(l, k)}}]
LegalWith(g, l) ==
    [around \in SUBSET Identifiers |->
        LET regions == around \cup Collect(l)
        IN  /\ NamesDiffer(l)
            /\ \A k \in DOMAIN l :
                  TypesAreRight(l[k], regions) /\ (IsHeading(l[k]) => g[l[k].list][regions])]

LEMMA ResolvedUnfold ==
    ASSUME NEW l \in ParameterLists
    PROVE  ResolvedLists[l] = ResolvedWith(ResolvedLists, l)
<1> DEFINE R == [list : ParameterLists, hidden : SUBSET Identifiers]
           V == [SUBSET Identifiers -> SUBSET R]
           G == [ParameterLists -> V]
           step == [m \in ParameterLists |-> [g \in G |-> ResolvedWith(g, m)]]
           Good(f) == f = [m \in ParameterLists |-> ResolvedWith(f, m)]
<1>1. ASSUME NEW m \in ParameterLists, NEW g \in G PROVE ResolvedWith(g, m) \in V
    <2>1. ASSUME NEW around \in SUBSET Identifiers
          PROVE  ResolvedWith(g, m)[around] \in SUBSET R
        <3> DEFINE hidden == around \cup Collect(m)
        <3>1. hidden \in SUBSET Identifiers
            BY CollectedNames
        <3> HIDE DEF hidden
        <3>2. ASSUME NEW k \in DOMAIN m PROVE g[m[k].list][hidden] \in SUBSET R
            BY <3>1, ListFacts
        <3>3. [list |-> m, hidden |-> hidden] \in R
            BY <3>1
        <3> DEFINE K == {k \in DOMAIN m : IsHeading(m[k]) /\ HasName(m, k)}
        <3>4. ResolvedWith(g, m)[around]
                 = {[list |-> m, hidden |-> hidden]} \cup UNION {g[m[k].list][hidden] : k \in K}
            BY DEF ResolvedWith, hidden
        <3>5. \A k \in K : k \in DOMAIN m
            OBVIOUS
        <3> HIDE DEF R, K
        <3> QED
            BY <3>2, <3>3, <3>4, <3>5
    <2>2. ResolvedWith(g, m) = [around \in SUBSET Identifiers |-> ResolvedWith(g, m)[around]]
        BY DEF ResolvedWith
    <2> HIDE DEF R
    <2> QED
        BY <2>1, <2>2
<1>2. ASSUME NEW m \in ParameterLists, NEW g \in G, NEW h \in G,
             \A s \in Sublists(m) : g[s] = h[s]
      PROVE  ResolvedWith(g, m) = ResolvedWith(h, m)
    <2> DEFINE K == {k \in DOMAIN m : IsHeading(m[k]) /\ HasName(m, k)}
               Those(f) == [around \in SUBSET Identifiers |->
                            {[list |-> m, hidden |-> around \cup Collect(m)]}
                            \cup UNION {f[m[k].list][around \cup Collect(m)] : k \in K}]
    <2>1. \A k \in K : g[m[k].list] = h[m[k].list]
        BY <1>2 DEF Sublists
    <2>2. \A f : ResolvedWith(f, m) = Those(f)
        BY DEF ResolvedWith
    <2> HIDE DEF K
    <2>3. Those(g) = Those(h)
        <3>1. ASSUME NEW around \in SUBSET Identifiers
              PROVE  UNION {g[m[k].list][around \cup Collect(m)] : k \in K}
                        = UNION {h[m[k].list][around \cup Collect(m)] : k \in K}
            BY <2>1
        <3> QED
            BY <3>1
    <2> HIDE DEF Those
    <2> QED
        BY <2>2, <2>3
<1>3. [around \in SUBSET Identifiers |-> {}] \in V
    OBVIOUS
<1> HIDE DEF V
<1>4. Causal(V, step)
    <2>1. \A m \in ParameterLists : \A g \in G : step[m][g] = ResolvedWith(g, m)
        BY Zenon
    <2> HIDE DEF step
    <2> QED
        BY <1>1, <1>2, <2>1 DEF Causal
<1>5. PICK f \in G : \A m \in ParameterLists : f[m] = step[m][f]
    BY <1>3, <1>4, ListRecursion
<1>6. Good(f)
    <2>1. \A m \in ParameterLists : f[m] = ResolvedWith(f, m)
        BY <1>5
    <2> QED
        BY <2>1
<1>7. ResolvedLists = CHOOSE g : Good(g)
    BY DEF ResolvedLists, ResolvedWith
<1>8. Good(ResolvedLists)
    <2> HIDE DEF Good
    <2> QED
        BY <1>6, <1>7
<1> QED
    BY <1>8

LEMMA LegalUnfold ==
    ASSUME NEW l \in ParameterLists
    PROVE  ListIsLegal[l] = LegalWith(ListIsLegal, l)
<1> DEFINE V == [SUBSET Identifiers -> BOOLEAN]
           G == [ParameterLists -> V]
           step == [m \in ParameterLists |-> [g \in G |-> LegalWith(g, m)]]
           Good(f) == f = [m \in ParameterLists |-> LegalWith(f, m)]
<1>1. ASSUME NEW m \in ParameterLists, NEW g \in G PROVE LegalWith(g, m) \in V
    BY DEF LegalWith
<1>2. ASSUME NEW m \in ParameterLists, NEW g \in G, NEW h \in G,
             \A s \in Sublists(m) : g[s] = h[s]
      PROVE  LegalWith(g, m) = LegalWith(h, m)
    <2>1. \A k \in DOMAIN m : IsHeading(m[k]) => g[m[k].list] = h[m[k].list]
        BY <1>2 DEF Sublists
    <2> QED
        BY <2>1 DEF LegalWith
<1>3. [around \in SUBSET Identifiers |-> TRUE] \in V
    OBVIOUS
<1> HIDE DEF V
<1>4. Causal(V, step)
    <2>1. \A m \in ParameterLists : \A g \in G : step[m][g] = LegalWith(g, m)
        BY Zenon
    <2> HIDE DEF step
    <2> QED
        BY <1>1, <1>2, <2>1 DEF Causal
<1>5. PICK f \in G : \A m \in ParameterLists : f[m] = step[m][f]
    BY <1>3, <1>4, ListRecursion
<1>6. Good(f)
    <2>1. \A m \in ParameterLists : f[m] = LegalWith(f, m)
        BY <1>5
    <2> QED
        BY <2>1
<1>7. ListIsLegal = CHOOSE g : Good(g)
    BY DEF ListIsLegal, LegalWith
<1>8. Good(ListIsLegal)
    <2> HIDE DEF Good
    <2> QED
        BY <1>6, <1>7
<1> QED
    BY <1>8

-----------------------------------------------------------------------------
(* What is wrong with a list is what the rules say of it.                  *)

(* Every name in the text is introduced by a declaration of the block.     *)
AllIntroduced ==
    \A i \in DOMAIN declarations : \E j \in DOMAIN declarations : Introduces(j, declarations[i].name)

LEMMA NamesMean ==
    ASSUME NEW l \in ParameterLists
    PROVE  NamesDiffer(l) <=>
              \A k \in DOMAIN l : \A j \in DOMAIN Defines(l[k]) : IsDefined(l, k, j)
<1>1. Len(l) \in Nat /\ DOMAIN l = 1 .. Len(l)
    BY ListFacts
<1>2. ASSUME NEW k \in DOMAIN l
      PROVE  \E n \in Nat : DOMAIN Defines(l[k]) = 1 .. n
    <2>1. l[k] \in Section
        BY ListFacts
    <2> DEFINE a == Len(l[k].names)
               b == Len(l[k].indexes)
    <2>2. a \in Nat /\ b \in Nat /\ DOMAIN Defines(l[k]) = 1 .. a + 2 * b
        BY <2>1, SectionFacts
    <2> HIDE DEF a, b
    <2>3. a + 2 * b \in Nat
        BY <2>2
    <2> QED
        BY <2>2, <2>3
<1>3. ASSUME NamesDiffer(l), NEW k \in DOMAIN l, NEW j \in DOMAIN Defines(l[k])
      PROVE  IsDefined(l, k, j)
    <2> SUFFICES ASSUME NEW h \in 1 .. k, NEW i \in DOMAIN Defines(l[h]), h < k \/ i < j
                 PROVE  Defines(l[h])[i] # Defines(l[k])[j]
        BY DEF IsDefined
    <2>1. h \in DOMAIN l /\ k \in Nat
        BY <1>1
    <2>2. i \in Nat /\ j \in Nat
        BY <1>2, <2>1
    <2> QED
        BY <1>3, <2>1, <2>2 DEF NamesDiffer
<1>4. ASSUME \A k \in DOMAIN l : \A j \in DOMAIN Defines(l[k]) : IsDefined(l, k, j),
             NEW h \in DOMAIN l, NEW k \in DOMAIN l,
             NEW i \in DOMAIN Defines(l[h]), NEW j \in DOMAIN Defines(l[k]),
             Defines(l[h])[i] = Defines(l[k])[j]
      PROVE  h = k /\ i = j
    <2>1. h \in Nat /\ k \in Nat /\ h \in 1 .. Len(l) /\ k \in 1 .. Len(l)
        BY <1>1
    <2>2. i \in Nat /\ j \in Nat
        BY <1>2
    <2>3. IsDefined(l, k, j) /\ IsDefined(l, h, i)
        BY <1>4
    <2>4. ~(h < k) /\ ~(h = k /\ i < j)
        <3>1. h <= k => h \in 1 .. k
            BY <2>1
        <3>2. ASSUME h < k PROVE FALSE
            <4>1. h \in 1 .. k
                BY <2>1, <3>1, <3>2
            <4>2. Defines(l[h])[i] # Defines(l[k])[j]
                BY <1>4, <2>3, <3>2, <4>1 DEF IsDefined
            <4> QED
                BY <1>4, <4>2
        <3>3. ASSUME h = k, i < j PROVE FALSE
            BY <1>4, <2>1, <2>3, <3>1, <3>3 DEF IsDefined
        <3> QED
            BY <3>2, <3>3
    <2>5. ~(k < h) /\ ~(h = k /\ j < i)
        <3>1. k <= h => k \in 1 .. h
            BY <2>1
        <3>2. ASSUME k < h PROVE FALSE
            <4>1. k \in 1 .. h
                BY <2>1, <3>1, <3>2
            <4>2. Defines(l[k])[j] # Defines(l[h])[i]
                BY <1>4, <2>3, <3>2, <4>1 DEF IsDefined
            <4> QED
                BY <1>4, <4>2
        <3>3. ASSUME h = k, j < i PROVE FALSE
            BY <1>4, <2>1, <2>3, <3>1, <3>3 DEF IsDefined
        <3> QED
            BY <3>2, <3>3
    <2> QED
        BY <2>1, <2>2, <2>4, <2>5
<1> QED
    BY <1>3, <1>4 DEF NamesDiffer

LEMMA TypesMean ==
    ASSUME Text, AllIntroduced, NEW x, NEW hidden
    PROVE  TypeErrors(x, hidden, VisibleTypes, Collected) = {} <=> Denotes(x, hidden)
<1>1. declarations \in Seq(Declaration)
    BY DEF Text
<1>2. x \in VisibleTypes <=> x \in DOMAIN TypeForms /\ (x \in taken \/ DeclarationsOf(x) = {})
    <2>1. DeclarationsOf(x) = {} <=> ~ \E i \in DOMAIN declarations : Introduces(i, x)
        BY DEF AllIntroduced, DeclarationsOf, Introduces
    <2> QED
        BY <2>1, TypeFormsAssumption DEF VisibleTypes, Collected
<1> QED
    BY <1>2 DEF TypeErrors, Denotes

LEMMA Checked ==
    ASSUME NEW checks, NEW n \in Nat, DOMAIN checks = 1 .. n
    PROVE  FirstErrors(checks) = {} <=> \A i \in 1 .. n : checks[i] = {}
<1> SUFFICES ASSUME FirstErrors(checks) = {}, NEW i \in 1 .. n, checks[i] # {}
             PROVE  FALSE
    BY DEF FirstErrors
<1> DEFINE T == {j \in 1 .. n : checks[j] # {}}
<1>1. PICK j \in T : \A k \in T : j <= k
    <2>1. T \subseteq Nat /\ i \in T
        OBVIOUS
    <2> HIDE DEF T
    <2> QED
        BY <2>1, Minimum
<1>2. \A k \in 1 .. j - 1 : checks[k] = {}
    <2>1. ASSUME NEW k \in 1 .. j - 1 PROVE k \notin T /\ k \in 1 .. n
        <3>1. j \in 1 .. n /\ ~(j <= k) /\ k \in 1 .. n
            OBVIOUS
        <3> HIDE DEF T
        <3> QED
            BY <1>1, <3>1
    <2> QED
        BY <2>1
<1> QED
    BY <1>1, <1>2 DEF FirstErrors

LEMMA CheckedTwo ==
    ASSUME NEW a, NEW b, NEW checks, checks = <<a, b>>
    PROVE  FirstErrors(checks) = {} <=> a = {} /\ b = {}
<1>1. DOMAIN checks = 1 .. 2 /\ checks[1] = a /\ checks[2] = b
    OBVIOUS
<1>2. FirstErrors(checks) = {} <=> \A i \in 1 .. 2 : checks[i] = {}
    BY <1>1, Checked
<1>3. \A i \in 1 .. 2 : i = 1 \/ i = 2
    OBVIOUS
<1> QED
    BY <1>1, <1>2, <1>3

LEMMA CheckedThree ==
    ASSUME NEW a, NEW b, NEW c, NEW checks, checks = <<a, b, c>>
    PROVE  FirstErrors(checks) = {} <=> a = {} /\ b = {} /\ c = {}
<1>1. DOMAIN checks = 1 .. 3 /\ checks[1] = a /\ checks[2] = b /\ checks[3] = c
    OBVIOUS
<1>2. FirstErrors(checks) = {} <=> \A i \in 1 .. 3 : checks[i] = {}
    BY <1>1, Checked
<1>3. \A i \in 1 .. 3 : i = 1 \/ i = 2 \/ i = 3
    OBVIOUS
<1> QED
    BY <1>1, <1>2, <1>3

Between(a, g, b) == <<a>> \o g \o <<b>>
Lists(n, g) == n \in Nat /\ g = [i \in 1 .. n |-> g[i]]

LEMMA CheckedMany ==
    ASSUME NEW n, NEW g, Lists(n, g), NEW a, NEW b
    PROVE  FirstErrors(Between(a, g, b)) = {} <=> a = {} /\ b = {} /\ \A i \in 1 .. n : g[i] = {}
<1> DEFINE checks == Between(a, g, b)
           X == {g[i] : i \in 1 .. n} \cup {a, b}
<1>0. n \in Nat /\ g \in [1 .. n -> X] /\ a \in X /\ b \in X
    BY DEF Lists
<1> HIDE DEF X
<1>1. g \in Seq(X) /\ Len(g) = n /\ n \in Nat /\ a \in X /\ b \in X
    BY <1>0
<1>2. /\ DOMAIN checks = 1 .. n + 2 /\ checks[1] = a /\ checks[n + 2] = b
      /\ \A i \in 1 .. n : checks[i + 1] = g[i]
    BY <1>1 DEF Between
<1> HIDE DEF checks
<1>3. FirstErrors(checks) = {} <=> \A i \in 1 .. n + 2 : checks[i] = {}
    <2>1. n + 2 \in Nat
        BY <1>1
    <2> QED
        BY <1>2, <2>1, Checked
<1>4. ASSUME a = {}, b = {}, \A i \in 1 .. n : g[i] = {}, NEW i \in 1 .. n + 2
      PROVE  checks[i] = {}
    <2>1. CASE i = 1 \/ i = n + 2
        BY <1>2, <1>4, <2>1
    <2>2. CASE i # 1 /\ i # n + 2
        <3>1. i - 1 \in 1 .. n /\ i = (i - 1) + 1
            BY <1>1, <2>2
        <3> QED
            BY <1>2, <1>4, <3>1
    <2> QED
        BY <2>1, <2>2
<1>5. 1 \in 1 .. n + 2 /\ n + 2 \in 1 .. n + 2 /\ \A i \in 1 .. n : i + 1 \in 1 .. n + 2
    BY <1>1
<1> QED
    BY <1>2, <1>3, <1>4, <1>5 DEF checks

(* The index types are checked with their bounds, and the last one first. *)
LEMMA ParameterTypesMean ==
    ASSUME Text, AllIntroduced, NEW l \in ParameterLists, NEW k \in DOMAIN l, NEW hidden,
           ~IsHeading(l[k])
    PROVE  ParameterTypeErrors(l, k, hidden, VisibleTypes, Collected) = {} <=>
              /\ TypesAreRight(l[k], hidden)
              /\ \A j \in DOMAIN Defines(l[k]) \ DOMAIN l[k].names : IsDefined(l, k, j)
<1> DEFINE s == l[k]
           m == Len(s.names)
           n == Len(s.indexes)
           Wrong(x) == TypeErrors(x, hidden, VisibleTypes, Collected)
           Bound(i) == Unless(IsDefined(l, k, (m + 2 * i) - 1) /\ IsDefined(l, k, m + 2 * i),
                              "DUPLICATE_IDENTIFIER")
           Ordinal(i) == Unless(s.indexes[i].type \in Of({"ordinal"}), "NON_ORDINAL_TYPE")
           Index(i) == FirstErrors(<<Bound(i), Wrong(s.indexes[i].type), Ordinal(i)>>)
           g == [i \in 1 .. n |-> Index(n + 1 - i)]
           File == Unless(s.form = "value" => s.type \notin Of({"file"}), "DISALLOWED_PARAMETER_TYPE")
<1>1. /\ s \in Section /\ m \in Nat /\ n \in Nat /\ DOMAIN s.names = 1 .. m
      /\ DOMAIN s.indexes = 1 .. n /\ DOMAIN Defines(s) = 1 .. m + 2 * n
    BY ListFacts, SectionFacts
<1>2. ParameterTypeErrors(l, k, hidden, VisibleTypes, Collected)
         = FirstErrors(<<Wrong(s.type)>> \o g \o <<File>>)
    BY DEF ParameterTypeErrors
<1>3. \A x : Wrong(x) = {} <=> Denotes(x, hidden)
    BY TypesMean
<1>4. \A i : Bound(i) = {} <=> IsDefined(l, k, (m + 2 * i) - 1) /\ IsDefined(l, k, m + 2 * i)
    BY DEF Unless
<1>5. \A i : Ordinal(i) = {} <=> s.indexes[i].type \in Of({"ordinal"})
    BY DEF Unless
<1>6. File = {} <=> (s.form = "value" => s.type \notin Of({"file"}))
    BY DEF Unless
<1> HIDE DEF m, n, Wrong, Bound, Ordinal, File
<1>7. ASSUME NEW i
      PROVE  Index(i) = {} <=> Bound(i) = {} /\ Wrong(s.indexes[i].type) = {} /\ Ordinal(i) = {}
    BY CheckedThree
<1> HIDE DEF Index
<1>8. ParameterTypeErrors(l, k, hidden, VisibleTypes, Collected) = {} <=>
         /\ Wrong(s.type) = {} /\ File = {}
         /\ \A i \in 1 .. n : Index(i) = {}
    <2>1. Lists(n, g)
        BY <1>1 DEF Lists
    <2>2. (\A i \in 1 .. n : g[i] = {}) <=> \A i \in 1 .. n : Index(i) = {}
        <3>1. \A i \in 1 .. n : n + 1 - i \in 1 .. n /\ n + 1 - (n + 1 - i) = i
            BY <1>1
        <3> QED
            BY <3>1
    <2> HIDE DEF g
    <2>3. FirstErrors(Between(Wrong(s.type), g, File)) = {}
             <=> Wrong(s.type) = {} /\ File = {} /\ \A i \in 1 .. n : g[i] = {}
        BY <2>1, CheckedMany
    <2> QED
        BY <1>2, <2>2, <2>3 DEF Between
<1>9. (\A j \in DOMAIN Defines(s) \ DOMAIN s.names : IsDefined(l, k, j))
         <=> \A i \in 1 .. n : Bound(i) = {}
    <2>1. \A i \in 1 .. n : (m + 2 * i) - 1 \in 1 .. m + 2 * n /\ (m + 2 * i) - 1 \notin 1 .. m
                            /\ m + 2 * i \in 1 .. m + 2 * n /\ m + 2 * i \notin 1 .. m
        BY <1>1
    <2>2. ASSUME NEW j \in 1 .. m + 2 * n, j \notin 1 .. m
          PROVE  \E i \in 1 .. n : j = (m + 2 * i) - 1 \/ j = m + 2 * i
        <3>1. (j - m + 1) \div 2 \in 1 .. n
              /\ (j = (m + 2 * ((j - m + 1) \div 2)) - 1 \/ j = m + 2 * ((j - m + 1) \div 2))
            BY <1>1, <2>2
        <3> QED
            BY <3>1
    <2>3. DOMAIN Defines(s) \ DOMAIN s.names = {j \in 1 .. m + 2 * n : j \notin 1 .. m}
        BY <1>1
    <2> HIDE DEF s
    <2> QED
        BY <1>4, <2>1, <2>2, <2>3
<1>10. \A x, forms : DenotesOneOf(forms, x, hidden) <=> Denotes(x, hidden) /\ x \in Of(forms)
    BY DEF DenotesOneOf, Denotes, Of
<1>11. TypesAreRight(s, hidden) <=>
          /\ \A i \in 1 .. n : DenotesOneOf({"ordinal"}, s.indexes[i].type, hidden)
          /\ Denotes(s.type, hidden) /\ (s.form = "value" => s.type \notin Of({"file"}))
    <2>1. s.form \in {"value", "variable"}
        BY <1>1 DEF Section, IsHeading
    <2>2. \A x : DenotesOneOf(Forms \ {"file"}, x, hidden) <=> Denotes(x, hidden) /\ x \notin Of({"file"})
        BY TypeFormsAssumption DEF DenotesOneOf, Denotes, Of
    <2>3. (\A spec \in {s.indexes[i] : i \in DOMAIN s.indexes} :
                DenotesOneOf({"ordinal"}, spec.type, hidden))
             <=> \A i \in 1 .. n : DenotesOneOf({"ordinal"}, s.indexes[i].type, hidden)
        BY <1>1
    <2> HIDE DEF s
    <2>4. CASE s.form = "value"
        BY <2>2, <2>3, <2>4 DEF TypesAreRight
    <2>5. CASE s.form = "variable"
        BY <2>2, <2>3, <2>5 DEF TypesAreRight
    <2> QED
        BY <2>1, <2>4, <2>5
<1> HIDE DEF s
<1> QED
    BY <1>3, <1>5, <1>6, <1>7, <1>8, <1>9, <1>10, <1>11 DEF s

LEMMA ResultsMean ==
    ASSUME Text, AllIntroduced, NEW x, NEW hidden
    PROVE  ResultErrors(x, hidden, VisibleTypes, Collected) = {} <=>
              x = None \/ DenotesOneOf({"ordinal", "real", "pointer"}, x, hidden)
<1> DEFINE Wrong == TypeErrors(x, hidden, VisibleTypes, Collected)
           Simple == Unless(x \in Of({"ordinal", "real", "pointer"}), "DISALLOWED_RESULT_TYPE")
<1>1. Wrong = {} <=> Denotes(x, hidden)
    BY TypesMean
<1>2. Simple = {} <=> x \in Of({"ordinal", "real", "pointer"})
    BY DEF Unless
<1>3. ResultErrors(x, hidden, VisibleTypes, Collected)
         = IF x = None THEN {} ELSE FirstErrors(<<Wrong, Simple>>)
    BY DEF ResultErrors
<1> HIDE DEF Wrong, Simple
<1>4. FirstErrors(<<Wrong, Simple>>) = {} <=> Wrong = {} /\ Simple = {}
    BY CheckedTwo
<1>5. DenotesOneOf({"ordinal", "real", "pointer"}, x, hidden) <=>
         Denotes(x, hidden) /\ x \in Of({"ordinal", "real", "pointer"})
    BY DEF DenotesOneOf, Denotes, Of
<1> QED
    BY <1>1, <1>2, <1>3, <1>4, <1>5

(* What is found in section k of a list: of its names, and of its types.   *)
NameErrors(l, k) == UNION {Unless(IsDefined(l, k, j), "DUPLICATE_IDENTIFIER") : j \in DOMAIN l[k].names}
SectionErrors(l, k, hidden) ==
    IF ~HasName(l, k) THEN {}
    ELSE IF IsHeading(l[k]) THEN ResultErrors(l[k].type, hidden, VisibleTypes, Collected)
    ELSE ParameterTypeErrors(l, k, hidden, VisibleTypes, Collected)

LEMMA ListsMean ==
    ASSUME Text, AllIntroduced, NEW l \in ParameterLists, NEW hidden
    PROVE  ListErrors(l, hidden, VisibleTypes, Collected) = {} <=>
              NamesDiffer(l) /\ \A k \in DOMAIN l : TypesAreRight(l[k], hidden)
<1> DEFINE Good(k) == /\ TypesAreRight(l[k], hidden)
                      /\ \A j \in DOMAIN Defines(l[k]) : IsDefined(l, k, j)
           ErrorsOf(k) == NameErrors(l, k) \cup SectionErrors(l, k, hidden)
<1>1. ListErrors(l, hidden, VisibleTypes, Collected) = UNION {ErrorsOf(k) : k \in DOMAIN l}
    BY DEF ListErrors, NameErrors, SectionErrors
<1>2. ASSUME NEW k \in DOMAIN l
      PROVE  NameErrors(l, k) \cup SectionErrors(l, k, hidden) = {} <=> Good(k)
    <2> DEFINE s == l[k]
    <2>1. /\ s \in Section /\ s.names # <<>> /\ DOMAIN s.names = 1 .. Len(s.names) /\ Len(s.names) \in Nat
          /\ \A j \in DOMAIN s.names : j \in DOMAIN Defines(s)
          /\ s.names \in Seq(Identifiers)
          /\ DOMAIN s.indexes = 1 .. Len(s.indexes)
          /\ DOMAIN Defines(s) = 1 .. Len(s.names) + 2 * Len(s.indexes)
        BY ListFacts, SectionFacts
    <2>2. 1 \in DOMAIN s.names
        BY <2>1
    <2>3. NameErrors(l, k) = {} <=> \A j \in DOMAIN s.names : IsDefined(l, k, j)
        BY DEF NameErrors, Unless
    <2>4. (\A j \in DOMAIN s.names : IsDefined(l, k, j)) => HasName(l, k)
        BY <2>2 DEF HasName
    <2>5. CASE IsHeading(s)
        <3>1. DOMAIN Defines(s) = DOMAIN s.names /\ DOMAIN s.indexes = {}
            <4>1. s.indexes = <<>>
                BY <2>1, <2>5 DEF Section
            <4>2. Len(s.indexes) = 0 /\ 1 .. 0 = {}
                BY <4>1
            <4> QED
                BY <2>1, <4>2
        <3>2. s.form \in {"procedure", "function"} /\ (s.type = None <=> s.form = "procedure")
            BY <2>1, <2>5 DEF Section, IsHeading
        <3>3. TypesAreRight(s, hidden) <=>
                 s.type = None \/ DenotesOneOf({"ordinal", "real", "pointer"}, s.type, hidden)
            BY <3>1, <3>2 DEF TypesAreRight
        <3>4. ResultErrors(s.type, hidden, VisibleTypes, Collected) = {} <=>
                 s.type = None \/ DenotesOneOf({"ordinal", "real", "pointer"}, s.type, hidden)
            BY ResultsMean
        <3>5. HasName(l, k) => SectionErrors(l, k, hidden)
                                  = ResultErrors(s.type, hidden, VisibleTypes, Collected)
            BY <2>5 DEF SectionErrors
        <3> HIDE DEF s
        <3> QED
            BY <2>3, <2>4, <3>1, <3>3, <3>4, <3>5 DEF s
    <2>6. CASE ~IsHeading(s)
        <3>1. HasName(l, k) => SectionErrors(l, k, hidden)
                                  = ParameterTypeErrors(l, k, hidden, VisibleTypes, Collected)
            BY <2>6 DEF SectionErrors
        <3>2. ParameterTypeErrors(l, k, hidden, VisibleTypes, Collected) = {} <=>
                 /\ TypesAreRight(l[k], hidden)
                 /\ \A j \in DOMAIN Defines(l[k]) \ DOMAIN l[k].names : IsDefined(l, k, j)
            BY <2>6, ParameterTypesMean
        <3> QED
            BY <2>1, <2>3, <2>4, <3>1, <3>2
    <2> QED
        BY <2>5, <2>6
<1>3. NamesDiffer(l) <=> \A k \in DOMAIN l : \A j \in DOMAIN Defines(l[k]) : IsDefined(l, k, j)
    BY NamesMean
<1> QED
    BY <1>1, <1>2, <1>3

(* So the error messages for a heading say whether it is legal.            *)
LEMMA NestedListsMean ==
    ASSUME Text, AllIntroduced, NEW list \in ParameterLists, NEW scope \in SUBSET Identifiers
    PROVE  (UNION {ListErrors(r.list, r.hidden, VisibleTypes, Collected) : r \in ResolvedLists[list][scope]} = {})
              <=> ListIsLegal[list][scope]
<1> DEFINE Sound(r) == ListErrors(r.list, r.hidden, VisibleTypes, Collected) = {}
           P == {l \in ParameterLists : \A around \in SUBSET Identifiers :
                    (\A r \in ResolvedLists[l][around] : Sound(r)) <=> ListIsLegal[l][around]}
<1>1. ASSUME NEW l \in ParameterLists, \A s \in Sublists(l) : s \in P
      PROVE  l \in P
    <2> SUFFICES ASSUME NEW around \in SUBSET Identifiers
                 PROVE  (\A r \in ResolvedLists[l][around] : Sound(r)) <=> ListIsLegal[l][around]
        OBVIOUS
    <2> DEFINE hidden == around \cup Collect(l)
               K == {k \in DOMAIN l : IsHeading(l[k]) /\ HasName(l, k)}
    <2>1. hidden \in SUBSET Identifiers
        BY CollectedNames
    <2>2. ResolvedLists[l][around]
             = {[list |-> l, hidden |-> hidden]} \cup UNION {ResolvedLists[l[k].list][hidden] : k \in K}
        <3>1. ResolvedLists[l] = ResolvedWith(ResolvedLists, l)
            BY ResolvedUnfold
        <3> QED
            BY <3>1 DEF ResolvedWith
    <2>3. ListIsLegal[l][around] <=>
             /\ NamesDiffer(l)
             /\ \A k \in DOMAIN l :
                   TypesAreRight(l[k], hidden) /\ (IsHeading(l[k]) => ListIsLegal[l[k].list][hidden])
        <3>1. ListIsLegal[l] = LegalWith(ListIsLegal, l)
            BY LegalUnfold
        <3> QED
            BY <3>1 DEF LegalWith
    <2>4. Sound([list |-> l, hidden |-> hidden])
             <=> NamesDiffer(l) /\ \A k \in DOMAIN l : TypesAreRight(l[k], hidden)
        <3> HIDE DEF hidden
        <3> QED
            BY ListsMean
    <2>5. ASSUME NEW k \in DOMAIN l, IsHeading(l[k])
          PROVE  (\A r \in ResolvedLists[l[k].list][hidden] : Sound(r)) <=> ListIsLegal[l[k].list][hidden]
        <3>1. l[k].list \in P
            BY <1>1, <2>5 DEF Sublists
        <3> HIDE DEF hidden, Sound
        <3> QED
            BY <2>1, <3>1
    <2>6. ASSUME NamesDiffer(l), NEW k \in DOMAIN l PROVE HasName(l, k)
        <3>1. 1 \in DOMAIN l[k].names /\ 1 \in DOMAIN Defines(l[k])
            <4>1. l[k] \in Section
                BY ListFacts
            <4>2. /\ l[k].names # <<>> /\ l[k].names \in Seq(Identifiers)
                  /\ \A j \in DOMAIN l[k].names : j \in DOMAIN Defines(l[k])
                BY <4>1, SectionFacts
            <4>3. 1 \in DOMAIN l[k].names
                BY <4>2
            <4> QED
                BY <4>2, <4>3
        <3> QED
            BY <2>6, <3>1, NamesMean DEF HasName
    <2> HIDE DEF hidden, Sound
    <2> QED
        BY <2>2, <2>3, <2>4, <2>5, <2>6
<1> HIDE DEF P
<1>2. list \in P
    BY <1>1, ListInduction
<1> QED
    BY <1>2 DEF P

LEMMA SignaturesMean ==
    ASSUME Text, AllIntroduced, NEW list \in ParameterLists, NEW result
    PROVE  SignatureErrors(list, result, VisibleTypes, Collected) = {} <=>
              /\ ListIsLegal[list][{}]
              /\ result = None \/ DenotesOneOf({"ordinal", "real", "pointer"}, result, {})
BY NestedListsMean, ResultsMean DEF SignatureErrors

-----------------------------------------------------------------------------
(* The rules for the declarations of a block, one after another.           *)

HeadIsRight(i) ==
    SignatureErrors(declarations[i].list, declarations[i].result, VisibleTypes, Collected) = {}

(* No declaration of x before i has a block.                               *)
Open(i, x) == \A j \in DeclarationsOf(x) : j < i => ~HasBlock(j)

Begins(f, x) == f \in DeclarationsOf(x) /\ First(f) /\ Introduces(f, x)
InPlace(i, x) ==
    /\ x \notin taken
    /\ Begins(i, x) \/ \E f \in DOMAIN declarations : Begins(f, x) /\ Completes(i, f) /\ Open(i, x)

(* What a call and a block may be below the list l.                        *)
CallFits(i, l, c) ==
    \/ \E k \in DOMAIN l :
          l[k].names = <<c.name>> /\ l[k].form = (IF c.function THEN "function" ELSE "procedure")
    \/ /\ c.name \notin Collect(l) \cup declarations[i].body.defines \cup taken
       /\ \E j \in DeclarationsOf(c.name) :
             First(j) /\ j <= i /\ c.function = IsFunctionHere(j)
BlockFits(i, l) ==
    /\ declarations[i].body.defines \cap Collect(l) = {}
    /\ \A c \in declarations[i].body.calls : CallFits(i, l, c)
    /\ IsFunctionHere(i) =>
          declarations[i].body.assigns
          /\ declarations[i].name \notin Collect(l) \cup declarations[i].body.defines

IsRight(i) ==
    /\ InPlace(i, declarations[i].name)
    /\ First(i) => HeadIsRight(i)
    /\ HasBlock(i) => \E f \in DeclarationsOf(declarations[i].name) :
                         First(f) /\ BlockFits(i, declarations[f].list)

IsFollowed(i) == \E b \in DeclarationsOf(declarations[i].name) : HasBlock(b)

LEMMA Numbered ==
    ASSUME Text
    PROVE  /\ declarations \in Seq(Declaration) /\ Len(declarations) \in Nat
           /\ DOMAIN declarations = 1 .. Len(declarations) /\ DOMAIN declarations \subseteq Nat
           /\ \A i \in DOMAIN declarations : declarations[i] \in Declaration
           /\ \A x : DeclarationsOf(x) \subseteq DOMAIN declarations
<1>1. declarations \in Seq(Declaration)
    BY DEF Text
<1>2. Len(declarations) \in Nat /\ DOMAIN declarations = 1 .. Len(declarations)
    BY <1>1
<1>3. \A i \in DOMAIN declarations : declarations[i] \in Declaration
    BY <1>1
<1> QED
    BY <1>1, <1>2, <1>3 DEF DeclarationsOf

LEMMA FirstOne ==
    ASSUME Text, NEW x, NEW i \in DeclarationsOf(x)
    PROVE  \E f \in DeclarationsOf(x) : First(f) /\ f <= i
<1>1. DeclarationsOf(x) \subseteq Nat
    BY Numbered
<1>2. PICK f \in DeclarationsOf(x) : \A j \in DeclarationsOf(x) : f <= j
    BY <1>1, Minimum
<1>3. declarations[f].name = x
    BY DEF DeclarationsOf
<1> QED
    BY <1>2, <1>3 DEF First

LEMMA OnlyFirst ==
    ASSUME Text, NEW x, NEW f \in DeclarationsOf(x), NEW g \in DeclarationsOf(x), First(f), First(g)
    PROVE  f = g
<1>1. declarations[f].name = x /\ declarations[g].name = x
    BY DEF DeclarationsOf
<1>2. f <= g /\ g <= f /\ f \in Nat /\ g \in Nat
    BY <1>1, Numbered DEF First
<1> QED
    BY <1>2

(* The first declaration of a name introduces it, if it is in place.       *)
LEMMA FirstBegins ==
    ASSUME Text, NEW x, NEW f \in DeclarationsOf(x), First(f), InPlace(f, x)
    PROVE  Begins(f, x)
<1> SUFFICES ASSUME NEW g \in DOMAIN declarations, Begins(g, x), Completes(f, g)
             PROVE  FALSE
    BY DEF InPlace
<1>1. g = f
    BY OnlyFirst DEF Begins
<1>2. g < f /\ f \in Nat
    BY Numbered DEF Completes
<1> QED
    BY <1>1, <1>2

LEMMA WellMeans ==
    ASSUME Text, NEW x, DeclarationsOf(x) # {}
    PROVE  DeclaredWell(x) <=>
              (\A i \in DeclarationsOf(x) : InPlace(i, x)) /\ \E b \in DeclarationsOf(x) : HasBlock(b)
<1> DEFINE D == DeclarationsOf(x)
<1>0. D \subseteq Nat /\ D \subseteq DOMAIN declarations
    BY Numbered
<1>1. ASSUME DeclaredWell(x), NEW k \in D PROVE InPlace(k, x)
    <2>1. PICK b \in D : /\ HasBlock(b)
                         /\ \E i \in D : /\ First(i) /\ Introduces(i, x)
                                         /\ \A j \in D \ {i} : j <= b /\ Completes(j, i)
                         /\ \A j \in D \ {b} : ~HasBlock(j)
        BY <1>1 DEF DeclaredWell
    <2>2. PICK i \in D : First(i) /\ Introduces(i, x) /\ \A j \in D \ {i} : j <= b /\ Completes(j, i)
        BY <2>1
    <2>3. Begins(i, x)
        BY <2>2 DEF Begins
    <2>4. CASE k = i
        BY <1>1, <2>3, <2>4 DEF InPlace, DeclaredWell
    <2>5. CASE k # i
        <3>1. k <= b /\ Completes(k, i)
            BY <2>2, <2>5
        <3>2. Open(k, x)
            BY <1>0, <2>1, <3>1 DEF Open
        <3> QED
            BY <1>0, <1>1, <2>3, <3>1, <3>2 DEF InPlace, DeclaredWell
    <2> QED
        BY <2>4, <2>5
<1>2. ASSUME \A i \in D : InPlace(i, x), NEW b \in D, HasBlock(b)
      PROVE  DeclaredWell(x)
    <2>1. PICK f \in D : First(f)
        BY FirstOne
    <2>2. Begins(f, x)
        BY <1>2, <2>1, FirstBegins
    <2>3. ASSUME NEW j \in D, j # f PROVE Completes(j, f) /\ Open(j, x)
        <3>1. ~Begins(j, x)
            BY <2>1, <2>3, OnlyFirst DEF Begins
        <3>2. PICK g \in DOMAIN declarations : Begins(g, x) /\ Completes(j, g) /\ Open(j, x)
            BY <1>2, <2>3, <3>1 DEF InPlace
        <3>3. g = f
            BY <2>1, <3>2, OnlyFirst DEF Begins
        <3> QED
            BY <3>2, <3>3
    <2>4. ASSUME NEW j \in D, b < j PROVE FALSE
        <3>1. declarations[f].name = x
            BY DEF DeclarationsOf
        <3>2. f <= b /\ f \in Nat /\ b \in Nat /\ j \in Nat
            BY <1>0, <2>1, <3>1 DEF First
        <3>3. j # f
            BY <2>4, <3>2
        <3> QED
            BY <1>2, <2>3, <2>4, <3>3 DEF Open
    <2>5. ASSUME NEW j \in D, j # b PROVE j <= b /\ ~HasBlock(j)
        <3>1. b \in Nat /\ j \in Nat /\ ~(b < j)
            BY <1>0, <2>4
        <3>2. j < b
            BY <2>5, <3>1
        <3>3. declarations[f].name = x
            BY DEF DeclarationsOf
        <3>4. f <= j /\ f \in Nat
            BY <1>0, <2>1, <3>3 DEF First
        <3>5. b # f
            BY <3>1, <3>2, <3>4
        <3> QED
            BY <2>3, <3>1, <3>2, <3>5 DEF Open
    <2>6. First(f) /\ Introduces(f, x) /\ \A j \in D \ {f} : j <= b /\ Completes(j, f)
        <3>1. b <= b
            BY <1>0
        <3> QED
            BY <2>1, <2>2, <2>3, <2>5, <3>1 DEF Begins
    <2>7. x \notin taken
        BY <1>2 DEF InPlace
    <2> HIDE DEF D
    <2> QED
        BY <1>2, <2>5, <2>6, <2>7 DEF DeclaredWell, D
<1>3. ASSUME DeclaredWell(x) PROVE \E b \in D : HasBlock(b)
    BY <1>3 DEF DeclaredWell
<1> QED
    BY <1>1, <1>2, <1>3

LEMMA ListOfFirst ==
    ASSUME Text, NEW i \in DOMAIN declarations,
           NEW f \in DeclarationsOf(declarations[i].name), First(f)
    PROVE  ListOf(i) = declarations[f].list
<1> DEFINE x == declarations[i].name
           g == CHOOSE j \in DeclarationsOf(x) : First(j)
<1>1. g \in DeclarationsOf(x) /\ First(g)
    OBVIOUS
<1>2. ListOf(i) = declarations[g].list
    BY DEF ListOf
<1> HIDE DEF x, g
<1>3. g = f
    BY <1>1, OnlyFirst DEF x
<1> QED
    BY <1>2, <1>3

LEMMA BlockMeans ==
    ASSUME Text, NEW i \in DOMAIN declarations
    PROVE  BlockIsLegal(i) <=>
              \E f \in DeclarationsOf(declarations[i].name) : First(f) /\ BlockFits(i, declarations[f].list)
<1>1. i \in DeclarationsOf(declarations[i].name)
    BY DEF DeclarationsOf
<1>2. PICK f \in DeclarationsOf(declarations[i].name) : First(f)
    BY <1>1, FirstOne
<1>3. \A g \in DeclarationsOf(declarations[i].name) : First(g) => g = f
    BY <1>2, OnlyFirst
<1>4. ListOf(i) = declarations[f].list
    BY <1>2, ListOfFirst
<1>5. ASSUME NEW c
      PROVE  CallIsRight(i, c) <=> CallFits(i, ListOf(i), c)
    BY DEF CallIsRight, CallFits, OwnNames
<1>6. BlockIsLegal(i) <=> BlockFits(i, ListOf(i))
    BY <1>5 DEF BlockIsLegal, BlockFits, OwnNames
<1> QED
    BY <1>2, <1>3, <1>4, <1>6

(* A heading without a list and without a result is always right.          *)
LEMMA HeadMeans ==
    ASSUME Text, AllIntroduced, NEW i \in DOMAIN declarations
    PROVE  /\ HeadIsRight(i) <=> HeadingIsLegal(i)
           /\ declarations[i].list = <<>> /\ declarations[i].heading # "function" => HeadingIsLegal(i)
<1>1. declarations[i] \in Declaration
    BY Numbered
<1>2. declarations[i].list \in ParameterLists
      /\ (declarations[i].result = None <=> declarations[i].heading # "function")
    BY <1>1 DEF Declaration
<1>3. declarations[i].heading = "function" <=> declarations[i].result # None
    BY <1>2
<1>4. ASSUME DenotesOneOf({"ordinal", "real", "pointer"}, declarations[i].result, {})
      PROVE  declarations[i].result # None
    BY <1>4, TypeFormsAssumption DEF DenotesOneOf, Denotes
<1>5. HeadIsRight(i) <=> HeadingIsLegal(i)
    BY <1>2, <1>3, SignaturesMean DEF HeadIsRight, HeadingIsLegal
<1>6. ListIsLegal[<<>>][{}]
    <2>1. ListIsLegal[<<>>] = LegalWith(ListIsLegal, <<>>)
        BY ListsAssumption, LegalUnfold
    <2>2. DOMAIN <<>> = {}
        OBVIOUS
    <2> DEFINE l == <<>>
    <2>3. DOMAIN l = {} /\ ListIsLegal[l] = LegalWith(ListIsLegal, l)
        BY <2>1, <2>2
    <2> HIDE DEF l
    <2>4. ListIsLegal[l][{}]
        BY <2>3 DEF LegalWith, NamesDiffer
    <2> QED
        BY <2>4 DEF l
<1> QED
    BY <1>5, <1>6 DEF HeadingIsLegal

LEMMA LegalMeans ==
    ASSUME Text
    PROVE  Legal <=> \A i \in DOMAIN declarations : IsRight(i) /\ IsFollowed(i)
<1> DEFINE N(i) == declarations[i].name
<1>1. \A i \in DOMAIN declarations : i \in DeclarationsOf(N(i))
    BY DEF DeclarationsOf
<1>2. \A x : \A i \in DeclarationsOf(x) : i \in DOMAIN declarations /\ N(i) = x
    BY DEF DeclarationsOf
<1>3. ASSUME NEW i \in DOMAIN declarations
      PROVE  DeclaredWell(N(i)) <=> (\A j \in DeclarationsOf(N(i)) : InPlace(j, N(i))) /\ IsFollowed(i)
    BY <1>1, WellMeans DEF IsFollowed
<1>4. (\A i \in DOMAIN declarations : DeclaredWell(N(i)))
         <=> \A i \in DOMAIN declarations : InPlace(i, N(i)) /\ IsFollowed(i)
    BY <1>1, <1>2, <1>3
<1>5. ASSUME \A i \in DOMAIN declarations : InPlace(i, N(i))
      PROVE  /\ AllIntroduced
             /\ \A i \in DOMAIN declarations :
                   First(i) \/ (declarations[i].list = <<>> /\ declarations[i].heading # "function")
    <2>1. ASSUME NEW i \in DOMAIN declarations
          PROVE  \E j \in DOMAIN declarations : Introduces(j, N(i))
        BY <1>5 DEF InPlace, Begins, DeclarationsOf
    <2>2. ASSUME NEW i \in DOMAIN declarations, ~First(i)
          PROVE  declarations[i].list = <<>> /\ declarations[i].heading # "function"
        BY <1>5, <2>2 DEF InPlace, Begins, Completes
    <2> QED
        BY <2>1, <2>2 DEF AllIntroduced
<1>6. ASSUME \A i \in DOMAIN declarations : InPlace(i, N(i))
      PROVE  (\A i \in DOMAIN declarations : HeadingIsLegal(i))
                <=> \A i \in DOMAIN declarations : First(i) => HeadIsRight(i)
    BY <1>5, <1>6, HeadMeans
<1> QED
    BY <1>4, <1>6, BlockMeans DEF Legal, IsRight

-----------------------------------------------------------------------------
(* The analysis applies these rules to one declaration after another.  It  *)
(* has entered what the first declaration of each name says, and built     *)
(* every block it has seen, unless something was wrong.                    *)

Follows(f) ==
    LET d == declarations[f]
    IN  /\ d.name \in subroutines
        /\ parameters[d.name] = d.list
        /\ d.name \in functions <=> d.heading = "function"

Followed ==
    \A f \in DOMAIN declarations : f < next =>
        (First(f) => Follows(f)) /\ (HasBlock(f) => f \in built[declarations[f].name])

Judged ==
    /\ \A x \in Names : \A j \in built[x] : j \in DeclarationsOf(x) /\ HasBlock(j)
    /\ errors = {} => Followed
    /\ errors = {} <=>
          /\ \A i \in DOMAIN declarations : i < next => IsRight(i)
          /\ Analyzed => \A i \in DOMAIN declarations : IsFollowed(i)

LEMMA EarlierBegins ==
    ASSUME Inv, Judged, errors = {}, NEW x, NEW j \in DeclarationsOf(x), j < next
    PROVE  /\ x \in subroutines /\ x \notin taken
           /\ \E f \in DOMAIN declarations : Begins(f, x) /\ f <= j /\ f < next /\ Follows(f)
<1>0. Text /\ next \in Nat
    BY Numbered DEF Inv, Text
<1>1. PICK f \in DeclarationsOf(x) : First(f) /\ f <= j
    BY <1>0, FirstOne
<1>2. f \in DOMAIN declarations /\ declarations[f].name = x /\ f < next
    BY <1>0, <1>1, Numbered DEF DeclarationsOf
<1>3. IsRight(f) /\ Follows(f)
    BY <1>1, <1>2 DEF Judged, Followed
<1>4. InPlace(f, x)
    BY <1>2, <1>3 DEF IsRight
<1>5. Begins(f, x) /\ x \notin taken
    BY <1>0, <1>1, <1>4, FirstBegins DEF InPlace
<1>6. x \in subroutines
    BY <1>2, <1>3 DEF Follows
<1> QED
    BY <1>1, <1>2, <1>3, <1>5, <1>6

LEMMA ForwardOpen ==
    ASSUME Inv, Judged, errors = {}, NEW x
    PROVE  x \in forward <=> x \in subroutines /\ Open(next, x)
<1>0. Text /\ next \in Nat /\ DOMAIN declarations \subseteq Nat
    BY Numbered DEF Inv, Text
<1>1. x \in forward <=> x \in subroutines /\ built[x] = {}
    BY DEF Inv, BuiltOnce
<1>2. ASSUME built[x] = {} PROVE Open(next, x)
    <2> SUFFICES ASSUME NEW j \in DeclarationsOf(x), j < next, HasBlock(j) PROVE FALSE
        BY DEF Open
    <2>1. j \in DOMAIN declarations /\ declarations[j].name = x
        BY DEF DeclarationsOf
    <2> QED
        BY <1>2, <2>1 DEF Judged, Followed
<1>3. ASSUME x \in subroutines, Open(next, x), NEW b \in built[x] PROVE FALSE
    <2>1. x \in Names
        BY <1>3 DEF Inv, Entered
    <2>2. b \in DeclarationsOf(x) /\ HasBlock(b)
        BY <1>3, <2>1 DEF Judged
    <2>3. b \in 1 .. next - 1
        BY <1>3, <2>1 DEF Inv, Text
    <2> QED
        BY <1>0, <1>3, <2>2, <2>3 DEF Open
<1> QED
    BY <1>1, <1>2, <1>3

LEMMA EnteredEarlier ==
    ASSUME Inv, NEW x \in subroutines
    PROVE  x \notin taken /\ \E j \in DeclarationsOf(x) : j < next
<1>1. PICK i \in 1 .. next - 1 : i \in DOMAIN declarations /\ IsDefiningPoint(i, x)
    BY DEF Inv, Entered
<1>2. i < next
    BY DEF Inv, Text
<1> QED
    BY <1>1, <1>2 DEF IsDefiningPoint, Introduces, DeclarationsOf

(* A declaration gets a place of its own, or completes another, exactly if *)
(* it is in place.                                                         *)
LEMMA PlacesMean ==
    ASSUME Inv, Judged, errors = {}, Analyzing
    PROVE  /\ ~IsDelayed /\ IsDefiningPoint(next, Name) <=> InPlace(next, Name) /\ First(next)
           /\ IsDelayed /\ Name \in forward /\ (Name \in functions) = IsFunction
                 <=> InPlace(next, Name) /\ ~First(next)
<1>0. /\ Text /\ next \in Nat /\ next \in DOMAIN declarations /\ DOMAIN declarations \subseteq Nat
      /\ next \in DeclarationsOf(Name) /\ declarations[next].name = Name
      /\ \A j \in DeclarationsOf(Name) : j \in DOMAIN declarations /\ declarations[j].name = Name
      /\ Current \in Declaration /\ DOMAIN declarations = 1 .. Len(declarations)
    BY CurrentDeclaration, Numbered DEF Inv, Analyzing, DeclarationsOf, Name, Current
<1>1. First(next) <=> \A j \in DeclarationsOf(Name) : ~(j < next)
    BY <1>0 DEF First
<1>2. ASSUME IsDefiningPoint(next, Name) PROVE InPlace(next, Name) /\ First(next)
    <2>1. ASSUME NEW j \in DeclarationsOf(Name), j < next PROVE FALSE
        <3>1. PICK f \in DOMAIN declarations : Begins(f, Name) /\ f < next
            BY <2>1, EarlierBegins
        <3>2. f \in 1 .. next - 1 /\ Introduces(f, Name)
            BY <1>0, <3>1 DEF Begins
        <3> QED
            BY <1>2, <3>2 DEF IsDefiningPoint
    <2> QED
        BY <1>0, <1>1, <1>2, <2>1 DEF IsDefiningPoint, InPlace, Begins
<1>3. ASSUME InPlace(next, Name), First(next) PROVE ~IsDelayed /\ IsDefiningPoint(next, Name)
    <2>1. Introduces(next, Name)
        BY <1>0, <1>3, FirstBegins DEF Begins
    <2>2. Name \notin forward
        <3>1. Name \notin subroutines
            BY <1>1, <1>3, EnteredEarlier
        <3> QED
            BY <3>1, ForwardOpen
    <2>3. ASSUME NEW j \in 1 .. next - 1, Introduces(j, Name) PROVE FALSE
        <3>1. j \in DOMAIN declarations /\ j < next
            BY <1>0
        <3>2. j \in DeclarationsOf(Name)
            BY <2>3, <3>1 DEF DeclarationsOf, Introduces
        <3> QED
            BY <1>1, <1>3, <3>1, <3>2
    <2>4. ~IsDelayed
        BY <2>1, <2>2 DEF IsDelayed, Introduces, Current
    <2> QED
        BY <1>3, <2>1, <2>3, <2>4 DEF IsDefiningPoint, InPlace
<1>4. ASSUME NEW f \in DOMAIN declarations, Begins(f, Name), f < next, Follows(f)
      PROVE  Name \in subroutines /\ declarations[f].heading # "identification"
             /\ (Name \in functions <=> declarations[f].heading = "function")
    BY <1>0, <1>4 DEF Begins, Introduces, Follows
<1>5. ASSUME IsDelayed, Name \in forward, (Name \in functions) = IsFunction
      PROVE  InPlace(next, Name) /\ ~First(next)
    <2>1. Name \in subroutines /\ Open(next, Name)
        BY <1>5, ForwardOpen
    <2>2. PICK j \in DeclarationsOf(Name) : j < next
        BY <2>1, EnteredEarlier
    <2>3. PICK f \in DOMAIN declarations : Begins(f, Name) /\ f < next /\ Follows(f)
        BY <2>2, EarlierBegins
    <2>4. declarations[next].list = <<>>
          /\ declarations[next].heading \in {"identification", "procedure"}
        <3>1. Current.heading = "identification" => Current.list = <<>>
            BY <1>0 DEF Declaration
        <3> QED
            BY <1>5, <3>1 DEF IsDelayed, Current
    <2>5. declarations[next].heading = "identification" <=> declarations[f].heading = "function"
        BY <1>4, <1>5, <2>3, <2>4 DEF IsFunction, Current
    <2>6. ~HasBlock(f) /\ declarations[f].name = declarations[next].name
        BY <1>0, <2>1, <2>3 DEF Open, Begins
    <2>7. Completes(next, f)
        BY <2>3, <2>4, <2>5, <2>6 DEF Completes
    <2>8. Name \notin taken
        BY <2>1, EnteredEarlier
    <2> QED
        BY <1>1, <2>1, <2>2, <2>3, <2>7, <2>8 DEF InPlace
<1>6. ASSUME InPlace(next, Name), ~First(next)
      PROVE  IsDelayed /\ Name \in forward /\ (Name \in functions) = IsFunction
    <2>1. PICK f \in DOMAIN declarations : Begins(f, Name) /\ Completes(next, f) /\ Open(next, Name)
        BY <1>6 DEF InPlace, Begins
    <2>2. f < next /\ Follows(f)
        BY <2>1 DEF Begins, Completes, Judged, Followed
    <2>3. Name \in forward
        BY <1>4, <2>1, <2>2, ForwardOpen
    <2>4. declarations[next].list = <<>>
          /\ declarations[next].heading =
                IF declarations[f].heading = "function" THEN "identification" ELSE "procedure"
        BY <2>1 DEF Completes
    <2> QED
        BY <1>4, <2>1, <2>2, <2>3, <2>4 DEF IsDelayed, IsFunction, Current
<1> QED
    BY <1>2, <1>3, <1>5, <1>6

-----------------------------------------------------------------------------
(* The block of a declaration.                                             *)

LEMMA OwnNamesDiffer ==
    ASSUME NEW l \in ParameterLists, NEW result,
           SignatureErrors(l, result, VisibleTypes, Collected) = {}
    PROVE  \A k \in DOMAIN l : \A j \in DOMAIN l[k].names : IsDefined(l, k, j)
<1> DEFINE hidden == {} \cup Collect(l)
           r == [list |-> l, hidden |-> hidden]
           E(q) == ListErrors(q.list, q.hidden, VisibleTypes, Collected)
           ErrorsOf(k) == NameErrors(l, k) \cup SectionErrors(l, k, hidden)
<1>1. r \in ResolvedLists[l][{}]
    <2>1. ResolvedLists[l] = ResolvedWith(ResolvedLists, l)
        BY ResolvedUnfold
    <2>2. {} \in SUBSET Identifiers
        OBVIOUS
    <2> QED
        BY <2>1, <2>2 DEF ResolvedWith
<1>2. UNION {E(q) : q \in ResolvedLists[l][{}]} = {}
    BY DEF SignatureErrors
<1>3. r.list = l /\ r.hidden = hidden
    OBVIOUS
<1>4. E(r) = {}
    <2> HIDE DEF E, r
    <2> QED
        BY <1>1, <1>2
<1>5. ListErrors(l, hidden, VisibleTypes, Collected) = {}
    <2> HIDE DEF r, hidden
    <2> QED
        BY <1>3, <1>4
<1>6. ListErrors(l, hidden, VisibleTypes, Collected) = UNION {ErrorsOf(k) : k \in DOMAIN l}
    <2> HIDE DEF hidden
    <2> QED
        BY DEF ListErrors, NameErrors, SectionErrors
<1>7. ASSUME NEW k \in DOMAIN l PROVE NameErrors(l, k) = {}
    <2>1. ErrorsOf(k) = {}
        <3> HIDE DEF ErrorsOf
        <3> QED
            BY <1>5, <1>6
    <2> QED
        BY <2>1
<1> QED
    BY <1>7 DEF NameErrors, Unless

AllDefined(l) == \A k \in DOMAIN l : \A j \in DOMAIN l[k].names : IsDefined(l, k, j)

IsParameterOf(l, x, isFunction) ==
    \E k \in DOMAIN l :
        l[k].names = <<x>> /\ l[k].form = (IF isFunction THEN "function" ELSE "procedure")

LEMMA ParametersMean ==
    ASSUME NEW l \in ParameterLists, AllDefined(l),
           NEW x, NEW isFunction \in BOOLEAN
    PROVE  IsSubroutineParameter(l, x, isFunction) <=> IsParameterOf(l, x, isFunction)
<1>1. ASSUME NEW k \in DOMAIN l, l[k].form = (IF isFunction THEN "function" ELSE "procedure")
      PROVE  l[k].names = <<x>> <=> \E j \in DOMAIN l[k].names : l[k].names[j] = x /\ IsDefined(l, k, j)
    <2>1. l[k] \in Section /\ IsHeading(l[k])
        BY <1>1, ListFacts DEF IsHeading
    <2>2. l[k].names \in Seq(Identifiers) /\ Len(l[k].names) = 1
        BY <2>1 DEF Section
    <2>3. DOMAIN l[k].names = {1}
        BY <2>2
    <2>4. l[k].names = <<x>> <=> l[k].names[1] = x
        BY <2>2
    <2> QED
        BY <2>3, <2>4 DEF AllDefined
<1> QED
    BY <1>1 DEF IsSubroutineParameter, IsParameterOf

(* Everything a step of the analysis leaves as it is.                      *)
LEMMA SameRules ==
    ASSUME declarations' = declarations, taken' = taken
    PROVE  /\ \A x : DeclarationsOf(x)' = DeclarationsOf(x)
           /\ \A i : First(i)' = First(i) /\ HasBlock(i)' = HasBlock(i)
           /\ \A i : IsRight(i)' = IsRight(i) /\ IsFollowed(i)' = IsFollowed(i)
<1>1. \A x : DeclarationsOf(x)' = DeclarationsOf(x)
    BY DEF DeclarationsOf
<1>2. \A i : First(i)' = First(i) /\ HasBlock(i)' = HasBlock(i)
    BY <1>1 DEF First, HasBlock
<1>3. \A i, x : Introduces(i, x)' = Introduces(i, x) /\ IsFunctionHere(i)' = IsFunctionHere(i)
    BY DEF Introduces, IsFunctionHere
<1>4. \A i, x : Begins(i, x)' = Begins(i, x) /\ Open(i, x)' = Open(i, x)
    BY <1>1, <1>2, <1>3 DEF Begins, Open
<1>5. \A i, j : Completes(i, j)' = Completes(i, j)
    BY <1>2 DEF Completes
<1>6. \A i, x : InPlace(i, x)' = InPlace(i, x)
    BY <1>4, <1>5 DEF InPlace
<1>7. VisibleTypes' = VisibleTypes /\ Collected' = Collected
    BY <1>3 DEF VisibleTypes, Collected
<1>8. \A i : HeadIsRight(i)' = HeadIsRight(i)
    BY <1>7 DEF HeadIsRight
<1>9. \A i, l, c : CallFits(i, l, c)' = CallFits(i, l, c)
    BY <1>1, <1>2, <1>3 DEF CallFits
<1>10. \A i, l : BlockFits(i, l)' = BlockFits(i, l)
    BY <1>3, <1>9 DEF BlockFits
<1>11. \A i : IsRight(i)' = IsRight(i)
    BY <1>1, <1>2, <1>6, <1>8, <1>10 DEF IsRight
<1>12. \A i : IsFollowed(i)' = IsFollowed(i)
    BY <1>1, <1>2 DEF IsFollowed
<1> QED
    BY <1>1, <1>2, <1>11, <1>12

(* Once the declaration itself has been entered, its block is found to be  *)
(* right exactly if it fits below the list of the first one of its name.   *)
LEMMA BlocksMean ==
    ASSUME Inv, Inv', Judged, errors = {}, Analyzing,
           declarations' = declarations, taken' = taken, next' = next + 1,
           InPlace(next, Name), NEW f \in DeclarationsOf(Name), First(f), HeadIsRight(f),
           \A j \in DOMAIN declarations : j <= next /\ First(j) => Follows(j)'
    PROVE  DuplicateErrors = {} /\ CallErrors = {} /\ MissingResult = {}
              <=> BlockFits(next, declarations[f].list)
<1> DEFINE l == declarations[f].list
           body == declarations[next].body
<1>0. /\ Text /\ next \in Nat /\ next \in DOMAIN declarations /\ DOMAIN declarations \subseteq Nat
      /\ next \in DeclarationsOf(Name) /\ declarations[next].name = Name
      /\ \A x : \A j \in DeclarationsOf(x) : j \in DOMAIN declarations /\ declarations[j].name = x
      /\ Current = declarations[next] /\ Current.body \in Blocks \cup {Forward}
      /\ declarations[f] \in Declaration
    BY CurrentDeclaration, Numbered DEF Inv, Analyzing, DeclarationsOf, Name, Current
<1>1. f <= next /\ f \in Nat
    BY <1>0 DEF First
<1>2. Follows(f)'
    BY <1>0, <1>1
<1>3. Parameters = l /\ l \in ParameterLists
    <2>1. l \in ParameterLists
        BY <1>0 DEF Declaration
    <2>2. declarations[f].name = Name
        BY <1>0
    <2>3. parameters'[Name] = l
        BY <1>2, <2>2 DEF Follows
    <2>4. Parameters = parameters'[Name]
        BY DEF Parameters
    <2> QED
        BY <2>1, <2>3, <2>4
<1>4. Hidden = Collect(l) \cup body.defines
    BY <1>0, <1>3 DEF Hidden
<1>5. ASSUME NEW x, NEW j \in DeclarationsOf(x), j <= next, First(j)
      PROVE  /\ x \notin taken /\ x \in subroutines'
             /\ IsFunctionHere(j) <=> x \in functions'
    <2>1. InPlace(j, x)
        <3>1. j = next \/ j < next
            BY <1>0, <1>5
        <3>2. j < next => IsRight(j)
            BY <1>0 DEF Judged
        <3> QED
            BY <1>0, <3>1, <3>2 DEF IsRight
    <2>2. Introduces(j, x)
        BY <1>0, <1>5, <2>1, FirstBegins DEF Begins
    <2>3. Follows(j)'
        BY <1>0, <1>5
    <2> QED
        BY <1>0, <2>1, <2>2, <2>3 DEF InPlace, Introduces, Follows, IsFunctionHere
<1>6. ASSUME NEW x \in subroutines'
      PROVE  \E j \in DeclarationsOf(x) : First(j) /\ j <= next
    <2>1. PICK i \in 1 .. next' - 1 : i \in DOMAIN declarations /\ declarations[i].name = x
        BY DEF Inv, Entered, IsDefiningPoint, Introduces
    <2>2. i \in DeclarationsOf(x) /\ i <= next /\ i \in Nat
        BY <1>0, <2>1 DEF DeclarationsOf
    <2>3. PICK j \in DeclarationsOf(x) : First(j) /\ j <= i
        BY <1>0, <2>2, FirstOne
    <2>4. j \in Nat
        BY <1>0
    <2> QED
        BY <1>0, <2>2, <2>3, <2>4
<1>7. IsFunctionHere(next) <=> Name \in functions'
    <2>1. CASE First(next)
        <3>1. next <= next
            BY <1>0
        <3> QED
            BY <1>0, <1>5, <2>1, <3>1
    <2>2. CASE ~First(next)
        <3>1. PICK g \in DOMAIN declarations : Begins(g, Name) /\ Completes(next, g)
            BY <2>2 DEF InPlace, Begins
        <3>2. g = f
            BY <1>0, <3>1, OnlyFirst DEF Begins
        <3>3. Name \in functions' <=> declarations[f].heading = "function"
            BY <1>0, <1>2 DEF Follows
        <3> QED
            BY <3>1, <3>2, <3>3 DEF Completes, IsFunctionHere
    <2> QED
        BY <2>1, <2>2
<1>8. ASSUME NEW c \in body.calls
      PROVE  CallsParameter(c) \/ CallsSubroutine(c) <=> CallFits(next, l, c)
    <2>1. c.function \in BOOLEAN
        <3>1. body.calls \subseteq Calls
            <4>1. \A b \in Blocks : b.calls \subseteq Calls
                BY DEF Blocks
            <4>2. Forward.calls = {}
                BY DEF Forward
            <4> QED
                BY <1>0, <4>1, <4>2
        <3> QED
            BY <3>1 DEF Calls
    <2>2. \A k \in DOMAIN l : \A j \in DOMAIN l[k].names : IsDefined(l, k, j)
        BY <1>3, OwnNamesDiffer DEF HeadIsRight
    <2>3. CallsParameter(c) <=>
             \E k \in DOMAIN l :
                l[k].names = <<c.name>> /\ l[k].form = (IF c.function THEN "function" ELSE "procedure")
        <3> HIDE DEF l
        <3> QED
            <4>1. AllDefined(l)
                BY <2>2 DEF AllDefined
            <4>2. IsSubroutineParameter(l, c.name, c.function) <=> IsParameterOf(l, c.name, c.function)
                BY <1>3, <2>1, <4>1, ParametersMean
            <4> QED
                BY <1>3, <4>2, Zenon DEF CallsParameter, IsParameterOf
    <2>4. CallsSubroutine(c) <=>
             /\ c.name \notin Collect(l) \cup body.defines \cup taken
             /\ \E j \in DeclarationsOf(c.name) : First(j) /\ j <= next /\ c.function = IsFunctionHere(j)
        <3>1. IsFunctionHere(next) \in BOOLEAN /\ \A j : IsFunctionHere(j) \in BOOLEAN
            BY DEF IsFunctionHere
        <3> HIDE DEF l, body
        <3>2. ASSUME CallsSubroutine(c)
              PROVE  /\ c.name \notin Collect(l) \cup body.defines \cup taken
                     /\ \E j \in DeclarationsOf(c.name) :
                           First(j) /\ j <= next /\ c.function = IsFunctionHere(j)
            <4>1. c.name \in subroutines' /\ c.name \notin Hidden /\ c.function = (c.name \in functions')
                BY <3>2 DEF CallsSubroutine
            <4>2. PICK j \in DeclarationsOf(c.name) : First(j) /\ j <= next
                BY <1>6, <4>1
            <4>3. c.name \notin taken /\ (IsFunctionHere(j) <=> c.name \in functions')
                BY <1>5, <4>2
            <4> QED
                BY <1>4, <2>1, <3>1, <4>1, <4>2, <4>3
        <3>3. ASSUME c.name \notin Collect(l) \cup body.defines \cup taken,
                     NEW j \in DeclarationsOf(c.name),
                     First(j), j <= next, c.function = IsFunctionHere(j)
              PROVE  CallsSubroutine(c)
            <4>1. c.name \in subroutines' /\ (IsFunctionHere(j) <=> c.name \in functions')
                BY <1>5, <3>3
            <4> QED
                BY <1>4, <2>1, <3>1, <3>3, <4>1 DEF CallsSubroutine
        <3> QED
            BY <3>2, <3>3
    <2> QED
        BY <2>3, <2>4 DEF CallFits
<1>9. DuplicateErrors = {} <=> body.defines \cap Collect(l) = {}
    BY <1>0, <1>3 DEF DuplicateErrors
<1>10. CallErrors = {} <=> \A c \in body.calls : CallFits(next, l, c)
    <2>1. CallErrors = {} <=> \A c \in Current.body.calls : CallsParameter(c) \/ CallsSubroutine(c)
        BY DEF CallErrors
    <2> QED
        BY <1>0, <1>8, <2>1
<1>11. MissingResult = {} <=>
          (IsFunctionHere(next) => body.assigns /\ Name \notin Collect(l) \cup body.defines)
    BY <1>0, <1>4, <1>7 DEF MissingResult
<1> QED
    BY <1>0, <1>9, <1>10, <1>11 DEF BlockFits

LEMMA ContinueJudged ==
    ASSUME Inv, Inv', Judged, Analyzing, NEW fwd, Continue(fwd),
           errors = {} =>
              /\ InPlace(next, Name)
              /\ IsDelayed <=> ~First(next)
              /\ \A j \in DOMAIN declarations : j <= next /\ First(j) => Follows(j)'
    PROVE  Judged'
<1>0. /\ Text /\ next \in Nat /\ next \in DOMAIN declarations /\ DOMAIN declarations \subseteq Nat
      /\ next \in DeclarationsOf(Name) /\ declarations[next].name = Name /\ Name \in Names
      /\ Current = declarations[next] /\ built \in [Names -> SUBSET (1 .. next - 1)]
      /\ DOMAIN declarations = 1 .. Len(declarations) /\ Len(declarations) \in Nat
      /\ HasBlock(next) <=> ~Current.body.forward
    BY CurrentDeclaration, Numbered DEF Inv, Text, Analyzing, DeclarationsOf, Name, Current, HasBlock
<1>1. /\ declarations' = declarations /\ taken' = taken /\ next' = next + 1
      /\ built' = IF HasBlock(next) THEN [built EXCEPT ![Name] = @ \cup {next}] ELSE built
    BY <1>0 DEF Continue
<1>2. \A x \in Names : \A j \in built'[x] : j \in DeclarationsOf(x) /\ HasBlock(j)
    <2>1. ASSUME NEW x \in Names, NEW j \in built'[x]
          PROVE  j \in built[x] \/ (j = next /\ x = Name /\ HasBlock(next))
        BY <1>0, <1>1, <2>1
    <2> QED
        BY <1>0, <2>1 DEF Judged
<1>3. ASSUME errors = {} PROVE Followed'
    <2>1. ASSUME NEW f \in DOMAIN declarations, f < next + 1, First(f) PROVE Follows(f)'
        <3>1. f <= next
            BY <1>0, <2>1
        <3> QED
            BY <1>3, <2>1, <3>1
    <2>2. ASSUME NEW f \in DOMAIN declarations, f < next + 1, HasBlock(f)
          PROVE  f \in built'[declarations[f].name]
        <3>1. CASE f = next
            BY <1>0, <1>1, <2>2, <3>1
        <3>2. CASE f # next
            <4>1. f < next /\ declarations[f] \in Declaration
                BY <1>0, <2>2, <3>2, Numbered
            <4>2. f \in built[declarations[f].name]
                BY <1>3, <2>2, <4>1 DEF Judged, Followed
            <4>3. declarations[f].name \in Names
                BY <4>1 DEF Declaration
            <4> QED
                BY <1>0, <1>1, <4>2, <4>3
        <3> QED
            BY <3>1, <3>2
    <2> QED
        BY <1>1, <2>1, <2>2, SameRules DEF Followed
<1>4. ~Analyzed'
    BY <1>0, <1>1 DEF Analyzed, Last
<1>5. errors' = {} => errors = {}
    BY DEF Continue
<1>6. ASSUME errors = {} PROVE errors' = {} <=> IsRight(next)
    <2>1. PICK f \in DeclarationsOf(Name) : First(f) /\ f <= next
        BY <1>0, FirstOne
    <2>2. IsRight(next) <=>
             /\ First(next) => HeadIsRight(next)
             /\ HasBlock(next) => BlockFits(next, declarations[f].list)
        <3>1. \A g \in DeclarationsOf(Name) : First(g) => g = f
            BY <1>0, <2>1, OnlyFirst
        <3> QED
            BY <1>0, <1>6, <2>1, <3>1 DEF IsRight
    <2>3. HeadingErrors = {} <=> (First(next) => HeadIsRight(next))
        <3>1. HeadingErrors = {} <=>
                 (~IsDelayed => SignatureErrors(Current.list, Current.result, VisibleTypes, Collected) = {})
            BY DEF HeadingErrors
        <3> QED
            BY <1>0, <1>6, <3>1 DEF HeadIsRight
    <2>4. CASE ~HasBlock(next)
        <3>1. errors' = errors \cup HeadingErrors
            BY <1>0, <2>4 DEF Continue
        <3> QED
            BY <1>6, <2>2, <2>3, <2>4, <3>1
    <2>5. CASE HasBlock(next)
        <3>1. errors' = errors \cup HeadingErrors \cup DuplicateErrors \cup CallErrors \cup MissingResult
            BY <1>0, <2>5 DEF Continue
        <3>2. ASSUME HeadingErrors = {} PROVE HeadIsRight(f)
            <4>1. CASE f = next
                BY <2>1, <2>3, <3>2, <4>1
            <4>2. CASE f # next
                <5>1. f \in DOMAIN declarations /\ f < next
                    BY <1>0, <2>1, <4>2 DEF DeclarationsOf
                <5>2. IsRight(f)
                    BY <1>6, <5>1 DEF Judged
                <5> QED
                    BY <2>1, <5>2 DEF IsRight
            <4> QED
                BY <4>1, <4>2
        <3>3. HeadIsRight(f) => (DuplicateErrors = {} /\ CallErrors = {} /\ MissingResult = {}
                                    <=> BlockFits(next, declarations[f].list))
            BY <1>1, <1>6, <2>1, BlocksMean
        <3> QED
            BY <1>6, <2>2, <2>3, <2>5, <3>1, <3>2, <3>3
    <2> QED
        BY <2>4, <2>5
<1>7. errors' = {} <=> \A i \in DOMAIN declarations : i < next + 1 => IsRight(i)
    <2>1. \A i \in DOMAIN declarations : i < next + 1 <=> i < next \/ i = next
        BY <1>0
    <2>2. errors = {} <=> \A i \in DOMAIN declarations : i < next => IsRight(i)
        <3>1. ~Analyzed
            BY <1>0 DEF Analyzed, Last
        <3> QED
            BY <3>1 DEF Judged
    <2> QED
        BY <1>0, <1>5, <1>6, <2>1, <2>2
<1> QED
    BY <1>1, <1>2, <1>3, <1>4, <1>5, <1>7, SameRules DEF Judged

(* What is skipped is not in place.                                        *)
LEMMA SkipJudged ==
    ASSUME Inv, Judged, Analyzing, NEW code, Skip(code), errors = {} => ~InPlace(next, Name)
    PROVE  Judged'
<1>0. /\ next \in Nat /\ next \in DOMAIN declarations /\ DOMAIN declarations = 1 .. Len(declarations)
      /\ Len(declarations) \in Nat /\ declarations[next].name = Name
    BY CurrentDeclaration DEF Analyzing, Name, Current
<1>1. declarations' = declarations /\ taken' = taken /\ next' = next + 1 /\ built' = built
    BY DEF Skip
<1>2. errors' # {}
    BY DEF Skip
<1>3. ~Analyzed /\ ~Analyzed'
    BY <1>0, <1>1 DEF Analyzed, Last
<1>4. \E i \in DOMAIN declarations : i < next + 1 /\ ~IsRight(i)
    <2>1. CASE errors = {}
        BY <1>0, <2>1 DEF IsRight
    <2>2. CASE errors # {}
        <3>1. PICK i \in DOMAIN declarations : i < next /\ ~IsRight(i)
            BY <1>3, <2>2 DEF Judged
        <3> QED
            BY <1>0, <3>1
    <2> QED
        BY <2>1, <2>2
<1> QED
    BY <1>1, <1>2, <1>3, <1>4, SameRules DEF Judged

LEMMA DeclareJudged ==
    ASSUME Inv, Judged, Declare
    PROVE  Judged'
<1>1. Analyzing /\ ~IsDelayed
    BY DEF Declare
<1>2. CASE ~IsDefiningPoint(next, Name) /\ Skip("DUPLICATE_IDENTIFIER")
    <2>1. errors = {} => ~InPlace(next, Name)
        BY <1>1, <1>2, PlacesMean
    <2> QED
        BY <1>1, <1>2, <2>1, SkipJudged
<1>3. CASE IsDefiningPoint(next, Name) /\ Enter
    <2>0. /\ subroutines' = subroutines \cup {Name}
          /\ functions' = IF IsFunction THEN functions \cup {Name} ELSE functions
          /\ parameters' = [parameters EXCEPT ![Name] = Current.list]
          /\ Continue(forward)
          /\ declarations' = declarations
        BY <1>3 DEF Enter, Continue
    <2>1. ASSUME errors = {}
          PROVE  /\ InPlace(next, Name)
                 /\ IsDelayed <=> ~First(next)
                 /\ \A j \in DOMAIN declarations : j <= next /\ First(j) => Follows(j)'
        <3>1. InPlace(next, Name) /\ First(next)
            BY <1>1, <1>3, <2>1, PlacesMean
        <3>2. /\ Text /\ next \in DOMAIN declarations /\ Current = declarations[next]
              /\ DOMAIN declarations \subseteq Nat /\ declarations[next].name = Name /\ Name \in Names
              /\ parameters \in [Names -> ParameterLists] /\ functions \subseteq subroutines
              /\ Current \in Declaration
            BY <1>1, CurrentDeclaration, Numbered DEF Inv, Text, Entered, Analyzing, Name, Current
        <3>3. ASSUME NEW j \in DeclarationsOf(Name), j < next PROVE FALSE
            BY <3>1, <3>2, <3>3, Numbered DEF First
        <3>4. Name \notin subroutines
            BY <3>3, EnteredEarlier
        <3>5. ASSUME NEW j, j = next PROVE Follows(j)'
            <4>1. declarations[next].heading \in {"function", "identification", "procedure"}
                  /\ declarations[next].heading # "identification"
                BY <1>1, <3>2 DEF IsDelayed, Declaration
            <4>2. Name \in functions' <=> declarations[next].heading = "function"
                BY <2>0, <3>2, <3>4, <4>1 DEF IsFunction
            <4>3. Name \in subroutines' /\ parameters'[Name] = declarations[next].list
                BY <2>0, <3>2
            <4> QED
                BY <2>0, <3>2, <3>5, <4>2, <4>3 DEF Follows
        <3>6. ASSUME NEW j \in DOMAIN declarations, j < next, First(j) PROVE Follows(j)'
            <4>1. Follows(j)
                BY <2>1, <3>6 DEF Judged, Followed
            <4>2. declarations[j].name # Name
                BY <3>3, <3>6 DEF DeclarationsOf
            <4>3. declarations[j].name \in Names
                BY <3>6, <3>2, Numbered DEF Declaration
            <4> QED
                BY <2>0, <3>2, <4>1, <4>2, <4>3 DEF Follows
        <3>7. \A j \in DOMAIN declarations : j <= next => j = next \/ j < next
            BY <3>2
        <3> QED
            BY <1>1, <3>1, <3>5, <3>6, <3>7
    <2>2. Inv'
        BY DeclareInv
    <2> QED
        BY <1>1, <2>0, <2>1, <2>2, ContinueJudged
<1> QED
    BY <1>2, <1>3 DEF Declare

LEMMA DeclareDelayedJudged ==
    ASSUME Inv, Judged, DeclareDelayed
    PROVE  Judged'
<1>1. Analyzing /\ IsDelayed
    BY DEF DeclareDelayed
<1>2. ASSUME NEW code, Skip(code), ~(Name \in forward /\ (Name \in functions) = IsFunction)
      PROVE  Judged'
    <2>1. errors = {} => ~InPlace(next, Name)
        BY <1>1, <1>2, PlacesMean
    <2> QED
        BY <1>1, <1>2, <2>1, SkipJudged
<1>3. CASE /\ Name \in forward
           /\ (Name \in functions) = IsFunction
           /\ UNCHANGED block
           /\ Continue(forward \ {Name})
    <2>1. ASSUME errors = {}
          PROVE  /\ InPlace(next, Name)
                 /\ IsDelayed <=> ~First(next)
                 /\ \A j \in DOMAIN declarations : j <= next /\ First(j) => Follows(j)'
        <3>1. InPlace(next, Name) /\ ~First(next)
            BY <1>1, <1>3, <2>1, PlacesMean
        <3>2. ASSUME NEW j \in DOMAIN declarations, j <= next, First(j) PROVE Follows(j)'
            <4>1. j < next
                BY <1>1, <3>1, <3>2, Numbered DEF Inv, Analyzing
            <4>2. Follows(j)
                BY <2>1, <3>2, <4>1 DEF Judged, Followed
            <4>3. declarations' = declarations
                BY <1>3 DEF Continue
            <4> QED
                BY <1>3, <4>2, <4>3 DEF Follows, block
        <3> QED
            BY <1>1, <3>1, <3>2
    <2>2. Inv'
        BY DeclareDelayedInv
    <2> QED
        BY <1>1, <1>3, <2>1, <2>2, ContinueJudged
<1> QED
    BY <1>2, <1>3 DEF DeclareDelayed

(* In the end every name must have a declaration with a block.             *)
LEMMA FinishJudged ==
    ASSUME Inv, Judged, Finish
    PROVE  Judged'
<1>0. /\ Text /\ Len(declarations) \in Nat /\ next = Len(declarations) + 1 /\ next' = next + 1
      /\ DOMAIN declarations = 1 .. Len(declarations) /\ DOMAIN declarations \subseteq Nat
    BY Numbered DEF Inv, Finish, Last
<1>1. declarations' = declarations /\ taken' = taken /\ built' = built /\ UNCHANGED block
    BY DEF Finish
<1>2. ~Analyzed /\ Analyzed' /\ \A i \in DOMAIN declarations : i < next /\ i < next'
    BY <1>0, <1>1 DEF Analyzed, Last
<1>3. errors = {} => Followed'
    <2>1. \A f : Follows(f)' <=> Follows(f)
        BY <1>1 DEF Follows, block
    <2> QED
        BY <1>1, <1>2, <2>1, SameRules DEF Judged, Followed
<1>4. errors' = {} => errors = {}
    BY DEF Finish
<1>5. ASSUME errors = {}
      PROVE  errors' = {} <=> \A i \in DOMAIN declarations : IsFollowed(i)
    <2> DEFINE N(i) == declarations[i].name
    <2>1. errors' = {} <=> \A i \in DOMAIN declarations : ~(N(i) \in forward /\ IsDefiningPoint(i, N(i)))
        BY <1>5 DEF Finish
    <2>2. ASSUME NEW i \in DOMAIN declarations, N(i) \in forward
          PROVE  ~IsFollowed(i)
        <3>1. Open(next, N(i))
            BY <1>5, <2>2, ForwardOpen
        <3> QED
            BY <1>2, <3>1, Numbered, <1>0 DEF Open, IsFollowed
    <2>3. ASSUME NEW i \in DOMAIN declarations, ~IsFollowed(i)
          PROVE  \E f \in DOMAIN declarations : N(f) \in forward /\ IsDefiningPoint(f, N(f))
        <3>1. i \in DeclarationsOf(N(i))
            BY DEF DeclarationsOf
        <3>2. N(i) \in subroutines /\ N(i) \notin taken
              /\ \E f \in DOMAIN declarations : Begins(f, N(i)) /\ f <= i /\ f < next
            BY <1>2, <1>5, <3>1, EarlierBegins
        <3>3. PICK f \in DOMAIN declarations : Begins(f, N(i)) /\ f < next
            BY <3>2
        <3>4. N(i) \in forward
            <4>1. Open(next, N(i))
                BY <2>3 DEF Open, IsFollowed
            <4> QED
                BY <1>5, <3>2, <4>1, ForwardOpen
        <3>5. N(f) = N(i) /\ Introduces(f, N(i))
            BY <3>3 DEF Begins, DeclarationsOf
        <3>6. ASSUME NEW j \in 1 .. f - 1, Introduces(j, N(i)) PROVE FALSE
            <4>1. j \in DOMAIN declarations /\ j < f /\ f \in Nat
                BY <1>0
            <4>2. j \in DeclarationsOf(N(f))
                BY <3>5, <3>6, <4>1 DEF DeclarationsOf, Introduces
            <4>3. f <= j
                BY <3>3, <4>2 DEF Begins, First
            <4> QED
                BY <1>0, <4>1, <4>3
        <3> QED
            BY <3>2, <3>4, <3>5, <3>6 DEF IsDefiningPoint
    <2> QED
        BY <2>1, <2>2, <2>3
<1>6. errors = {} <=> \A i \in DOMAIN declarations : IsRight(i)
    BY <1>2 DEF Judged
<1>7. errors' = {} <=> \A i \in DOMAIN declarations : IsRight(i) /\ IsFollowed(i)
    BY <1>4, <1>5, <1>6
<1>8. \A x \in Names : \A j \in built[x] : j \in DeclarationsOf(x) /\ HasBlock(j)
    BY DEF Judged
<1> QED
    BY <1>1, <1>2, <1>3, <1>4, <1>7, <1>8, SameRules DEF Judged

(* Along every behaviour, there are no errors exactly as long as every     *)
(* declaration that was seen is right.                                     *)
THEOREM SubroutinesJudged == Spec => []Judged
<1>1. Init => Judged
    <2> SUFFICES ASSUME Init PROVE Judged
        OBVIOUS
    <2>1. Inv
        BY InitInv
    <2>2. Len(declarations) \in Nat /\ DOMAIN declarations = 1 .. Len(declarations)
        BY <2>1, Numbered DEF Inv
    <2>3. ~Analyzed /\ \A i \in DOMAIN declarations : ~(i < next)
        BY <2>2 DEF Init, Analyzed, Last
    <2> QED
        BY <2>3 DEF Init, Judged, Followed
<1>2. Inv /\ Judged /\ [Next]_vars => Judged'
    <2> SUFFICES ASSUME Inv, Judged, [Next]_vars PROVE Judged'
        OBVIOUS
    <2>1. CASE Declare
        BY <2>1, DeclareJudged
    <2>2. CASE DeclareDelayed
        BY <2>2, DeclareDelayedJudged
    <2>3. CASE Finish
        BY <2>3, FinishJudged
    <2>4. CASE UNCHANGED vars
        <3>1. declarations' = declarations /\ taken' = taken /\ next' = next /\ built' = built
              /\ errors' = errors /\ UNCHANGED block
            BY <2>4 DEF vars
        <3>2. \A f : Follows(f)' <=> Follows(f)
            BY <3>1 DEF Follows, block
        <3>3. Followed' <=> Followed
            BY <3>1, <3>2, SameRules DEF Followed
        <3>4. Analyzed' <=> Analyzed
            BY <3>1 DEF Analyzed, Last
        <3> QED
            BY <3>1, <3>3, <3>4, SameRules DEF Judged
    <2> QED
        BY <2>1, <2>2, <2>3, <2>4 DEF Next, Done
<1> QED
    BY <1>1, <1>2, SubroutinesInvariant, PTL DEF Spec

(* analyzeSubroutineDeclarations() finds no error exactly in a block whose *)
(* declarations are legal: each heading with all lists in it where it      *)
(* stands, the declarations of each name one after another, and each block *)
(* with the parameters of the first heading, however deep the lists are.   *)
THEOREM SubroutinesVerdict == Spec => []AcceptedIffLegal
<1>1. Inv /\ Judged => AcceptedIffLegal
    <2> SUFFICES ASSUME Inv, Judged, Analyzed PROVE errors = {} <=> Legal
        BY DEF AcceptedIffLegal
    <2>1. Text /\ \A i \in DOMAIN declarations : i < next
        BY Numbered DEF Inv, Analyzed, Last
    <2> QED
        BY <2>1, LegalMeans DEF Judged
<1> QED
    BY <1>1, SubroutinesInvariant, SubroutinesJudged, PTL
=============================================================================
