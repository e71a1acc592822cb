---------------------------- MODULE SubroutineRules ----------------------------
(***************************************************************************)
(* What the rules of Pascal ask of the procedure and function declarations *)
(* of a block, taken together, and the properties that hold the analysis   *)
(* against them.                                                           *)
(***************************************************************************)
EXTENDS Subroutines

DeclarationsOf(x) == {i \in DOMAIN declarations : declarations[i].name = x}
HasBlock(i) == ~declarations[i].body.forward
First(i) == \A j \in DeclarationsOf(declarations[i].name) : i <= j
IsFunctionHere(i) == declarations[i].heading \in {"function", "identification"}

-----------------------------------------------------------------------------
(* Headings.                                                               *)

(* The region of a name in a list is that list and all lists within it, of *)
(* a name declared in the block the whole block.  In regions x is a type.  *)
Denotes(x, regions) ==
    /\ x \in DOMAIN TypeForms \ regions
    /\ x \in taken \/ DeclarationsOf(x) = {}

DenotesOneOf(forms, x, regions) == Denotes(x, regions) /\ TypeForms[x] \in forms

(* Every name and bound of a list has one meaning.                         *)
NamesDiffer(l) ==
    \A h, k \in DOMAIN l : \A i \in DOMAIN Defines(l[h]), j \in DOMAIN Defines(l[k]) :
        Defines(l[h])[i] = Defines(l[k])[j] => h = k /\ i = j

TypesAreRight(s, regions) ==
    /\ \A spec \in {s.indexes[i] : i \in DOMAIN s.indexes} :
          DenotesOneOf({"ordinal"}, spec.type, regions)
    /\ s.form = "variable" => Denotes(s.type, regions)
    /\ s.form = "value" => DenotesOneOf(Forms \ {"file"}, s.type, regions)
    /\ s.form = "function" => DenotesOneOf({"ordinal", "real", "pointer"}, s.type, regions)

ListIsLegal[l \in ParameterLists] ==
    [around \in SUBSET Identifiers |->
        LET regions == around \cup Collect(l)
        IN  /\ NamesDiffer(l)
            /\ \A k \in DOMAIN l :
                  /\ TypesAreRight(l[k], regions)
                  /\ IsHeading(l[k]) => ListIsLegal[l[k].list][regions]]

HeadingIsLegal(i) ==
    /\ ListIsLegal[declarations[i].list][{}]
    /\ declarations[i].heading = "function" =>
          DenotesOneOf({"ordinal", "real", "pointer"}, declarations[i].result, {})

-----------------------------------------------------------------------------
(* Declarations and their blocks.                                          *)

(* Declaration j may complete the forward declaration i.                   *)
Completes(j, i) ==
    /\ i < j /\ declarations[i].name = declarations[j].name
    /\ ~HasBlock(i) /\ declarations[j].list = <<>>
    /\ declarations[j].heading =
          IF declarations[i].heading = "function" THEN "identification" ELSE "procedure"

(* One declaration with a block, or forward ones and then one with it.     *)
(* More than one forward declaration is more than Pascal allows, and as    *)
(* much as the analysis does.                                              *)
DeclaredWell(x) ==
    /\ x \notin taken
    /\ \E b \in DeclarationsOf(x) :
          /\ HasBlock(b)
          /\ \E i \in DeclarationsOf(x) :
                /\ First(i) /\ Introduces(i, x)
                /\ \A j \in DeclarationsOf(x) \ {i} : j <= b /\ Completes(j, i)
          /\ \A j \in DeclarationsOf(x) \ {b} : ~HasBlock(j)

(* The list that declaration i shares with the first one of its name.      *)
ListOf(i) == declarations[CHOOSE j \in DeclarationsOf(declarations[i].name) : First(j)].list
OwnNames(i) == Collect(ListOf(i))

CallIsRight(i, c) ==
    \/ \E s \in {ListOf(i)[k] : k \in DOMAIN ListOf(i)} :
          s.names = <<c.name>> /\ s.form = (IF c.function THEN "function" ELSE "procedure")
    \/ /\ c.name \notin OwnNames(i) \cup declarations[i].body.defines \cup taken
       /\ \E j \in DeclarationsOf(c.name) :
             First(j) /\ j <= i /\ c.function = IsFunctionHere(j)

BlockIsLegal(i) ==
    LET body == declarations[i].body
    IN  /\ body.defines \cap OwnNames(i) = {}
        /\ \A c \in body.calls : CallIsRight(i, c)
        /\ IsFunctionHere(i) =>
              body.assigns /\ declarations[i].name \notin OwnNames(i) \cup body.defines

Legal ==
    \A i \in DOMAIN declarations :
        /\ HeadingIsLegal(i)
        /\ DeclaredWell(declarations[i].name)
        /\ HasBlock(i) => BlockIsLegal(i)

-----------------------------------------------------------------------------
(* Properties.                                                             *)

(* The maps of the block are about names that the declarations seen so far *)
(* have introduced, none of them defined otherwise.                        *)
TypeOK ==
    /\ next \in 1 .. Len(declarations) + 2
    /\ subroutines \subseteq {x \in Names \ taken : \E i \in 1 .. next - 1 :
                                 i \in DOMAIN declarations /\ Introduces(i, x)}
    /\ functions \subseteq subroutines
    /\ parameters \in [Names -> ParameterLists]
    /\ built \in [Names -> SUBSET (1 .. next - 1)]
    /\ \A e \in errors : e.at \in DOMAIN declarations

(* No block is built twice, by whatever sequence of forward, delayed and   *)
(* mismatched declarations, and the forward declarations that are waiting  *)
(* for one are exactly the subroutines without a block.                    *)
BuiltOnce ==
    /\ forward = {x \in subroutines : built[x] = {}}
    /\ \A x \in Names : \A i, j \in built[x] : i = j

(* In a block without errors, every subroutine has its block, and every    *)
(* call leads to a parameter of its own subroutine or to such a subroutine *)
(* of the kind it was called as, although it was resolved before the block *)
(* was there.                                                              *)
CallsAreComplete ==
    Analyzed /\ errors = {} =>
        /\ \A x \in subroutines : built[x] # {}
        /\ \A i \in DOMAIN declarations : \A c \in declarations[i].body.calls :
              \E r \in calls :
                  /\ r.at = i /\ r.call = c
                  /\ \/ r.parameter
                     \/ c.name \in subroutines /\ c.function = (c.name \in functions)

(* The declarations of a block are accepted exactly if each heading is     *)
(* legal in its place, each name is declared and completed by the rules,   *)
(* and each block is legal with the parameters of the first heading.       *)
AcceptedIffLegal == Analyzed => (errors = {} <=> Legal)
=============================================================================
