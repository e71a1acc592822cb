-------------------------------- MODULE Headings --------------------------------
(***************************************************************************)
(* resolveSignature() of semantics-analyze.cxx: the formal parameter lists *)
(* of headings, with conformant array schemas and with the headings of     *)
(* procedural and functional parameters, which have lists of their own.    *)
(*                                                                         *)
(* A schema is the sequence of all its index type specifications, those of *)
(* a component schema after its own, and the type that is left in the end. *)
(* Whether an array is packed makes no difference here.                    *)
(***************************************************************************)
EXTENDS Naturals, Sequences

CONSTANTS
    Identifiers,        \* of parameters, bounds, types and subroutines
    TypeForms,          \* what is known of the types around the headings
    ParameterLists,     \* the lists of all headings, the empty one among them
    Nesting             \* of each list, how deep the lists within it go

(* A file is what cannot be a component of a file, or contains such.       *)
Forms == {"ordinal", "real", "pointer", "structured", "file"}

(* The type of the section of a procedure, which has none.                 *)
None == "none"

IsHeading(s) == s.form \in {"procedure", "function"}

(* The grammar has one name in a heading, and one or more in a regular     *)
(* section, which has no list of its own.                                  *)
IndexTypes == [low : Identifiers, high : Identifiers, type : Identifiers]
Section ==
    {s \in [form : {"value", "variable", "procedure", "function"}, names : Seq(Identifiers),
            indexes : Seq(IndexTypes), type : Identifiers \cup {None}, list : ParameterLists] :
        /\ s.names # <<>> /\ (s.type = None) = (s.form = "procedure")
        /\ IF IsHeading(s) THEN Len(s.names) = 1 /\ s.indexes = <<>> ELSE s.list = <<>>}

ASSUME TypeFormsAssumption ==
    /\ DOMAIN TypeForms \subseteq Identifiers /\ None \notin Identifiers
    /\ \A t \in DOMAIN TypeForms : TypeForms[t] \in Forms

ASSUME ListsAssumption ==
    /\ <<>> \in ParameterLists
    /\ \A l \in ParameterLists : l \in Seq(Section)

(* A parse tree is finite.                                                 *)
ASSUME NestingAssumption ==
    /\ Nesting \in [ParameterLists -> Nat]
    /\ \A l \in ParameterLists : \A k \in DOMAIN l :
          IsHeading(l[k]) => Nesting[l[k].list] < Nesting[l]

-----------------------------------------------------------------------------
(* The scope of a list, collected before anything is resolved.             *)

(* The bounds of a section: of each index type the smallest and largest.   *)
Bounds(s) ==
    [b \in 1 .. 2 * Len(s.indexes) |->
        LET spec == s.indexes[(b + 1) \div 2] IN IF b % 2 = 1 THEN spec.low ELSE spec.high]

(* All that a section defines, in the order of the text.                   *)
Defines(s) == s.names \o Bounds(s)
Collect(l) == UNION {{Defines(l[k])[j] : j \in DOMAIN Defines(l[k])} : k \in DOMAIN l}

(* Identifier j of section k is the defining point of its name: not so for *)
(* checkDuplicateIdentifier().                                             *)
IsDefined(l, k, j) ==
    \A h \in 1 .. k : \A i \in DOMAIN Defines(l[h]) :
        h < k \/ i < j => Defines(l[h])[i] # Defines(l[k])[j]

(* The names a regular section is left with, or that of its heading.       *)
HasName(l, k) == \E j \in DOMAIN l[k].names : IsDefined(l, k, j)

-----------------------------------------------------------------------------
(* What is wrong with a list, within scopes that define the names hidden,  *)
(* in a block in which types are visible and the names known are not.      *)

(* resolveTypeDenoter() of an identifier.  Whether a name is no type, or   *)
(* is only defined later, is told apart in Definitions.                    *)
TypeErrors(x, hidden, types, known) ==
    IF x \in hidden THEN {"WRONG_IDENTIFIER_KIND"}
    ELSE IF x \in types THEN {}
    ELSE IF x \in known THEN {"WRONG_IDENTIFIER_KIND"} ELSE {"UNDEFINED_IDENTIFIER"}

Of(forms) == {t \in DOMAIN TypeForms : TypeForms[t] \in forms}

Unless(sound, code) == IF sound THEN {} ELSE {code}

(* Of the checks made one after another, the first that fails is reported. *)
FirstErrors(checks) ==
    UNION {checks[i] : i \in {i \in DOMAIN checks : \A j \in 1 .. i - 1 : checks[j] = {}}}

(* resolveTypeOrSchema(): the component type comes first, then the index   *)
(* types from the last one to the first.                                   *)
ParameterTypeErrors(l, k, hidden, types, known) ==
    LET s == l[k]
        Place(i) == Len(s.names) + 2 * i
        Last == Len(s.indexes)
        IndexErrors(i) == FirstErrors(<<
            Unless(IsDefined(l, k, Place(i) - 1) /\ IsDefined(l, k, Place(i)),
                   "DUPLICATE_IDENTIFIER"),
            TypeErrors(s.indexes[i].type, hidden, types, known),
            Unless(s.indexes[i].type \in Of({"ordinal"}), "NON_ORDINAL_TYPE")>>)
    IN  FirstErrors(
            <<TypeErrors(s.type, hidden, types, known)>>
            \o [i \in 1 .. Last |-> IndexErrors(Last + 1 - i)]
            \o <<Unless(s.form = "value" => s.type \notin Of({"file"}), "DISALLOWED_PARAMETER_TYPE")>>)

ResultErrors(x, hidden, types, known) ==
    IF x = None THEN {}
    ELSE FirstErrors(<<TypeErrors(x, hidden, types, known),
                       Unless(x \in Of({"ordinal", "real", "pointer"}), "DISALLOWED_RESULT_TYPE")>>)

(* What is found in a list itself, the lists within it left aside.         *)
ListErrors(l, hidden, types, known) ==
    UNION {
        (UNION {Unless(IsDefined(l, k, j), "DUPLICATE_IDENTIFIER") : j \in DOMAIN l[k].names})
        \cup (IF ~HasName(l, k) THEN {}
              ELSE IF IsHeading(l[k]) THEN ResultErrors(l[k].type, hidden, types, known)
              ELSE ParameterTypeErrors(l, k, hidden, types, known))
        : k \in DOMAIN l}

(* The lists that are resolved together with list l, each with the names   *)
(* of its own scope and of those around it.  A heading whose name is a     *)
(* duplicate is not looked into.                                           *)
ResolvedLists[l \in ParameterLists] ==
    [around \in SUBSET Identifiers |->
        LET hidden == around \cup Collect(l)
        IN  {[list |-> l, hidden |-> hidden]}
            \cup UNION {ResolvedLists[l[k].list][hidden] :
                            k \in {k \in DOMAIN l : IsHeading(l[k]) /\ HasName(l, k)}}]

(* The result type of the heading itself belongs to the scope around it.   *)
SignatureErrors(l, result, types, known) ==
    ResultErrors(result, {}, types, known)
    \cup UNION {ListErrors(r.list, r.hidden, types, known) : r \in ResolvedLists[l][{}]}

(* A call of x in the block of a heading with list l calls a parameter.    *)
IsSubroutineParameter(l, x, isFunction) ==
    \E k \in DOMAIN l :
        /\ l[k].form = (IF isFunction THEN "function" ELSE "procedure")
        /\ \E j \in DOMAIN l[k].names : l[k].names[j] = x /\ IsDefined(l, k, j)
=============================================================================
