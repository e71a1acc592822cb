---------------------------- MODULE StatementRules ----------------------------
(***************************************************************************)
(* What the rules of Pascal say about a finished syntax tree, read off the *)
(* tree as a whole and not in the order of the analysis, and the           *)
(* properties that hold the StatementBuilder against them.                 *)
(***************************************************************************)
EXTENDS Statements

Nodes == DOMAIN tree
Is(n, form) == tree[n].form = form
Blocks == {n \in Nodes : Is(n, "block")}

(* The nodes around a node: a statement is in statements and blocks, a     *)
(* block in other blocks.                                                  *)
Above[n \in Nodes] ==
    IF tree[n].parent = 0 THEN {} ELSE {tree[n].parent} \cup Above[tree[n].parent]

(* The scopes inside a node: a block opens one, a with statement as many   *)
(* as it names records.                                                    *)
Opens(n) == IF Is(n, "block") THEN 1 ELSE IF Is(n, "with") THEN Len(tree[n].arg) ELSE 0
Depth[n \in Nodes] ==
    Opens(n) + (IF tree[n].parent = 0 THEN 0 ELSE Depth[tree[n].parent])

Innermost(S) == CHOOSE n \in S : \A m \in S : m <= n
BlockOf(n) == Innermost(Blocks \cap Above[n])

-----------------------------------------------------------------------------
(* Labels.                                                                 *)

Prefixed(b, l) == {n \in Nodes \ Blocks : tree[n].label = l /\ BlockOf(n) = b}

LabelsAreRight ==
    /\ \A b \in Blocks : tree[b].repeated = NoLabel
    /\ \A b \in Blocks : \A l \in tree[b].labels : Cardinality(Prefixed(b, l)) = 1
    /\ \A n \in Nodes \ Blocks : tree[n].label \in tree[BlockOf(n)].labels \cup {NoLabel}

(* A goto may lead to a statement that contains it, to one of a statement  *)
(* sequence that contains it, or, from a procedure or function, to one at  *)
(* the top level of a block around it.                                     *)
LegalGoto(g) ==
    LET l == tree[g].arg
        declaring == {b \in Blocks \cap Above[g] : l \in tree[b].labels}
    IN  /\ declaring # {}
        /\ \E s \in Prefixed(Innermost(declaring), l) :
              \/ s \in Above[g] \cup {g}
              \/ tree[s].inSequence /\ tree[s].parent \in Above[g]

Gotos == {n \in Nodes : Is(n, "goto")}

-----------------------------------------------------------------------------
(* Identifiers.                                                            *)

Declares(n, x) ==
    CASE Is(n, "block") -> tree[n].names[x] # "none"
      [] Is(n, "with") -> tree[n].fine /\ \E k \in DOMAIN tree[n].arg : x \in tree[n].arg[k]
      [] OTHER -> FALSE
DeclaringNodes(n, x) == {m \in Above[n] : Declares(m, x)}
Meaning(n, x) == IF DeclaringNodes(n, x) = {} THEN 0 ELSE Innermost(DeclaringNodes(n, x))
UseIn(b, x) ==
    CASE b = 0 -> "none"
      [] b # 0 /\ Is(b, "block") -> tree[b].names[x]
      [] OTHER -> "field"

Accesses == {n \in Nodes : tree[n].form \in {"assignment", "procedure", "read", "for"}}
VariablesOf(b) == {x \in Names : IsVariable(UseIn(b, x))}

(* The function x declared by block b, seen from node n inside it.         *)
FunctionBlocks(n, b, x) ==
    {f \in Blocks \cap Above[n] : tree[f].parent = b /\ tree[f].arg = x}

LegalAccess(n) ==
    LET x == tree[n].arg
        b == Meaning(n, x)
    IN  IF Is(n, "for") THEN b = BlockOf(n) /\ UseIn(b, x) = "ordinal"
        ELSE \/ UseIn(b, x) \in {"ordinal", "other", "parameter", "field"}
             \/ /\ Is(n, "assignment") /\ UseIn(b, x) = "function"
                /\ FunctionBlocks(n, b, x) # {}

NeedsInput == {n \in Nodes : tree[n].form \in {"read", "readln"}}

-----------------------------------------------------------------------------
(* Control variables and results.                                          *)

(* The nodes that threaten the variable x of block b.                      *)
Threats(b, x) == {n \in Accesses : tree[n].arg = x /\ Meaning(n, x) = b}

Fors == {n \in Nodes : Is(n, "for")}
ThreatenedFrom(f) == {n \in Threats(BlockOf(f), tree[f].arg) : BlockOf(n) # BlockOf(f)}
ThreatenedInside(f) == {n \in Threats(BlockOf(f), tree[f].arg) : f \in Above[n]}

FunctionsAssign ==
    \A f \in Blocks : tree[f].use = "function" =>
        \E n \in Nodes :
            /\ Is(n, "assignment") /\ f \in Above[n]
            /\ tree[n].arg = tree[f].arg /\ Meaning(n, tree[f].arg) = tree[f].parent

Legal ==
    /\ LabelsAreRight
    /\ \A g \in Gotos : LegalGoto(g)
    /\ \A n \in Accesses : LegalAccess(n)
    /\ \A n \in NeedsInput : tree[1].input
    /\ \A f \in Fors : ThreatenedFrom(f) \cup ThreatenedInside(f) = {}
    /\ FunctionsAssign
    /\ \A n \in Nodes \ Blocks : tree[n].fine

-----------------------------------------------------------------------------
(* Properties.                                                             *)

Codes == {"UNDEFINED_LABEL", "AMBIGUOUS_LABEL", "DUPLICATE_LABEL", "UNUSED_LABEL",
          "DISALLOWED_GOTO_TARGET", "NON_BOOLEAN_TYPE", "NON_ORDINAL_TYPE", "DUPLICATE_CASE",
          "NON_RECORD_TYPE", "TYPE_MISMATCH", "UNDEFINED_IDENTIFIER", "WRONG_IDENTIFIER_KIND",
          "THREATENED_CONTROL_VARIABLE", "MISSING_RESULT_ASSIGNMENT"}
With(code) == {e.at : e \in {f \in errors : f.code = code}}

(* The number of scopes in which a task is done.                           *)
Home(t) == IF t.op \in {"leaveWith", "leaveBlock"} THEN t.node ELSE t.parent
DepthAt(t) == IF Home(t) = 0 THEN 0 ELSE Depth[Home(t)]

(* The scopes alive are those of the blocks and with statements around    *)
(* what is done next, and nothing is kept in them about names and labels   *)
(* that were not declared.                                                 *)
TypeOK ==
    /\ \A e \in errors : e.code \in Codes /\ e.at \in Nodes
    /\ Len(scopes) = IF tasks = <<>> THEN 0 ELSE DepthAt(Task)
    /\ \A k \in Indices :
          /\ Parent(k).threats \subseteq VariablesOf(Parent(k).node)
          /\ Parent(k).kind = "block" =>
                DOMAIN Parent(k).labels = tree[Parent(k).node].labels
          /\ Parent(k).assigned => tree[Parent(k).node].use = "function"

(* The statement part of a program is accepted exactly if it obeys the     *)
(* rules about labels, goto statements, control variables and function     *)
(* results, although they are checked in one pass, and although the        *)
(* analysis leaves out parts of statements that are already wrong.         *)
AcceptedIffLegal == tasks = <<>> => (errors = {} <=> Legal)

(* If the labels are right, DISALLOWED_GOTO_TARGET is reported for exactly *)
(* the goto statements that may not lead to their label, also when blocks  *)
(* redeclare the labels of others.                                         *)
GotosAreExact ==
    tasks = <<>> /\ LabelsAreRight =>
        With("DISALLOWED_GOTO_TARGET")
            = {g \in Gotos : ~LegalGoto(g) /\ g \notin With("UNDEFINED_LABEL")}

(* If all accesses are legal, THREATENED_CONTROL_VARIABLE is reported for  *)
(* exactly the for statements whose variable a procedure or function of    *)
(* the block threatens, and the statements in a loop that threaten its     *)
(* variable.                                                               *)
ThreatsAreExact ==
    tasks = <<>> /\ (\A n \in Accesses : LegalAccess(n)) /\ (NeedsInput = {} \/ tree[1].input) =>
        With("THREATENED_CONTROL_VARIABLE")
            = {f \in Fors : ThreatenedFrom(f) # {}} \cup UNION {ThreatenedInside(f) : f \in Fors}

(* How many scopes an applied occurrence at n is away from block b.        *)
Distance(n, b) == Depth[tree[n].parent] - Depth[b]

(* How many of the scopes a node opens come after the one with x.          *)
After(m, x) ==
    IF Is(m, "block") THEN 0
    ELSE Len(tree[m].arg) - Innermost({j \in DOMAIN tree[m].arg : x \in tree[m].arg[j]})

(* The scope index kept for a later stage leads from where the statement   *)
(* stands to the block or with statement that declares what it names,      *)
(* through any number of them, whatever they declare again.                *)
ReferencesLeadHome ==
    /\ \A n \in Accesses : \A k \in tree[n].refers :
          LET x == tree[n].arg
          IN  k = Distance(n, Meaning(n, x)) + After(Meaning(n, x), x)
    /\ \A n \in Gotos : \A k \in tree[n].refers :
          k = Distance(n, Innermost({b \in Blocks \cap Above[n] : tree[n].arg \in tree[b].labels}))

(* VariableAccessVariableId::variableType() asserts that its scope index   *)
(* leads to a block; for the file that readln means, to the program's.     *)
BuiltinFilesLeadHome ==
    \A n \in Nodes : Is(n, "readln") => \A k \in tree[n].refers : k = Distance(n, 1)
=============================================================================
