------------------------------ MODULE Statements ------------------------------
(***************************************************************************)
(* buildBlock() and the StatementBuilder of semantics-analyze.cxx: what    *)
(* they keep about labels, control variables and function results while    *)
(* they go through the blocks and statements of a program.                 *)
(*                                                                         *)
(* The syntax tree is not given beforehand: each step chooses the next     *)
(* piece of it among all that the grammar allows, and "tree" records what  *)
(* was chosen.  C++'s call stack is "tasks"; the chain of sem::Scope       *)
(* objects that are alive is "scopes", the innermost last.  Expressions    *)
(* and types are reduced to whether they are right.                        *)
(***************************************************************************)
EXTENDS Naturals, FiniteSets, SequencesExt

CONSTANT Vocabularies   \* what programs may be made of, see Vocabulary

NoLabel == 0
Uses == {"none", "ordinal", "other", "parameter", "field", "function", "procedure"}

(* The labels and identifiers of a program, the forms of its statements,    *)
(* what a block of it may declare each name as, the fields of the records  *)
(* its with statements may open; and two bounds: the statements in one of  *)
(* its statement sequences, and its blocks and statements together.        *)
IsVocabulary(v) ==
    /\ v.labels \subseteq Nat \ {NoLabel}
    /\ v.declarations \subseteq [v.names -> Uses \ {"field"}]
    /\ v.fieldLists \subseteq Seq(SUBSET v.names) \ {<<>>}
    /\ v.maxSequence \in Nat /\ v.maxNodes \in Nat

ASSUME VocabulariesAssumption == \A v \in Vocabularies : IsVocabulary(v)

VARIABLES
    vocabulary, \* that of the program at hand
    tasks,      \* what is still to be done, the next first
    scopes,
    errors,     \* the errors reported: the code and the node
    tree        \* history: the nodes of the program, numbered as visited

analysis == <<tasks, scopes, errors, tree>>
vars == <<vocabulary, tasks, scopes, errors, tree>>

Labels == vocabulary.labels
Names == vocabulary.names
Forms == vocabulary.forms
Declarations == vocabulary.declarations
FieldLists == vocabulary.fieldLists

-----------------------------------------------------------------------------
(* Scopes.                                                                 *)

BlockScope(node, uses, labels) ==
    [kind |-> "block", node |-> node, names |-> uses,
     labels |-> [l \in labels |-> 0],   \* Label::prefixing_occurrence, 0 if none
     threats |-> {},                    \* Variable::subroutine_threat_location
     assigned |-> FALSE]                \* Subroutine::contains_result_assignment_

(* The scope of a StatementWith.                                           *)
WithScope(node, fields) ==
    [BlockScope(node, [x \in Names |-> IF x \in fields THEN "field" ELSE "none"], {})
        EXCEPT !.kind = "with"]

(* Scope::parent(index), and its place in scopes.                          *)
At(index) == Len(scopes) - index
Parent(index) == scopes[At(index)]
Indices == 0 .. Len(scopes) - 1
Least(S) == CHOOSE k \in S : \A j \in S : k <= j

(* Slip: with statements are passed over.                                  *)
DeclaringInBlocks(x) == {k \in Indices : Parent(k).kind = "block" /\ Parent(k).names[x] # "none"}

(* Scope::lookup(): the least of these.                                    *)
Declaring(x) == {k \in Indices : Parent(k).names[x] # "none"}
BlockIndices == {k \in Indices : Parent(k).kind = "block"}
ClosestContainingBlock == Least(BlockIndices)

-----------------------------------------------------------------------------
(* Tasks.                                                                  *)

(* A call of resolveStatement() by a builder with these allowed targets    *)
(* and used control variables.                                             *)
StatementTask(label, parent, inSequence, allowed, used) ==
    [op |-> "statement", label |-> label, parent |-> parent, inSequence |-> inSequence,
     allowed |-> allowed, used |-> used]
BlockTask(name, use, parent, allowed) ==
    [op |-> "block", name |-> name, use |-> use, parent |-> parent, allowed |-> allowed]
SubroutinesTask(names, parent, allowed) ==
    [op |-> "subroutines", names |-> names, parent |-> parent, allowed |-> allowed]
LeaveTask(op, node, name, count) == [op |-> op, node |-> node, name |-> name, count |-> count]

Task == Head(tasks)
Doing(op) == tasks # <<>> /\ Task.op = op
Id == Len(tree) + 1
Err(code) == [code |-> code, at |-> Id]
ErrIf(condition, code) == IF condition THEN {Err(code)} ELSE {}

(* What a statement sequence looks like from outside.                      *)
LabelChoices == Labels \cup {NoLabel}
Skeletons == UNION {[1 .. n -> LabelChoices] : n \in 1 .. vocabulary.maxSequence}
LabelsOf(skeleton) == Range(skeleton) \ {NoLabel}

Weight(t) ==
    CASE t.op = "subroutines" -> 2 * Cardinality(t.names)
      [] t.op = "block" -> 2
      [] t.op = "statement" -> 1
      [] OTHER -> 0
(* The program can still be completed within the bound.                    *)
Fits(ts) == Id + FoldSeq(LAMBDA t, n : Weight(t) + n, 0, ts) <= vocabulary.maxNodes

-----------------------------------------------------------------------------
(* resolveStatement(): the label that prefixes the statement.              *)

Own == scopes[At(ClosestContainingBlock)].labels
Declared == Task.label \in DOMAIN Own
FirstPrefix == Task.label # NoLabel /\ Declared /\ Own[Task.label] = 0

LabelErrors ==
    ErrIf(Task.label # NoLabel /\ ~Declared, "UNDEFINED_LABEL")
    \cup ErrIf(Declared /\ ~FirstPrefix, "AMBIGUOUS_LABEL")
PrefixedScopes ==
    IF FirstPrefix THEN [scopes EXCEPT ![At(ClosestContainingBlock)].labels[Task.label] = Id]
                ELSE scopes
Allowed == Task.allowed \cup (IF FirstPrefix THEN {Task.label} ELSE {})

Resolving(form) == Doing("statement") /\ form \in Forms

(* Resolves the statement at hand as one of the given form, which names    *)
(* arg, refers to it by that scope index if it could be resolved, and has  *)
(* these statements inside.                                                *)
Resolve(form, arg, refers, fine, errs, newScopes, inside) ==
    /\ Fits(inside \o Tail(tasks))
    /\ tasks' = inside \o Tail(tasks)
    /\ scopes' = newScopes
    /\ errors' = errors \cup LabelErrors \cup errs
    /\ tree' = Append(tree, [form |-> form, label |-> Task.label, parent |-> Task.parent,
                             inSequence |-> Task.inSequence, arg |-> arg, refers |-> refers,
                             fine |-> fine])

(* Slip: the labels of a sequence are not looked at before its statements. *)
SequenceTasksOnlyOuter(skeleton, parent, allowed, used) ==
    [k \in DOMAIN skeleton |-> StatementTask(skeleton[k], parent, TRUE, allowed, used)]

(* The statements of a sequence: each may be reached from all the others.  *)
SequenceTasks(skeleton, parent, allowed, used) ==
    [k \in DOMAIN skeleton |->
        StatementTask(skeleton[k], parent, TRUE, allowed \cup LabelsOf(skeleton), used)]

(* A statement inside another one.                                         *)
InnerTasks(labels, used) ==
    [k \in DOMAIN labels |-> StatementTask(labels[k], Id, FALSE, Allowed, used)]

-----------------------------------------------------------------------------

EmptyStatement == Resolving("empty") /\ Resolve("empty", "", {}, TRUE, {}, PrefixedScopes, <<>>)

GotoStatement ==
    /\ Resolving("goto")
    /\ \E l \in Labels :
           LET found == {k \in BlockIndices : l \in DOMAIN Parent(k).labels}
           IN  \/ /\ found = {}
                  /\ Resolve("goto", l, {}, TRUE, {Err("UNDEFINED_LABEL")}, PrefixedScopes, <<>>)
               \/ /\ found # {}
                  /\ Resolve("goto", l, {Least(found)}, TRUE,
                             ErrIf(l \notin Allowed, "DISALLOWED_GOTO_TARGET"),
                             PrefixedScopes, <<>>)

CompoundStatement ==
    /\ Resolving("compound")
    /\ \E skeleton \in Skeletons :
           Resolve("compound", "", {}, TRUE, {}, PrefixedScopes,
                   SequenceTasks(skeleton, Id, Allowed, Task.used))

RepeatStatement ==
    /\ Resolving("repeat")
    /\ \E skeleton \in Skeletons, fine \in BOOLEAN :
           Resolve("repeat", "", {}, fine, ErrIf(~fine, "NON_BOOLEAN_TYPE"),
                   PrefixedScopes, SequenceTasks(skeleton, Id, Allowed, Task.used))

(* A bad condition is replaced, and the branches are resolved all the same.*)
IfOrWhileStatement ==
    \E form \in {"if", "while"}, n \in {1, 2}, fine \in BOOLEAN :
        \E labels \in [1 .. n -> LabelChoices] :
            /\ Resolving(form)
            /\ form = "while" => n = 1
            /\ Resolve(form, "", {}, fine, ErrIf(~fine, "NON_BOOLEAN_TYPE"),
                       PrefixedScopes, InnerTasks(labels, Task.used))

(* A bad index drops the whole statement; a bad constant, only itself.     *)
CaseStatement ==
    /\ Resolving("case")
    /\ \E n \in {1, 2}, flaw \in {"none", "index", "constant"} :
           \E labels \in [1 .. n -> LabelChoices] :
               Resolve("case", "", {}, flaw = "none",
                       ErrIf(flaw = "index", "NON_ORDINAL_TYPE")
                          \cup ErrIf(flaw = "constant", "DUPLICATE_CASE"),
                       PrefixedScopes,
                       IF flaw = "index" THEN <<>> ELSE InnerTasks(labels, Task.used))

-----------------------------------------------------------------------------
(* Variables.                                                              *)

IsVariable(use) == use \in {"ordinal", "other"}

(* threatenVariable(): an access to a variable of the closest block may    *)
(* threaten a loop around it; one to an outer variable threatens the loops *)
(* still to come in the block the variable belongs to.                     *)
Threaten(x, k, ss) ==
    IF k = ClosestContainingBlock
    THEN [threatened |-> x \in Task.used, scopes |-> ss]
    ELSE [threatened |-> FALSE,
          scopes |-> [ss EXCEPT ![At(k)].threats = @ \cup {x}]]

ThreatErrors(t) == ErrIf(t.threatened, "THREATENED_CONTROL_VARIABLE")

(* resolveVariableOrFdIdentifier(): the use of x in the innermost scope    *)
(* that has it.                                                            *)
UseOf(x) ==
    IF Declaring(x) = {} THEN "undefined" ELSE Parent(Least(Declaring(x))).names[x]

(* An access that does not name a variable.                                *)
AccessOther(form, x, illegal, errs) ==
    LET Wrong(code) == Resolve(form, x, {}, TRUE, {Err(code)}, PrefixedScopes, <<>>)
    IN  \/ UseOf(x) = "undefined" /\ Wrong("UNDEFINED_IDENTIFIER")
        \/ UseOf(x) \in illegal /\ Wrong("WRONG_IDENTIFIER_KIND")
        \/ /\ UseOf(x) \in {"parameter", "field"}
           /\ Resolve(form, x, {Least(Declaring(x))}, TRUE, errs, PrefixedScopes, <<>>)

AccessVariable(form, x, fine, errs) ==
    LET k == Least(Declaring(x))
        t == Threaten(x, k, PrefixedScopes)
    IN  /\ IsVariable(UseOf(x))
        /\ Resolve(form, x, {k}, fine, errs \cup ThreatErrors(t), t.scopes, <<>>)

(* The function whose block this is, or contains this.                     *)
IsCurrentFunction(x, k) ==
    /\ k > 0 /\ Parent(k).names[x] = "function"
    /\ Parent(k - 1).kind = "block" /\ tree[Parent(k - 1).node].arg = x

(* The left-hand side is threatened before the right-hand side is looked   *)
(* at; a result counts as assigned only if that one is right.              *)
AssignmentStatement ==
    /\ Resolving("assignment")
    /\ \E x \in Names, fine \in BOOLEAN :
           LET k == Least(Declaring(x))
               mismatch == ErrIf(~fine, "TYPE_MISMATCH")
               result == IF fine THEN [PrefixedScopes EXCEPT ![At(k - 1)].assigned = TRUE]
                                 ELSE PrefixedScopes
           IN  \/ AccessVariable("assignment", x, fine, mismatch)
               \/ fine /\ AccessOther("assignment", x, {"procedure"}, {})
               \/ /\ UseOf(x) = "function" /\ ~IsCurrentFunction(x, k) /\ fine
                  /\ Resolve("assignment", x, {}, TRUE, {Err("WRONG_IDENTIFIER_KIND")},
                             PrefixedScopes, <<>>)
               \/ /\ UseOf(x) = "function" /\ IsCurrentFunction(x, k)
                  /\ Resolve("assignment", x, {k}, fine, mismatch, result, <<>>)

Callable == {"function", "procedure"}

(* A procedure statement with a variable as actual variable parameter.     *)
ProcedureStatement ==
    /\ Resolving("procedure")
    /\ \E x \in Names :
           \/ AccessVariable("procedure", x, TRUE, {})
           \/ AccessOther("procedure", x, Callable, {})

(* resolveBuiltinFile(): the program parameter input, by a scope index     *)
(* that is never counted up.                                               *)
FileErrors == ErrIf(~tree[1].input, "UNDEFINED_IDENTIFIER")
BuiltinFile == IF tree[1].input THEN {0} ELSE {}

(* readln.                                                                 *)
ReadlnStatement ==
    Resolving("readln") /\ Resolve("readln", "", BuiltinFile, TRUE, FileErrors, PrefixedScopes, <<>>)

(* read(x): without a file, x is not looked at further.                    *)
ReadStatement ==
    /\ Resolving("read")
    /\ \E x \in Names :
           \/ tree[1].input /\ AccessVariable("read", x, TRUE, {})
           \/ /\ ~tree[1].input /\ IsVariable(UseOf(x))
              /\ Resolve("read", x, {Least(Declaring(x))}, TRUE, FileErrors, PrefixedScopes, <<>>)
           \/ AccessOther("read", x, Callable, FileErrors)

(* Slip: the loops around a loop are forgotten.                            *)
OnlyThisLoop(x) == {x}

(* withNewUsedControlVariable()                                            *)
UsedInside(x) == Task.used \cup {x}

(* A for statement: the control variable has to be one of the closest      *)
(* block, and is itself threatened by the statement.                       *)
ForStatement ==
    /\ Resolving("for")
    /\ \E x \in Names, label \in LabelChoices :
           LET k == ClosestContainingBlock
               use == Parent(k).names[x]
               hidden == \E j \in 0 .. k - 1 : Parent(j).names[x] # "none"
               t == Threaten(x, k, PrefixedScopes)
               errs == ThreatErrors(t) \cup
                       ErrIf(x \in Parent(k).threats, "THREATENED_CONTROL_VARIABLE")
               Stop(code) == Resolve("for", x, {}, TRUE, {Err(code)}, PrefixedScopes, <<>>)
           IN  \/ hidden /\ Stop("WRONG_IDENTIFIER_KIND")
               \/ ~hidden /\ ~IsVariable(use) /\ Stop("UNDEFINED_IDENTIFIER")
               \/ ~hidden /\ use = "other" /\ Stop("NON_ORDINAL_TYPE")
               \/ /\ ~hidden /\ use = "ordinal"
                  /\ \/ Resolve("for", x, {k}, FALSE, errs \cup {Err("TYPE_MISMATCH")}, t.scopes, <<>>)
                     \/ Resolve("for", x, {k}, TRUE, errs, t.scopes,
                                InnerTasks(<<label>>, UsedInside(x)))

(* A with statement opens one scope after the other around its body.       *)
WithStatement ==
    /\ Resolving("with")
    /\ \E fields \in FieldLists, label \in LabelChoices :
           \/ Resolve("with", fields, {}, TRUE, {},
                      PrefixedScopes \o [k \in DOMAIN fields |-> WithScope(Id, fields[k])],
                      InnerTasks(<<label>>, Task.used)
                         \o <<LeaveTask("leaveWith", Id, "", Len(fields))>>)
           \/ Resolve("with", fields, {}, FALSE, {Err("NON_RECORD_TYPE")}, PrefixedScopes, <<>>)

(* Slip: with a, b do opens two scopes and leaves one.                     *)
LeaveOneWith ==
    /\ Doing("leaveWith")
    /\ scopes' = SubSeq(scopes, 1, Len(scopes) - 1)
    /\ tasks' = Tail(tasks)
    /\ UNCHANGED <<errors, tree>>

LeaveWith ==
    /\ Doing("leaveWith")
    /\ scopes' = SubSeq(scopes, 1, Len(scopes) - Task.count)
    /\ tasks' = Tail(tasks)
    /\ UNCHANGED <<errors, tree>>

-----------------------------------------------------------------------------
(* Blocks.                                                                 *)

(* Slip: labels of outer blocks stay allowed although they are hidden.     *)
AllowedInBlockUnhidden(allowed, labels, skeleton) == allowed \cup LabelsOf(skeleton)

(* The labels that the statements and the subroutines of a block may go    *)
(* to: those of outer blocks that it does not hide, and those at the top   *)
(* level of its own statement part.                                        *)
AllowedInBlock(allowed, labels, skeleton) == (allowed \ labels) \cup LabelsOf(skeleton)

(* buildBlock(), up to the first subroutine.  "repeated" is a label        *)
(* declared a second time.                                                 *)
BuildBlock ==
    \E uses \in Declarations, labels \in SUBSET Labels, skeleton \in Skeletons, input \in BOOLEAN :
    \E repeated \in labels \cup {NoLabel} :
        LET allowed == AllowedInBlock(Task.allowed, labels, skeleton)
            subroutines == {x \in Names : uses[x] \in {"function", "procedure"}}
            inside == (IF subroutines = {} THEN <<>>
                       ELSE <<SubroutinesTask(subroutines, Id, allowed)>>)
                      \o SequenceTasks(skeleton, Id, allowed, {})
                      \o <<LeaveTask("leaveBlock", Id, Task.name, 1)>>
        IN  /\ Doing("block")
            /\ Task.use = "program" => \A x \in Names : uses[x] # "parameter"
            /\ input => Task.use = "program" /\ Forms \cap {"read", "readln"} # {}
            /\ Fits(inside \o Tail(tasks))
            /\ tasks' = inside \o Tail(tasks)
            /\ scopes' = Append(scopes, BlockScope(Id, uses, labels))
            /\ errors' = errors \cup ErrIf(repeated # NoLabel, "DUPLICATE_LABEL")
            /\ tree' = Append(tree, [form |-> "block", arg |-> Task.name, use |-> Task.use,
                                     parent |-> Task.parent, names |-> uses, labels |-> labels,
                                     repeated |-> repeated, input |-> input,
                                     label |-> NoLabel, inSequence |-> FALSE])

(* One of the subroutines of the block at hand, in any order.              *)
DeclareSubroutine ==
    /\ Doing("subroutines")
    /\ \E x \in Task.names :
          tasks' = <<BlockTask(x, tree[Task.parent].names[x], Task.parent, Task.allowed)>>
                   \o (IF Task.names = {x} THEN <<>>
                       ELSE <<SubroutinesTask(Task.names \ {x}, Task.parent, Task.allowed)>>)
                   \o Tail(tasks)
    /\ UNCHANGED <<scopes, errors, tree>>

(* The end of buildBlock(), and what analyzeSubroutineDeclarations() does  *)
(* after it.                                                               *)
LeaveBlock ==
    LET block == scopes[Len(scopes)]
        unused == {l \in DOMAIN block.labels : block.labels[l] = 0}
    IN  /\ Doing("leaveBlock")
        /\ errors' = errors
              \cup {[code |-> "UNUSED_LABEL", at |-> Task.node] : l \in unused}
              \cup (IF tree[Task.node].use = "function" /\ ~block.assigned
                    THEN {[code |-> "MISSING_RESULT_ASSIGNMENT", at |-> Task.node]} ELSE {})
        /\ scopes' = SubSeq(scopes, 1, Len(scopes) - Task.count)
        /\ tasks' = Tail(tasks)
        /\ UNCHANGED tree

-----------------------------------------------------------------------------

Init ==
    /\ vocabulary \in Vocabularies
    /\ tasks = <<BlockTask("program", "program", 0, {})>>
    /\ scopes = <<>> /\ errors = {} /\ tree = <<>>

Done == tasks = <<>> /\ UNCHANGED analysis

Next ==
    /\ \/ EmptyStatement \/ GotoStatement \/ CompoundStatement \/ RepeatStatement
       \/ IfOrWhileStatement \/ CaseStatement \/ AssignmentStatement \/ ProcedureStatement
       \/ ReadStatement \/ ReadlnStatement \/ ForStatement \/ WithStatement \/ LeaveWith
       \/ BuildBlock \/ DeclareSubroutine \/ LeaveBlock \/ Done
    /\ UNCHANGED vocabulary

Spec == Init /\ [][Next]_vars
=============================================================================
