# Waspas: specifications, model checking and proofs

Waspas is the front end of a compiler from Standard Pascal (ISO 7185:1990) to
WebAssembly. It is one sequential C++ program: it reads a file, splits it into
tokens, parses these, checks the meaning of what it has parsed, and stops.
There are no threads, no persistent state and no messages, so the hard parts
are of another kind: state that survives backtracking, errors that are held
back and dropped, names that are collected in one pass and resolved in another,
rules about a whole block that are decided while walking through it once, and
tables that another program has generated.

The modules here follow the sources in `src/` function by function. Where a
component decides something that the language rules define independently (what
the longest token is, whether a program fits the grammar, whether a goto is
legal, what may be assigned or passed), the rule is written down a second time from the rule's point of view,
and the model is checked against it.

## 1. Inventory

| Component | State | Operations | What makes it correct |
|---|---|---|---|
| driver (`main.cxx`) | stage, exit code | options, opening, reading, four stages | a stage runs only on what the earlier ones accepted; exit code 0 exactly for programs without a fault |
| reporter (`reporting.ixx`) | messages held and printed, two error flags | `err`, `note`, `hold`, `unhold`, `unholdDiscard`, `hadErrors` | the flag is what the user was shown; a dropped message leaves no trace and a shown one is counted |
| lexing tables (`generate-lexing-tables.py`) | automata | regular expression → NFA → DFA → minimal DFA → tables | the automaton finds what the expressions describe |
| lexer (`lexing.cxx`) | iterator, automaton state, longest token so far, separation flags | `lex`, `lexOne`, `TokenCharacterString::value` | pieces tile the source, longest match, exact errors |
| token reader (`parsing.cxx`) | position, furthest failure, what was expected there | `tryConsume`, `consume…`, `backtrack` | the diagnostic at the end is about the furthest place, and right |
| parser (`parsing.cxx`) | C++ call stack of try blocks | one function per grammar symbol, over eight combinators | accepts the grammar, ends, reports the first token that cannot go on |
| scopes and references (`semantics-core.ixx`) | chain of scopes, defining occurrences | `add`, `lookup`, `parent` | a reference (levels, name) leads back to what it was resolved to |
| definitions (`semantics-analyze.cxx`) | maps of a block | collect, resolve on use | every name has one meaning; circular and early uses are found |
| variant parts (`semantics-analyze.cxx`, `semantics.cxx`) | case counter, map from ordinals to variants | `resolveFieldList`, `addVariant`, `variantByOrdinal`, `new` | constants cover the tag type; no lookup throws |
| subroutines (`semantics-analyze.cxx`) | subroutines, delayed declarations, the scope of each parameter list | `resolveSignature`, blocks, `forward`, calls | a heading is accepted exactly if legal in its place; a block is built once and sees its parameters; what is called exists |
| statements (`semantics-analyze.cxx`) | labels, allowed goto targets, control variables, threats, results | `buildBlock`, `resolveStatement` | accepted exactly if legal; exact gotos and threats |
| types (`semantics-core.ixx`, `semantics-types.ixx`, `semantics.cxx`) | immutable objects, equal if at the same address | `isCompatibleWith`, `isAssignmentCompatibleWith`, `isConformableWith`, `isEquivalent`, `promoted` | relations between objects agree with the rules, which know only values |
| expressions (`semantics-analyze.cxx`) | the part of the expression built so far, its type | one function per grammar symbol | an error at exactly the words that break a rule; the type is that of the value |
| calls (`semantics-analyze.cxx`) | place in the formal sections and among the actual parameters, the first good one of a section, the file found | `resolveActualParameters`, `isCongruousWith`, one function per required procedure or function | accepted exactly if legal; never lost without an error |
| constants' values | none that lasts | sign, literals | not modelled, section 8 |
| parse tree dump, console, node generator, tests | none | output | not modelled, section 8 |

How they interact: `main` owns one `Reporter` and passes it down. `lex` gives
the parser a vector of tokens ending with the end of file, the parser gives the
analyzer a tree, and `hadErrors()` after each is the only signal back. Inside
the analyzer, blocks are built from the outside in; a `Scope` points to the one
around it, and what a name means is found by walking these. References that
later stages need are kept as a number of scopes to walk and a name.

`PROJECT.json` lists the components with their status and the places in the
code where things could go wrong that tests hardly reach, each with the
properties that watch over it.

## 2. Modules

| Module | Models | Correspondence |
|---|---|---|
| `Reporter` | the class `Reporter` | a record; each method an operator from record to record |
| `Driver` | `main()`, and the retried resolution in `write`/`writeln` | `stage` is the place in `main`; what stages find wrong is a number ("fault"), one action per way to report one |
| `Compiler` | the promise to the user | abstract specification that `Driver` implements |
| `PascalLexicon` | the grammar part of the script | expressions over a reduced alphabet, four word symbols |
| `LexingTables` | the rest of the script | operators for NFA, subset construction, minimization, tables |
| `Lexing` | `lex`, `lexOne` | one step per character and per round, parameterised by the tables |
| `LexicalReference` | — | the lexical rules by expression matching, and properties |
| `TokenReader` | the class `TokenReader` | `Hit`, `Miss` and `Backtrack` are its only ways to change |
| `Parser` | the combinators | instructions run by a machine with a stack of try blocks; an exception is `status = "throwing"` |
| `PascalGrammar` | every parse function | a table from function to instructions |
| `GrammarReference` | — | derivability from the table as a context-free grammar, and properties |
| `Definitions` | definition parts of the program block, program parameters | one step per definition, with the whole denoter resolved by operators |
| `DefinitionRules` | — | regions, defining points, applied occurrences, types |
| `VariantPart` | variant parts and `new`/`dispose` | one step per case constant, variant and field list; `stack` is the recursion |
| `Headings` | `resolveSignature`, `resolveTypeOrSchema` | operators: what a list defines, what is wrong with it, with the lists within it |
| `Subroutines` | `analyzeSubroutineDeclarations` | one step per declaration, with its heading and its block |
| `SubroutineRules` | — | regions of parameter lists, completion, calls and results |
| `Statements` | `buildBlock`, `StatementBuilder` | `tasks` is the call stack; the tree is chosen step by step |
| `StatementRules` | — | rules over the finished tree |
| `TypeRelations` | class `Type` and its subclasses | a type object is a name and `Types` says what it is made of; equal names are equal addresses |
| `ValueKinds` | — | what values there are by the rules, and which go together, without type objects |
| `Expressions` | `resolveFactor`, `applyComponentAccess`, `resolveTerm`, `resolveSimpleExpression`, `resolveExpression` and their callers | one step per word; `level` is the function that is active, the type is that of what stands to the left |
| `TypedReading` | — | abstract machine: reads a word, knows the kind of value, or has found an error |
| `ExpressionRules` | — | the rules word by word; the refinement of `TypedReading` |
| `ActualParameters` | the actual parameters of a call, as a variable, a value or a name | the state of a resolution, read from left to right |
| `DeclaredCalls` | `resolveActualParameters`, `isCongruousWith` | one step per actual parameter, the form of its section deciding how it is looked at |
| `RequiredCalls` | `resolveBuiltinCall…` | one step per parameter that a required procedure looks at |
| `Calls` | the procedure statement and the function designator | looks the name up and composes the two |
| `CallRules` | — | the rules for a call as a whole |
| `*Proofs` | — | theorems about the module they extend |
| `MC*` | — | finite instances for TLC |

Composition: `Driver` extends `Reporter` and instantiates `Compiler` under a
refinement mapping. `Parser` extends `TokenReader` and runs `PascalGrammar`
as a constant. `Subroutines` extends `Headings` and gives it the types the block
leaves visible. `Expressions` and `ActualParameters` extend `TypeRelations`;
`ExpressionRules` holds `Expressions` against the rules and instantiates
`TypedReading` under a refinement mapping; `Calls` extends both
kinds of calls. `Lexing` is run with the tables that `LexingTables` computes from
`PascalLexicon`: the generator and the code that reads its output are checked as
one.

Definitions whose comment starts with "Slip:" are a plausible mistake in the
definition after them. They are used by no specification; `PROJECT.json` names
for each property of each run one that makes TLC find the property violated.

## 3. What the runs show

| Run | Instance | Shows |
|---|---|---|
| `driver` | up to four faults anywhere | every path through `main`, and every way a held fault can be shown, dropped and found again, gives the right verdict |
| `lexing` | every text of up to 4–5 characters over several small alphabets, some after a beginning | the generated tables and the loop give the longest match everywhere, comments and strings end where they should, errors are exact, every text is finished |
| `parser` | every sequence of up to 2–3 tokens in each of 23 contexts, over the tokens that matter there | the accepted programs are those of the grammar; rejected ones are rejected at the first token that no program can have there |
| `definitions` | up to three definitions over a few names and denoters, in five vocabularies | exactly the legal parts are accepted, but for the order of the parts of an array (below); whatever is wrong, maps stay consistent |
| `variant_part` | up to four case constants of every kind, tag types over two-bit integers, three nested variant parts | the counter decides coverage, never overflows, and `new` never throws |
| `subroutines` | four declarations of one name, three of two names with at most one call, two of two names with calls; about a thousand parameter lists, up to three deep; blocks that define, call and assign what their list may hide, together with the heading or delayed | forward and delayed declarations, calls to what has no block yet, headings, and that a delayed block sees the parameters of the first heading |
| `statements` | trees of up to five or six nodes over eight vocabularies | labels and gotos through nested blocks and all statements; control variables and threats, `with`, functions, references by scope index |
| `expressions` | expressions of any length over 30 types | an error at exactly the words that break a rule, and the type the rules give |
| `calls` | calls of declared and required names with up to four actual parameters of every form | accepted exactly if legal; in a declared call, errors at exactly the wrong parameters |

Three runs end in a counterexample, each a place where the code disagrees with
something the repository says (`findings` in `PROJECT.json`):

* `statements_files`: `resolveBuiltinFile` finds the program's `input` in an
  outer scope but keeps scope index 0, which `variableType()` asserts to lead
  to the block with the variable.
* `definitions_records`: an enumerated type in a record's field list looks for
  its constants in the record's scope, where they were not put; the lookup throws.
* `expressions_functions`: the value type of a function designator is the
  declared result type and not its host type, so that a set constructor may get
  a subrange as its base type, which an assertion excludes.

The models follow the code also where it is at odds with ISO 7185 but nothing
in the repository says otherwise. These places have no run that ends in a
counterexample; where a rule had to be weakened to what the code does, its
comment says so.

* A procedure without parameters may be declared `forward` again and again
  (`semantics-analyze.cxx:4049`; `DeclaredWell`).
* The component type of an array is resolved before its index types, and these
  from the last to the first (`semantics-analyze.cxx:3424`), while
  `lookupIdentifier` accepts what is in the maps wherever it stands (`:99`). So
  `array [(a, b)] of set of a..b` is legal and rejected, and
  `array [a..b] of set of (a, b)` is not and accepted. `Precedes` of
  `DefinitionRules` states the exception: between the parts of one array the
  order of the text is reversed, and nowhere else. In schemas, whose types are
  names, the same order (`:3857`) shows only in the choice between two errors.
* `x in []` is accepted for `x` of any type, and `read` into a string variable.
* String literals of the same length have different type objects, so that two
  of them are rejected in one section of value conformant arrays (`CallRules`).
* `read` from a file of a subrange of integer into a real variable is rejected,
  while the assignment of its buffer variable is accepted
  (`semantics-analyze.cxx:2668`), because the code asks for the component type
  and not for that of the value. The result of a function with a subrange type
  is in the same case (`semantics.cxx:306`): it is not accepted where an
  integer, a character or a truth value is asked for, or for a real variable.
  `ValueOf` of `CallRules` states the exception for both: such a value is one of
  the host type that is assignment-compatible with the ordinal types alone.
* A field that a `with` statement makes visible may be a variable parameter
  although its record is packed or the field is a tag
  (`semantics-analyze.cxx:1537`): only accesses by `r.f` are checked.
* `writeln` with parameters builds a `StatementProcedureWriteText`
  (`semantics-analyze.cxx:3163`); `RequiredCalls` builds the same node.

## 4. Abstractions

* A message is its code and its place; wording and layout are left out.
* A token is its kind and whether its value can be used; a text is a sequence of
  characters, because the lexer's properties are about characters.
* In `Driver`, what the stages find is arbitrary. Only `write` and `writeln` are
  given in detail, being the only code that holds messages.
* In `Statements` expressions and types are reduced to the names they mention
  and whether they are right (`fine`).
* In `Expressions` a text is read word by word, and of an operand on the right
  only its type is known, any type an operand may have: the functions call each
  other as the grammar nests, and each adds to what stands on its left. The
  analysis goes on after an error, and so does the model; the rules say no more
  of such a text, so that only the first error is held against them. Names are
  abstract: a variable is one of some type, a field one of some record.
* In `Calls` an actual parameter is what it can be taken for: a variable with
  its type and whether it may be a variable parameter, a value, a name of a
  subroutine, or something with an error of its own.
* In `Definitions` constants are integers or enumerators, and the fields of
  records are fixed parts: variant parts have a module of their own.
* In `Headings` a schema is the flat sequence of its index types, and a type is
  known by what headings ask of it: ordinal, real, pointer, structured, or with
  a file in it. Whether a name is no type or is defined later is one error here;
  `Definitions` tells them apart.
* In `Subroutines` a block is what it defines, what it calls and whether it
  assigns to its function's name. A call takes any actual parameters: `Calls`
  has these.
* Histories (`pieces`, `tree`, `faults`, `failed`) record what happened for the
  properties; no guard depends on them except through bounds and the choice of a
  new number.

## 5. Bounds

Every bound is a named constant or the size of a set of inputs in an `MC`
module. They are large enough for the cases that matter:

* `MaxFaults = 4`: one fault held, one found instead of it, one before and one
  after. The theorems about `Driver` hold for any number.
* Texts: comments need two characters to open, two to close and one between;
  the longest word prefix (`DOWNTO` after `DOWN`) needs two characters and two
  more to run on. The states of the automaton, not the length, are the
  measure: the inputs enter all of them that these words have.
* Token sequences: each context puts the hole right where the grammar has a
  choice, and two tokens decide every choice of the code, which never looks
  further than a name, a constant and what follows.
* Definitions: three are needed for "outer meaning, use, inner definition". One
  vocabulary has arrays of one and two dimensions, nested ones and records in
  them, whose parts define and use the same enumeration in either order; another
  one hides `integer`, the type of the block around, by a constant, a type or a
  variable before or after a pointer to it.
* `IntegerMax = 1` makes the smallest and the largest ordinal of integer both
  reachable by two or three constants, so that the overflow the code asserts
  against is near. The order of constants is any.
* Lists of parameters: two sections are needed for one to hide a type of, or to
  duplicate, the other; three lists in each other for a name to be hidden by one
  that is not the next one out. A function result that is hidden needs a heading
  of its own. Every list is tried alone and in front of a procedure whose name it
  may use as a type.
* Expressions: there is no bound on the length; `MaxErrors = 2` bounds the
  number of errors in one expression, after which the reading stops. The types
  are one at least of every form, and two where the rules tell objects apart:
  strings of equal and different length, subranges of one host, sets packed and
  not, records with and without a file.
* Calls: `MaxActuals` lets each name be given one actual parameter too many, and
  those that take any number three; `Written` gives for each name the forms of parameters that it tells
  apart, wrong ones among them; one of `input` and `output` may be missing from
  the program's parameters. `TypeLevel` and `SignatureLevel` bound nothing: they
  say how deep types and signatures are nested.
* Subroutines: four declarations allow a forward declaration, its completion,
  and a repetition of either. Three of two names, one of which calls, are
  enough for a call between a forward declaration and its completion.
* Trees: a label, a goto and the structure between them fit in five nodes; six
  are needed for two functions of which the inner one assigns to the outer one.

`Vocabularies` (in `Statements` and `Definitions`) is a set of instances that
one run explores: a program takes all its pieces from one vocabulary.

## 6. Fairness

`Parser` and `Lexing` have `WF_vars(Next)`: a sequential program that is not
stopped from outside takes its next step. Nothing stronger is assumed, and the
choice between steps is deterministic in both. `Termination` is the only
liveness property. The other components consume a finite text with every step
and are checked for safety and absence of deadlock; their finished states are
marked by a `Done` action that changes nothing.

## 7. Proofs

All theorems are checked by TLAPS for every value of the constants that the
named assumptions allow.

`ParserProofs` (for every grammar and every input). `TokenReader` alone
satisfies an inductive invariant `ReaderInv`: the furthest failure is beyond no
token that was looked at and not found, everything it lists was really tried
there, and none of it is the token that stands there (`FurthestFailure`,
`FailuresReal`). Each parser step is a step of the reader or leaves it alone,
given `ParserInv` (positions of try blocks are ordered and not ahead of the
reader, so `backtrack` only goes back), hence `ParserImplementsReader`, and the
reader's theorem carries over to the parser (`ParserDiagnostic`).
`ParserStaysInBounds` shows that the end of file is consumed only at the very
end, `ParserHasSomethingToReport` the assertion that something was expected.

`DriverProofs` (for every number of faults). `DriverInv` has four parts: where
in `main` and in a write statement we are (`Shape`); the reporter's flags agree
with its messages and holding agrees with the write statement (`Books`); every
fault found is shown, held, or still to be found again by the second resolution
(`Account`); the exit code goes with what was shown (`Verdicts`). The third is
the point: dropping held messages does not lose a fault, because the resolution
that follows reports it or another. From it follow the verdict
(`AcceptedIffFaultless`), the stages, and the refinement
`DriverImplementsCompiler`. `DriverShowsOnce` is the other half of `Account`:
what the second resolution finds again was thrown away before, so that no fault
is among the printed and the held messages more than once.

`LexingProofs` (for every source and all tables whose start state is not
final). `LexingInv` adds to the properties that a token was found exactly if it
is not empty, and that the two separation flags together say whether the last
piece is a token that must be separated. Tiling and exact errors follow.

`SubroutineProofs` (for all names, parameter lists and sequences of
declarations). The invariant relates the maps to the declarations seen so far;
it shows that no block is built twice and that a block without errors has a body
for every subroutine, and has resolved every call to one of its own parameters
or to such a subroutine. `SubroutinesVerdict` is the acceptance
(`AcceptedIffLegal`). The rules speak of all declarations of a name at once, the
code of one after another and of what earlier ones have left in its maps:
`IsRight` says of a declaration what only the ones before it decide, `LegalMeans`
that a block is legal exactly if all of them are right and each name gets its
block, and `Judged`, the inductive invariant, that there are no errors exactly if
all declarations seen so far are right, and that without errors the maps hold what
the first declaration of each name says (`Follows`) and every block that was seen.
Headings are a matter of data: `ResolvedLists` and `ListIsLegal` are recursive
functions over the nesting of lists. `ListRecursion` proves that such a function
exists if what it is of a list depends on the lists within it only, so that it may
be unfolded, and `ListInduction` gives the induction on which `NestedListsMean`
rests: what is found in a heading is nothing exactly if the rules allow it. Both
use `NestingAssumption`: the lists within a list nest less deep than it does, as
those of every parse tree. `SectionFacts` and the like use that a section has a
name and a heading exactly one, as the grammar has it.

`VariantProofs` (for integers of any width and all variant parts whose ordinals
lie within them). The code decides from a counter alone whether every value of
the tag has a variant. The invariant says what the counter stands for: it is
`smallest - 1` plus the number of different ordinals used, all of which lie
between `smallest` and `largest`, and the used ordinals are those in the index
together with those of the constants resolved so far of the variant at hand.
Hence the counter never passes `largest` and its increment does not overflow
(`VariantPartCounter`); and if it equals `largest` at the end, the cardinalities
of the used ordinals and of the range agree, so the sets do, the index is total,
and `at()` in `new` does not throw (`VariantPartIndex`).
`VariantPartVerdict` goes from the counter to the rules: for every nesting of
variant parts, a record is accepted exactly if in each of them every value of
the tag has one constant. Its invariant `Covering` relates the frames on the
stack and the variant parts already left to the constants of the record, and
the errors reported to those that the rules want. A record is assumed to be
nested as records are (each variant part but the first is in a variant of an
earlier one, `IsRecord`).

`StatementProofs` (for every program over any vocabulary, of any size). The tree,
the tasks still to be done (the C++ call stack) and the scopes alive are related
by `Coherence`: following the tasks from the first to the last opens and closes
exactly the scopes alive, and those alive when a task starts are, in order, those
of the blocks and `with` statements around its place in the tree. That gives
`StatementTypes`, and lets a scope index be read as a node of the tree.
`Labelling` adds what the analysis knows about labels: a label's mark is set
exactly if an earlier statement of the block is prefixed by it, and the set of
allowed targets handed down to a statement is exactly what the rules let it see
from where it stands, among the statements already resolved and those that
still wait in a statement sequence. Every step is shown to keep both, whatever
statement, block or `with` it resolves, and at the end nothing waits, so that
what is seen are the legal targets (`StatementGotos`: `GotosAreExact` for every
program). `Referring` says of every node of the tree that its scope index leads
from where the node stands to the innermost declaration; a new index is the
least in `scopes`, and the coherence of `scopes` with the tree turns that into
the innermost node (`Meant`, `MeantLabel`; `StatementReferences`:
`ReferencesLeadHome`). `Threatening` relates what is kept about control variables
with the tree: a scope's `threats` are the variables that some node of an inner
block may change (`Far`), the `used` handed to a statement the control variables of
the loops around it, and `THREATENED_CONTROL_VARIABLE` is reported for exactly the
nodes that are `Warned`, which looks only at nodes resolved earlier. That the rules
look at the whole tree makes no difference because of `NodesOrdered`: what is in
the procedures and functions of a block is resolved before any statement of the
block, however deeply nested; `TasksOrdered` says so of the tasks that wait
(`StatementThreats`: `ThreatsAreExact`). `Judging` adds all other errors: a
statement has one exactly if it is not `Proper`, repeats a label or uses an
undeclared one, and a block exactly if it declares a label twice or, once its scope
is left, `Lacks` a labelled statement or its result. A scope is `assigned` exactly if
a statement of the tree `Gives` the result of its function; the scope index
less one, by which the code finds that function, is shown to lead to the
function's own block (`Assigning`). With it, `Labelling` and `Threatening` give
`StatementAcceptance`: a program is accepted exactly if it is legal
(`AcceptedIffLegal`). `GotosAreExact` and `ThreatsAreExact` speak only of programs
whose labels or accesses are right, which is what the errors under `Judging`
decide. `Depth` and `Above` are recursive functions over the tree; what the
proof needs of them is obtained from well-founded induction on the node numbers
(`Minimum`, `Induction`, `Recursion`).

`ExpressionProofs` (for all types and expressions of any length). The code
compares type objects, the rules compare values: `KindOf` maps the one to the
other, and lemmas show of each relation that it says of two objects what the
rules say of their values. This is true only of promoted types, so that
`TypesArePromoted` comes first: every expression has a promoted type, if the
results of functions have (`ResultsArePromoted`). `AnalysisImplementsRules` is
the refinement of `TypedReading`: as long as nothing is wrong the type maps to
the kind of value the rules give, an error is reported at a word exactly if the
rules refuse it, and afterwards every step is a stutter. The hypothesis is not
decoration: the run `expressions_functions` gives functions a subrange as their
result, and the type invariant fails. Whether a type has a file in it is
defined recursively and cannot be unfolded here: what the proofs need of it is
the assumption `NoTypeIsPartOfItself`, which TLC evaluates for the types of the
runs.

`CallProofs` (for all types, names and signatures). `CallsTypeCorrect` shows
that the sections and the actual parameters are walked in step, and that the
first good parameter of a section, to which the others are compared, is known
exactly while there is one: it is the state that a forgotten reset between two
sections would spoil. `CallsAreNotLost` shows that the fallback statement or
expression stands for a call only after an error was reported; its invariant
`Flawless` says what a resolution without errors has achieved so far: a section
built for each one that it has passed, and for `read` and `write` something
kept for the parameters behind the file.

`CallErrorsAreExact` and `CallsAreAcceptedIfLegal` hold the resolution against
the rules, which look at the whole call at once: the formal parameter of an
actual one is found by counting the formal parameters before it, agreement is
asked with the least of the earlier ones that suit, conformability and
congruity of all dimensions at once.

* `PlaceOf` is a cardinality; its value is shown to be what the walk counts, so
  that the section at hand is that of the next actual parameter and no two
  formal parameters have one place. `PeerInv` says that `first` is the type of
  the least peer, and `good` positive exactly if there is one. With these, a step is wrong
  about its parameter exactly if `IsRight` is; what is right stays so, since
  `IsRight(i)` looks at parameters up to the `i`-th only.
* `Conformable`, `Equivalent` and `Congruous` recurse as the code does. They are
  compared with `IsInstance`, `SameTypes` and `SameLists` by induction on
  `TypeLevel` and `SignatureLevel`, the nesting of types and of signatures
  (`LevelInduction`), after `Recursion` has shown that such functions exist and
  may be unfolded. Assignment compatibility is compared as in `ExpressionProofs`.
* For required names, `RequiredInv` says what is known midway: which roles of
  `pack` and `unpack` are already played, which file `read` and `write` have, and
  that all parameters so far can be read from it or written to it. The code
  decides by the first parameter whether there is a file; the rules allow either
  reading of the list. `FilesAreFiles` and `FilesAreNoText` show that at most one of them can
  be meant.

Two assumptions on the constants are used besides those that say of which parts
types, names and signatures are made; TLC evaluates all of them for the types of
the runs, and all are facts of the code. `PartsAreSmaller`: no array is a
component of itself and no parameter list lies within itself; the code builds an
array after its component type, and a parameter list after the lists within it.
`DenotersMakeTypes`: no subrange has inverted bounds (the code reports
`INVERTED_SUBRANGE_BOUNDS` and builds none), and no component of a type is of one
of the types that only `[]`, `nil` and set constructors have.
Functions with a subrange as their result and files of a subrange are among the
types the theorems are about: the rules they are held against say of their values
what section 3 does (`ValueOf`), and `GivenKinds` shows that this is what the
comparison of type objects comes to.

What stays with TLC:

* termination: it is liveness;
* `LongestMatch` and the comment and string properties, the comparison of the
  parser with the grammar, and all of `Definitions`: their references or
  denoters are `RECURSIVE` operators over expressions, texts and types, and a
  module that reaches one has no SMT prover.

The library's induction theorems take an operator as a parameter, which the
provers cannot instantiate. Recursive functions over the natural numbers can be
reasoned about all the same with the well-foundedness of `<`
(`WellFoundedInduction`), as `VariantProofs`, `StatementProofs`,
`SubroutineProofs` and `CallProofs` do, the last two over lists, types and
signatures with their nesting as the number.

## 8. Not modelled

* `io.cxx`, `io.ixx`, the parse tree dump: output only.
* `generate-parsing-nodes.py`: writes data structures, nothing that runs.
* `utilities.ixx`: compile-time helpers without state.
* `test/run_tests.py`: compares reports with comments in the ill-formed
  programs; the programs themselves were read for what the compiler promises.
* The values of constants (`semantics-constants.ixx`): negation of a literal
  and which constants a case statement has already used; no state but a set.
* `str()` of types and constants: the wording of messages.
* `LineIndexer`: a binary search over line starts; only the layout of messages
  depends on it.
* The C++ text that `generate-lexing-tables.py` writes, with its limit of 255
  states: the generator refuses a larger automaton, and this one is smaller.
* The analyzer as one machine: each part of it (definitions, subroutines,
  statements, expressions, calls) is a model of its own, with what it needs of
  the others as an input that takes every value. The product of these is beyond
  TLC, and their order in `buildBlock` is fixed.

## 9. Plan

Done: `Reporter`, `Driver`, `Compiler`; `TokenReader`, `Parser`,
`PascalGrammar`; the lexer with its tables; `Statements`, `Definitions`,
`Headings`, `Subroutines`, `VariantPart`; types, expressions and calls; the
proofs of section 7.

Next, extending the model:

1. Variables and constants of inner blocks in `Definitions`.
2. The constants of a case statement, with their ordinals, in `Statements`.

Next, proving more: the refinement of the analyzer's reports into `Driver`'s faults.
