----------------------------- MODULE MCSubroutines -----------------------------
(***************************************************************************)
(* Blocks with two names: many declarations of one of them, fewer of both, *)
(* at most one of which calls p, or two that may both call both.  Then     *)
(* headings with all kinds of lists, and blocks below some of them.  The   *)
(* name q is also that of a type around the block, or in it.               *)
(***************************************************************************)
EXTENDS SubroutineRules, FiniteSets

MCIdentifiers == {"p", "q", "x", "a", "b", "integer", "real", "link", "table", "text", "unknown"}
MCTypeForms ==
    [t \in {"integer", "real", "link", "table", "text", "q"} |->
        CASE t \in {"integer", "q"} -> "ordinal"
          [] t = "real" -> "real"
          [] t = "link" -> "pointer"
          [] t = "table" -> "structured"
          [] t = "text" -> "file"]
TypeNames == {"integer", "real", "link", "table", "text", "q", "x", "unknown"}

-----------------------------------------------------------------------------
(* Parameter lists.                                                        *)

Plain(form, names, type) ==
    [form |-> form, names |-> names, indexes |-> <<>>, type |-> type, list |-> <<>>]
WithIndexes(s, indexes) == [s EXCEPT !.indexes = indexes]
Heading(form, x, result, list) ==
    [form |-> form, names |-> <<x>>, indexes |-> <<>>, type |-> result, list |-> list]
Index(low, high, type) == [low |-> low, high |-> high, type |-> type]

(* Names in all constellations, some of which hide a type.                 *)
NameLists == {<<"x">>, <<"p">>, <<"q">>, <<"integer">>, <<"x", "x">>, <<"x", "a">>}
PlainSections ==
    {Plain(f, n, t) : f \in {"value", "variable"}, n \in NameLists, t \in TypeNames}
FewSections ==
    {Plain(f, n, t) : f \in {"value"}, n \in {<<"x">>, <<"a">>, <<"integer">>, <<"x", "a">>},
                      t \in {"integer", "table", "text"}}

(* Schemas with one and two index types, right ones and wrong ones.        *)
IndexLists ==
    {<<Index(l, h, t)>> : l \in {"a", "x"}, h \in {"a", "b"},
                          t \in {"integer", "real", "a", "unknown"}}
    \cup {<<Index("a", "b", t), Index(l, "p", u)>> :
            l \in {"a", "integer"}, t \in {"integer", "real"}, u \in {"integer", "real"}}
Schemas ==
    {WithIndexes(Plain(f, <<"x">>, t), i) :
        f \in {"value", "variable"}, t \in {"integer", "text", "unknown", "b"}, i \in IndexLists}
FewSchemas ==
    {WithIndexes(Plain("value", <<"x">>, "integer"), <<Index(l, h, "integer")>>) :
        l \in {"a", "x"}, h \in {"a", "b"}}

Lists1 == {<<s>> : s \in PlainSections \cup Schemas \cup FewSections}
FewLists == {<<>>} \cup {<<s>> : s \in FewSections \cup FewSchemas}

Headings1 ==
    {Heading("procedure", x, None, l) : x \in {"x", "q", "integer"}, l \in FewLists}
    \cup {Heading("function", x, t, l) :
            x \in {"x", "q", "integer"}, t \in {"integer", "real", "table", "unknown"},
            l \in {<<>>, <<Plain("value", <<"integer">>, "real")>>}}
FewHeadings ==
    {Heading("procedure", x, None, l) : x \in {"x", "integer"},
        l \in {<<>>, <<Plain("value", <<"a">>, "integer")>>}}
    \cup {Heading("function", "x", t, <<>>) : t \in {"integer", "table"}}

Lists2 ==
    {<<h>> : h \in Headings1}
    \cup {<<s, t>> : s, t \in FewSections \cup FewSchemas \cup FewHeadings}
Lists3 == {<<Heading("procedure", x, None, <<h>>)>> : x \in {"a", "integer"}, h \in Headings1}

AllLists == {<<>>} \cup Lists1 \cup Lists2 \cup Lists3
MCParameterLists == AllLists
MCNesting == [l \in AllLists |-> IF l \in Lists3 THEN 2 ELSE IF l \in Lists2 THEN 1 ELSE 0]

-----------------------------------------------------------------------------
(* Declarations.                                                           *)

Body(assigns, calls_, defines) ==
    [forward |-> FALSE, assigns |-> assigns, calls |-> calls_, defines |-> defines]
Simple(b) == b.forward \/ b.defines = {}

Declared(heading, x, list, result, bodies) ==
    {d \in {[heading |-> heading, name |-> x, list |-> list, result |-> result, body |-> b] :
                b \in bodies} : d \in Declaration}

(* Those with or without a list, of p and q.                               *)
APlainList == <<Plain("value", <<"x">>, "integer")>>
SimpleDeclarations(bodies) == UNION {
    Declared("procedure", x, <<>>, None, bodies)
    \cup Declared("procedure", x, APlainList, None, bodies)
    \cup Declared("function", x, <<>>, "integer", bodies)
    \cup Declared("identification", x, <<>>, None, bodies) : x \in Names}

SubroutineCalls == {c \in Calls : c.name \in {"p", "q"}}
NoCalls == SimpleDeclarations({Forward} \cup {Body(a, {}, {}) : a \in BOOLEAN})
NoCallsOfP == {d \in NoCalls : d.name = "p"}
NoCallOrOne ==
    NoCalls \cup SimpleDeclarations({Body(a, {c}, {}) : a \in BOOLEAN, c \in SubroutineCalls})
CallsP == {d \in NoCallOrOne : \E c \in d.body.calls : c.name = "p"}

Parts(declarationsUsed, lengths) == UNION {[1 .. n -> declarationsUsed] : n \in lengths}

(* One heading of every kind, as procedure and as function.                *)
AnyHeading ==
    UNION {Declared("procedure", "p", l, None, {Body(FALSE, {}, {})}) : l \in MCParameterLists}
    \cup UNION {Declared("function", "p", l, t, {Body(TRUE, {}, {})}) :
                    l \in FewLists, t \in TypeNames \cup {"p"}}

(* A block below a list, together with its heading or delayed.             *)
ListsInUse ==
    {<<>>, APlainList, <<Plain("value", <<"p">>, "integer")>>,
     <<WithIndexes(Plain("value", <<"x">>, "integer"), <<Index("a", "b", "integer")>>)>>,
     <<Heading("procedure", "x", None, <<>>)>>, <<Heading("function", "q", "integer", <<>>)>>,
     <<Plain("value", <<"x">>, "integer"), Heading("procedure", "x", None, <<>>)>>}
BodiesInUse ==
    {Body(a, c, d) : a \in BOOLEAN, d \in {{}, {"x"}, {"a"}, {"q"}, {"p"}},
        c \in {{}} \cup {{[name |-> x, function |-> f]} :
                            x \in {"x", "q", "p", "unknown", "table"}, f \in BOOLEAN}}

Together == UNION {
    Declared("procedure", "p", l, None, BodiesInUse)
    \cup Declared("function", "p", l, "integer", BodiesInUse) : l \in ListsInUse}
Ahead == UNION {
    Declared("procedure", "p", l, None, {Forward})
    \cup Declared("function", "p", l, "integer", {Forward}) : l \in ListsInUse}
Delayed ==
    Declared("procedure", "p", <<>>, None, BodiesInUse)
    \cup Declared("identification", "p", <<>>, None, BodiesInUse)
OtherDeclaration == Declared("procedure", "q", <<>>, None, {Body(FALSE, {}, {})})

MCDeclarationParts ==
    Parts(NoCallsOfP, {0, 4}) \cup Parts(NoCallOrOne, 1 .. 2) \cup Parts(NoCalls, {3})
    \cup {[s EXCEPT ![i] = d] : s \in Parts(NoCalls, {3}), i \in 1 .. 3, d \in CallsP}
    \cup {<<d>> : d \in AnyHeading} \cup {<<d, e>> : d \in AnyHeading, e \in OtherDeclaration}
    \cup {<<e, d>> : d \in Together, e \in OtherDeclaration}
    \cup {<<d, e>> : d \in Ahead, e \in Delayed}
=============================================================================
