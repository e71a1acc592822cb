------------------------------- MODULE TypedReading -------------------------------
(***************************************************************************)
(* An abstract machine that reads an expression word by word and keeps     *)
(* what kind of thing it stands for.  Once a word breaks a rule, the       *)
(* expression is wrong and stays wrong, and nothing more is said of it.    *)
(***************************************************************************)

CONSTANTS
    Typed(_, _),    \* the word is well typed after a text of that kind
    Result(_, _),   \* what the text stands for then
    FirstWord, Nothing

VARIABLES
    word,   \* the word read last
    kind,   \* what the text read since the expression began stands for
    wrong   \* the text breaks a rule

Init ==
    /\ word = FirstWord
    /\ kind = Nothing
    /\ wrong = FALSE

Read(w) ==
    /\ word' = w
    /\ IF ~wrong /\ Typed(kind, w)
       THEN kind' = Result(kind, w) /\ wrong' = FALSE
       ELSE wrong' = TRUE

(* The words are whatever there is to read: the next one is the next state.*)
Next == Read(word')

Spec == Init /\ [][Next]_<<word, kind, wrong>>
===================================================================================
