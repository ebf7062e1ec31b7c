------------------------- MODULE MCOracleValidation -------------------------
(* Statement pairs and database states for model-checking OracleValidation. *)
EXTENDS OracleValidation

CONSTANTS a, b

Plain == [select |-> TRUE, ordered |-> FALSE, columns |-> 1, binds |-> 1, text |-> {}]
Ordered == [Plain EXCEPT !.ordered = TRUE]

PairOf(s, t) == [original |-> s, tuned |-> t]

(* Pairs that differ in what the comparison looks at.                      *)
ComparedPairs ==
  {PairOf(s, t) : s \in {Plain, Ordered}, t \in {Plain, Ordered}}
  \cup {PairOf(Plain, [Plain EXCEPT !.columns = 2]),
        PairOf(Plain, [Plain EXCEPT !.binds = 2])}

(* Results of no rows, of two, of the same rows in another order or number, *)
(* and of one row more than the limit of two, which is one batch more; one *)
(* content goes past that.                                                 *)
SomeResults == {<<>>, <<a, b>>, <<b, a>>, <<a, a>>, <<a, b, a>>}
SomeContents == [Label -> SomeResults] \cup {[l \in Label |-> <<a, a, a, a>>]}

(* Tuned statements with one word of the policy, in every place.           *)
MarkedPairs ==
  {PairOf(Plain, [Plain EXCEPT !.text = {t}]) : t \in Word \X Place}
  \cup {PairOf([Plain EXCEPT !.select = FALSE], Plain),
        PairOf(Plain, [Plain EXCEPT !.select = FALSE])}

SomePairs == ComparedPairs \cup MarkedPairs

OneContent == [Label -> {<<a>>}]

(* A tuned statement that carries one word in a hint.                      *)
HintPairs ==
  {PairOf(Plain, [Plain EXCEPT !.text = {<<w, "comment">>}]) :
     w \in {"MATERIALIZE", "RESULT_CACHE"}}
=============================================================================
