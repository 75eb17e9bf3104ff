------------------------------ MODULE MCModfileText ----------------------------
(* ModfileText for TLC: every text of up to six characters, against the grammar *)
(* ModImporter's modfiles are written in, said of the positions in the text     *)
(* rather than by reading it.                                                   *)
EXTENDS ModfileText

Marks(x)    == {k \in DOMAIN text : text[k] = x}
Pairs(x, y) == {k \in DOMAIN text : text[k] = x /\ k < Len(text) /\ text[k + 1] = y}
Comments    == Pairs(Colon, Colon)
Blocks      == Pairs(Dash, Colon)

\* The text is cut into lexemes. The first position of A from p on, and the one n
\* further:
FirstIn(A, p) == Min({k \in A : k >= p} \cup {Len(text) + 1})
Beyond(k, n) == Min({k + n, Len(text) + 1})
\* A quote goes on to the next, or to the end of its line; a comment takes the end
\* of its line with it; a block goes on to :-
QuoteEnds == Marks(Quote) \cup Marks(NL)
AfterQuote(p) ==
  LET e == FirstIn(QuoteEnds, p + 1) IN IF e \in Marks(Quote) THEN e + 1 ELSE e
AfterComment(p) == Beyond(FirstIn(Marks(NL), p), 1)
AfterBlock(p) == Beyond(FirstIn(Pairs(Colon, Dash), p + 2), 2)
\* The lexeme that starts at p ends before:
NextLexeme(p) ==
  CASE p \in Marks(Quote) -> AfterQuote(p)
    [] p \in Comments -> AfterComment(p)
    [] p \in Blocks -> AfterBlock(p)
    [] OTHER -> p + 1

\* S is where its lexemes start.
Lexings ==
  {S \in SUBSET (1..(Len(text) + 1)) :
     /\ 1 \in S
     /\ \A p \in S : p <= Len(text) =>
          NextLexeme(p) \in S /\ \A q \in S : q > p => q >= NextLexeme(p)}

\* What ends a command, and a word, and the characters that words are spelt with.
Breaks(S) == S \cap (Marks(NL) \cup Marks(Semi) \cup Comments)
Ends(S)   == Breaks(S) \cup (S \cap Marks(Gap))
Spelt(S)  ==
  {k \in DOMAIN text \ Marks(Quote) :
     \/ k \in S \ (Ends(S) \cup Blocks)
     \/ \E p \in S \cap Marks(Quote) : p < k /\ k < NextLexeme(p)}

Apart(k, l, A) == \E b \in A : k < b /\ b < l
\* Where commands (A is the breaks), and words (A is the ends), start; and the
\* members of X that belong to the one that starts at k.
Starts(S, A)  == {k \in Spelt(S) : \A l \in Spelt(S) : l < k => Apart(l, k, A)}
From(k, X, A) == {l \in X : k <= l /\ ~Apart(k, l, A)}

\* The values of a set of positions, in order.
InOrder(A, val) ==
  [n \in 1..Cardinality(A) |-> val[CHOOSE k \in A : Cardinality({l \in A : l < k}) = n - 1]]
Words(S) ==
  [k \in Starts(S, Ends(S)) |-> InOrder(From(k, Spelt(S), Ends(S)), text)]
Commands(S) ==
  [k \in Starts(S, Breaks(S)) |-> InOrder(From(k, Starts(S, Ends(S)), Breaks(S)), Words(S))]

\* The commands are those of the grammar: comments and blocks say nothing, wherever
\* they start and whatever they hold, unless they are in quotes; a newline and,
\* outside quotes, a semicolon end a command; quoted text is never split
\* (split_commands, tokenise).
ReadsTheGrammar ==
  phase = "done" => \E S \in Lexings : commands = InOrder(Starts(S, Breaks(S)), Commands(S))
================================================================================
