------------------------------ MODULE ModfileText ------------------------------
(* How the text of a modfile.txt becomes commands: split_commands and tokenise  *)
(* of src/src/hades1/legacy_mods.cpp. The text is a sequence of the kinds of    *)
(* character the two functions tell apart; one action is one turn of the loop.  *)
EXTENDS Naturals, SequencesExt

CONSTANTS
  Letters,   \* the characters with no meaning of their own
  MaxLength  \* bound on the text

ASSUME LengthAssumption == MaxLength \in Nat

Quote == "quote"  Colon == "colon"  Dash == "dash"  Semi == "semi"  NL == "newline"
Gap   == "gap"    \* space, tab, comma, carriage return

Chars == Letters \cup {Quote, Colon, Dash, Semi, NL, Gap}

VARIABLES
  text,
  pos,       \* i, the next character
  lines,     \* what split_commands has made of those before it
  inQuotes, inBlock,
  token,     \* tokenise, in the first of lines: the next character, and its variables
  commands,  \* the lines tokenised so far, those with no token left out
  phase      \* "split", "tokenise", "done"

textVars == <<text, pos, lines, inQuotes, inBlock, token, commands, phase>>

NoToken == [at |-> 1, tokens |-> <<>>, current |-> <<>>, inQuotes |-> FALSE]

TextInit ==
  /\ text \in BoundedSeq(Chars, MaxLength)
  /\ pos = 1 /\ lines = << <<>> >> /\ inQuotes = FALSE /\ inBlock = FALSE
  /\ token = NoToken /\ commands = <<>> /\ phase = "split"

--------------------------------------------------------------------------------
(* split_commands *)

char == text[pos]
Reads(x, y) == char = x /\ pos < Len(text) /\ text[pos + 1] = y
Turn == phase = "split" /\ pos <= Len(text) /\ UNCHANGED <<text, token, commands, phase>>
Outside == Turn /\ ~inBlock /\ ~inQuotes

Keep    == lines' = Append(Front(lines), Append(Last(lines), char))
NewLine == lines' = Append(lines, <<>>)

\* In a block comment everything is dropped until :-
Block ==
  /\ Turn /\ inBlock
  /\ inBlock' = ~Reads(Colon, Dash)
  /\ pos' = IF Reads(Colon, Dash) THEN pos + 2 ELSE pos + 1
  /\ UNCHANGED <<lines, inQuotes>>

\* The end of a line ends a command, and a quote that was left open.
LineEnd ==
  /\ Turn /\ ~inBlock /\ char = NL
  /\ NewLine
  /\ inQuotes' = FALSE
  /\ pos' = pos + 1
  /\ UNCHANGED inBlock

\* In quotes everything is kept, the quotes too.
Quoted ==
  /\ Turn /\ ~inBlock /\ inQuotes /\ char # NL
  /\ Keep
  /\ inQuotes' = (char # Quote)
  /\ pos' = pos + 1
  /\ UNCHANGED inBlock

OpenQuote ==
  /\ Outside /\ char = Quote
  /\ Keep
  /\ inQuotes' = TRUE
  /\ pos' = pos + 1
  /\ UNCHANGED inBlock

\* Variant: the end of the line goes with the comment, and the next line joins.
CommentJoins ==
  /\ Outside /\ Reads(Colon, Colon)
  /\ pos' = Min({k \in pos..Len(text) : text[k] = NL} \cup {Len(text)}) + 1
  /\ UNCHANGED <<lines, inQuotes, inBlock>>
\* A comment goes to the end of its line, which it takes with it.
Comment ==
  /\ Outside /\ Reads(Colon, Colon)
  /\ pos' = Min({k \in pos..Len(text) : text[k] = NL} \cup {Len(text)}) + 1
  /\ NewLine
  /\ UNCHANGED <<inQuotes, inBlock>>

OpenBlock ==
  /\ Outside /\ Reads(Dash, Colon)
  /\ inBlock' = TRUE
  /\ pos' = pos + 2
  /\ UNCHANGED <<lines, inQuotes>>

Semicolon ==
  /\ Outside /\ char = Semi
  /\ NewLine
  /\ pos' = pos + 1
  /\ UNCHANGED <<inQuotes, inBlock>>

Plain ==
  /\ Outside /\ char \notin {NL, Quote, Semi} /\ ~Reads(Colon, Colon) /\ ~Reads(Dash, Colon)
  /\ Keep
  /\ pos' = pos + 1
  /\ UNCHANGED <<inQuotes, inBlock>>

EndOfText ==
  /\ phase = "split" /\ pos > Len(text)
  /\ phase' = "tokenise"
  /\ UNCHANGED <<text, pos, lines, inQuotes, inBlock, token, commands>>

--------------------------------------------------------------------------------
(* tokenise, and the loop of parse_modfile that skips a line with no token *)

Flush(t) == IF t.current = <<>> THEN t
            ELSE [t EXCEPT !.tokens = Append(@, t.current), !.current = <<>>]

\* One character: quotes are dropped, and a gap outside them ends the token.
Take(t, x) ==
  IF x = Quote THEN [t EXCEPT !.inQuotes = ~@]
  ELSE IF ~t.inQuotes /\ x = Gap THEN Flush(t)
  ELSE [t EXCEPT !.current = Append(@, x)]

Tokenising == phase = "tokenise" /\ UNCHANGED <<text, pos, inQuotes, inBlock>>

Character ==
  /\ Tokenising /\ token.at <= Len(lines[1])
  /\ token' = [Take(token, lines[1][token.at]) EXCEPT !.at = @ + 1]
  /\ UNCHANGED <<lines, commands, phase>>

EndOfLine ==
  /\ Tokenising /\ token.at > Len(lines[1])
  /\ LET tokens == Flush(token).tokens
     IN commands' = IF tokens = <<>> THEN commands ELSE Append(commands, tokens)
  /\ token' = NoToken
  /\ IF Len(lines) = 1 THEN phase' = "done" /\ UNCHANGED lines
                       ELSE lines' = Tail(lines) /\ UNCHANGED phase

TextNext == \/ Block \/ LineEnd \/ Quoted \/ OpenQuote \/ Comment \/ OpenBlock
            \/ Semicolon \/ Plain \/ EndOfText
            \/ Character \/ EndOfLine

TextSpec == TextInit /\ [][TextNext]_textVars
================================================================================
