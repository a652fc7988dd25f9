------------------------------ MODULE SafetyRules ------------------------------
(***************************************************************************)
(* How a rules file becomes the keyword classifier, and what the           *)
(* classifier says of a prompt.  A prompt and a term are sequences of      *)
(* characters, a character is a string; the ones the compilation treats    *)
(* apart are the two apostrophes, white space and what a regular           *)
(* expression would read as an operator.                                   *)
(*                                                                         *)
(* Mentions is the reference: what an operator means who writes a term     *)
(* into the file.  The code keeps to it where a term begins and ends in a  *)
(* word; of others it may miss a mention, as the loader says and a test    *)
(* shows.                                                                  *)
(***************************************************************************)
EXTENDS Integers, Sequences, FiniteSets

Apostrophes == {"quote", "rsquo"}
WhiteSpace == {"space", "tab", "newline"}
Letters == {"a", "A", "b"}
AllChars == Letters \cup Apostrophes \cup WhiteSpace \cup {"dot", "dash"}

\* A term is authored with spaces between its words, no other white space.
TermChars == (AllChars \ WhiteSpace) \cup {"space"}

Lower(c) == IF c = "A" THEN "a" ELSE c

\* How many of the positions S are not behind i.
Rank(S, i) == Cardinality({j \in S : j <= i})

\* What s holds at the positions S, in their order.
At(s, S) == [k \in 1..Cardinality(S) |-> s[CHOOSE i \in S : Rank(S, i) = k]]

\* The positions of a text of n that are left when each run of spaces is one.
Collapsed(n, spaces) == {i \in 1..n : i \in spaces => i - 1 \notin spaces}

--------------------------------------------------------------------------------
(* A compiled expression is a sequence of character classes, each matched  *)
(* once or, with many, one or more times; bounded: wrapped in \b.          *)

Class(chars, many) == [chars |-> chars, many |-> many]

EscapeRegExp(term) == [i \in DOMAIN term |-> Class({term[i]}, FALSE)]

WidenApostrophes(escaped) ==
  [i \in DOMAIN escaped |->
     IF escaped[i].chars \cap Apostrophes # {}
     THEN Class(Apostrophes, FALSE) ELSE escaped[i]]

\* Mutant: a space of a term matches one space.
WidenWhitespaceNot(escaped) == escaped

WidenWhitespace(escaped) ==
  LET spaces == {i \in DOMAIN escaped : escaped[i].chars = {"space"}}
  IN  At([i \in DOMAIN escaped |->
            IF i \in spaces THEN Class(WhiteSpace, TRUE) ELSE escaped[i]],
         Collapsed(Len(escaped), spaces))

CompileTerm(term) ==
  [classes |-> WidenWhitespace(WidenApostrophes(EscapeRegExp(term))),
   bounded |-> TRUE]

\* A raw pattern is compiled as it stands.
CompilePattern(classes) == [classes |-> classes, bounded |-> FALSE]

--------------------------------------------------------------------------------
(* loadSafetyRules.  An entry of the file has any of category, term and    *)
(* pattern; a pattern is a sequence of classes, or Invalid.                *)

Invalid == <<"invalid">>
Has(entry, field) == field \in DOMAIN entry

WellFormed(entry) ==
  /\ Has(entry, "category") /\ entry.category # ""
  /\ Has(entry, "term") # Has(entry, "pattern")
  /\ Has(entry, "term") => entry.term # <<>>
  /\ Has(entry, "pattern") => entry.pattern # Invalid

\* One malformed entry, or no entry at all, and nothing is loaded.
Loads(file) == file # <<>> /\ \A i \in DOMAIN file : WellFormed(file[i])

LoadSafetyRules(file) ==
  [i \in DOMAIN file |->
     [category |-> file[i].category,
      pattern |-> IF Has(file[i], "term") THEN CompileTerm(file[i].term)
                  ELSE CompilePattern(file[i].pattern)]]

--------------------------------------------------------------------------------
(* Matching.  Positions lie between characters, 0 before the first.        *)

IsWord(text, i) == i \in DOMAIN text /\ text[i] \in Letters
Boundary(text, p) == IsWord(text, p) # IsWord(text, p + 1)

Matches(class, c) == Lower(c) \in {Lower(d) : d \in class.chars}

\* The characters between p and q are what the class asks for.
Spans(class, text, p, q) ==
  /\ IF class.many THEN p < q ELSE q = p + 1
  /\ \A i \in p + 1..q : Matches(class, text[i])

\* stops: where the match begins, and where each class ends.
Test(pattern, text) ==
  LET n == Len(pattern.classes)
  IN  \E stops \in [0..n -> 0..Len(text)] :
        /\ \A k \in 1..n : Spans(pattern.classes[k], text, stops[k - 1], stops[k])
        /\ pattern.bounded => Boundary(text, stops[0]) /\ Boundary(text, stops[n])

\* One category per matching rule, in the order of the rules.
Classify(rules, text) ==
  LET hits == {i \in DOMAIN rules : Test(rules[i].pattern, text)}
  IN  [safe |-> hits = {},
       categories |-> At([i \in DOMAIN rules |-> rules[i].category], hits)]

\* The answer's categories: each once, by first occurrence.
UniqueCategories(categories) ==
  At(categories, {i \in DOMAIN categories :
                    \A j \in 1..i - 1 : categories[j] # categories[i]})

--------------------------------------------------------------------------------
(* The reference, which knows nothing of expressions: a text mentions a    *)
(* term if somewhere it reads like the term, whatever the case, the kind   *)
(* of apostrophe and the amount of white space, and no word of the text is *)
(* cut in two by where the term begins or ends.                            *)

Plain(c) == IF c \in Apostrophes THEN "quote"
            ELSE IF c \in WhiteSpace THEN "space" ELSE Lower(c)

Canonical(text) ==
  At([i \in DOMAIN text |-> Plain(text[i])],
     Collapsed(Len(text), {i \in DOMAIN text : text[i] \in WhiteSpace}))

InsideWord(text, p) == IsWord(text, p) /\ IsWord(text, p + 1)

Mentions(text, term) ==
  LET t == Canonical(text)
      u == Canonical(term)
  IN  \E p \in 0..Len(t) - Len(u) :
        /\ SubSeq(t, p + 1, p + Len(u)) = u
        /\ ~InsideWord(t, p) /\ ~InsideWord(t, p + Len(u))

Flags(entry, text) ==
  IF Has(entry, "term") THEN Mentions(text, entry.term)
  ELSE Test(CompilePattern(entry.pattern), text)

\* The categories that some rules of a file flag a text for.
FlaggedFor(file, rules, text) ==
  {file[i].category : i \in {j \in rules : Flags(file[j], text)}}

\* Terms as the loader advises: a \b outside of other characters asks for a
\* word next to them.
WordEnds(term) == IsWord(term, 1) /\ IsWord(term, Len(term))
AsAdvised(file) == {j \in DOMAIN file : Has(file[j], "term") => WordEnds(file[j].term)}

================================================================================
