------------------------------ MODULE MCDashboard ------------------------------
(* Small instances of Dashboard for TLC. *)
EXTENDS Dashboard

CONSTANTS A, B

TwoCatalogs == {<<A>>, <<B, A>>}
MinNodes == [m \in Models |-> IF m = A THEN 1 ELSE 2]

Term(category, term) == [category |-> category, term |-> term]

\* Two rules of one category, one with a character that is an operator of
\* expressions, one that ends in one, which a text has with and without a
\* letter behind it, and a raw pattern.
Rules ==
  <<Term("c1", <<"a", "space", "b">>), Term("c2", <<"a", "quote", "b">>),
    Term("c2", <<"a", "dot", "b">>), Term("c3", <<"a", "dot">>),
    [category |-> "c4", pattern |-> <<Class({"dash"}, FALSE), Class({"a"}, TRUE)>>]>>

\* Files that do not load: empty, an empty term, both kinds at once.
Files ==
  {Rules, <<>>, <<Term("c1", <<"a">>), Term("c1", <<>>)>>,
   <<[category |-> "c1", term |-> <<"a">>, pattern |-> <<>>]>>}

\* What stands between two letters, at the start of a word or inside one.
Between ==
  {<<>>, <<"rsquo", "dash">>, <<"dash", "a">>}
    \cup [1..1 -> {"space", "tab", "quote", "rsquo", "dot", "dash", "a"}]
    \cup [1..2 -> {"space", "newline"}]
Texts == {<<x>> \o between \o <<"b">> : x \in {"a", "A"}, between \in Between}
           \cup {<<"b", "a", "space", "b">>, <<"a", "space", "b", "a">>,
                <<"a", "dot", "space", "b">>}

\* No token, the secret, and the secret with a newline behind it.
SomeTokens == {[word |-> "", padded |-> FALSE]}
                \cup [word : {"secret"}, padded : BOOLEAN]

PollsPerPanel == [p \in Panels |-> CASE p = "status" -> 2 [] p = "chat" -> 1 [] OTHER -> 0]
ChangesPerPanel == [p \in Panels |-> IF p = "status" THEN 2 ELSE 1]

================================================================================
