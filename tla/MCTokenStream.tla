---------------------------- MODULE MCTokenStream ----------------------------
(* Small instances of TokenStream for TLC. *)
EXTENDS TokenStream

CONSTANT word

AllPieces == {word, Done}

\* Every route with replies of no token, of two, and of one that spells the
\* sentinel, ended by the model, the engine or the agent; a prompt the
\* classifier rejects or fails on; and a body it is never asked about.
AllCases ==
  {c \in [route : {"generate", "chat"}, stream : BOOLEAN,
          verdict : {"safe", "unsafe", "broken", "unasked"},
          pieces : {<<>>, <<word, word>>, <<word, Done, word>>},
          fate : {"ends", "throws", "refuses"}] :
     /\ c.verdict # "safe" => c.pieces = <<>> /\ c.fate = "ends"
     /\ c.fate = "refuses" => c.pieces = <<>>
     /\ c.fate = "throws" => c.pieces # <<word, Done, word>>}

=============================================================================
