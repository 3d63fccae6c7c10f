------------------------------ MODULE MCParser ------------------------------
(* Families of texts for Parser. *)
EXTENDS Parser

Texts(tokens, longest) == [tokens |-> tokens, longest |-> longest]

(* Blocks in one another, up to the limit on nesting. *)
Blocks == {Texts({";", "{", "}", "identifier", "var", "print"}, 8)}

AllFamilies ==
  Blocks \cup
  { \* Operators of every kind.
    Texts({"identifier", "(", ")", "[", "]", "+", "!", "and", "=", ";"}, 6),
    \* Objects, properties and constants.
    Texts({"identifier", "{", "}", ":", ",", ";", "="}, 8),
    Texts({"identifier", "const", "=", ",", ".", ";", "{", "}"}, 6),
    \* Statements with statements in them.
    Texts({"for", "do", "while", "identifier", "(", ")", ";"}, 7),
    Texts({"if", "else", "return", "identifier", "(", ")", ";"}, 7),
    Texts({"while", "break", "fun", "identifier", "(", ")", "{", ";"}, 5),
    \* Functions, classes and methods.
    Texts({"fun", "return", "identifier", "(", ")", "{", "}", ","}, 6),
    Texts({"class", "<", "identifier", "(", ")", "{", "}"}, 7),
    Texts({"class", "super", "this", ".", "identifier", "{", "}", "(", ")"}, 5) }
=============================================================================
