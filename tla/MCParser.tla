----------------------------- MODULE MCParser ------------------------------
(* Parser with a buffer of six bytes and six tokens.  The application's    *)
(* texts fill the buffer, as blanks do; one is too short and one too long. *)
EXTENDS Parser

I == "IDENTIFIER"
N == "NUMBER"
O == "OPERATOR"
S == "SEPARATOR"
B == "BLANK"

Text(pieces, length) == [pieces |-> pieces, length |-> length]

SomeInputs ==
  {Text(<<I, S, S, N, S, B>>, 6), Text(<<I, B, S, S, O, S>>, 6), Text(<<I, S, S, N, N, N>>, 6),
   Text(<<I, S, I, S, S>>, 6), Text(<<S, I, "OTHER", S>>, 6),
   Text(<<B, B>>, 6), Text(<<I, S>>, 5), Text(<<I, S>>, 7)}

SomeOperations == {{I, N, S}, {I, N, O, S}}
SomeLimits == {3, 8}
=============================================================================
