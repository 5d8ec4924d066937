----------------------------- MODULE Tokenizer -----------------------------
(***************************************************************************)
(* The tokenizer of libpolycall (src/polycall_tokenizer.c): it scans an    *)
(* input once and appends what it finds to a token array of fixed size.    *)
(*                                                                         *)
(* An input is the sequence of its pieces (blanks, lexemes the library's   *)
(* matchers know, separators only the application has a pattern for, and   *)
(* what matches nothing) and its length in bytes, which is compared with   *)
(* the size of the buffer.  position counts pieces.  A set of operations   *)
(* is the set of token types it produces; composing two is their union.    *)
(* The application sets an input before it scans one.                      *)
(***************************************************************************)
EXTENDS Naturals, Sequences

CONSTANTS
  BufferSize,   \* limits.buffer
  Capacity,     \* tokens->capacity, limits.buffer / limits.token
  Inputs,       \* what the application and its files contain
  Operations,   \* the operations the application scans with
  MaxInputs,    \* bound: inputs set
  NoInput       \* the buffer before the first one

Lexemes == {"IDENTIFIER", "NUMBER", "STRING", "OPERATOR", "SEPARATOR"}
Pieces == Lexemes \cup {"BLANK", "OTHER"}

ASSUME TokenizerConstantsOK ==
  /\ BufferSize \in Nat /\ Capacity \in Nat /\ MaxInputs \in Nat
  /\ Inputs \subseteq [pieces : Seq(Pieces), length : Nat \ {0}]
  /\ \A input \in Inputs : Len(input.pieces) <= input.length
  /\ Operations \subseteq SUBSET Lexemes
  /\ NoInput \notin Inputs

VARIABLES
  buffer,     \* input.buffer
  position,   \* input.position
  status,     \* state.current
  patterns,   \* the operations of the process call under way
  tokens,     \* the token array: types, and as history where each was found
  inputs      \* history: inputs set so far

tokenizer == <<buffer, position, status, patterns, tokens, inputs>>

(* Mutant: the token past the last one is stored.                          *)
AppendedPastEnd(type) ==
  IF Len(tokens) <= Capacity
    THEN Append(tokens, [type |-> type, input |-> inputs, at |-> position + 1])
    ELSE tokens

(* A token for which there is no room is dropped.                          *)
Appended(type) ==
  IF Len(tokens) < Capacity
    THEN Append(tokens, [type |-> type, input |-> inputs, at |-> position + 1])
    ELSE tokens

-----------------------------------------------------------------------------
TokenizerInit ==
  /\ buffer = NoInput /\ position = 0 /\ status = "READY" /\ patterns = {}
  /\ tokens = <<>> /\ inputs = 0

(* Mutant: the next input is scanned from where the last one ended.        *)
SetInputKeepsPosition(input) ==
  /\ inputs < MaxInputs
  /\ IF input.length > BufferSize
       THEN status' = "ERROR" /\ UNCHANGED <<buffer, position, inputs>>
       ELSE buffer' = input /\ status' = "READY" /\ inputs' = inputs + 1 /\ UNCHANGED position
  /\ UNCHANGED <<patterns, tokens>>

(* polycall_tokenizer_set_input: the tokens of the input before stay.      *)
SetInput(input) ==
  /\ inputs < MaxInputs
  /\ IF input.length > BufferSize
       THEN status' = "ERROR" /\ UNCHANGED <<buffer, position, inputs>>
       ELSE buffer' = input /\ position' = 0 /\ status' = "READY" /\ inputs' = inputs + 1
  /\ UNCHANGED <<patterns, tokens>>

Reset ==
  /\ position' = 0 /\ status' = "READY" /\ tokens' = <<>>
  /\ UNCHANGED <<buffer, patterns, inputs>>

(* polycall_tokenizer_process, from its first line to its return: it goes  *)
(* on where the last call stopped.                                         *)
BeginProcess(ops) ==
  /\ buffer # NoInput
  /\ status' = "SCANNING" /\ patterns' = ops
  /\ UNCHANGED <<buffer, position, tokens, inputs>>

Scanning == status = "SCANNING"
Piece == IF position < Len(buffer.pieces) THEN buffer.pieces[position + 1] ELSE "END"

SkipBlank ==
  /\ Scanning /\ Piece = "BLANK"
  /\ position' = position + 1
  /\ UNCHANGED <<buffer, status, patterns, tokens, inputs>>

Match ==
  /\ Scanning /\ Piece \in patterns
  /\ tokens' = Appended(Piece) /\ position' = position + 1
  /\ UNCHANGED <<buffer, status, patterns, inputs>>

(* The scan goes up to the size of the buffer: past the end of a shorter   *)
(* input it finds the NUL, which is no blank and which nothing matches.    *)
Unmatched ==
  /\ Scanning
  /\ \/ Piece \in Pieces \ (patterns \cup {"BLANK"})
     \/ Piece = "END" /\ buffer.length < BufferSize
  /\ status' = "ERROR"
  /\ UNCHANGED <<buffer, position, patterns, tokens, inputs>>

(* An input as long as the buffer, whose terminator went one past its end. *)
EndOfInput ==
  /\ Scanning /\ Piece = "END" /\ buffer.length = BufferSize
  /\ tokens' = Appended("EOF") /\ status' = "READY"
  /\ UNCHANGED <<buffer, position, patterns, inputs>>

Scan == SkipBlank \/ Match \/ Unmatched \/ EndOfInput
-----------------------------------------------------------------------------
Tokens == [type : Lexemes \cup {"EOF"}, input : Nat, at : Nat]

TokenizerTypeOK ==
  /\ buffer \in Inputs \cup {NoInput} /\ position \in Nat
  /\ buffer = NoInput => position = 0 /\ ~Scanning
  /\ buffer # NoInput => position <= Len(buffer.pieces) /\ buffer.length <= BufferSize
  /\ status \in {"READY", "SCANNING", "ERROR"} /\ patterns \in Operations \cup {{}}
  /\ tokens \in Seq(Tokens) /\ Len(tokens) <= Capacity
  /\ inputs \in 0 .. MaxInputs

(* The tokens of the input in the buffer are its lexemes up to position,   *)
(* each once and in order, but for those at the end that found the array   *)
(* full; however often process failed and was called again, with what      *)
(* operations, and whatever other input was left half scanned.             *)
TokensTile ==
  LET mine == {i \in DOMAIN tokens : tokens[i].input = inputs /\ tokens[i].type # "EOF"}
      lexemes == {k \in 1 .. position : buffer.pieces[k] # "BLANK"}
  IN  /\ \A i \in mine : tokens[i].at \in lexemes /\ tokens[i].type = buffer.pieces[tokens[i].at]
      /\ \A i, j \in mine : i < j => tokens[i].at < tokens[j].at
      /\ \A k \in lexemes :
           \/ \E i \in mine : tokens[i].at = k
           \/ Len(tokens) = Capacity /\ \A i \in mine : tokens[i].at < k
=============================================================================
