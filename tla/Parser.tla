------------------------------- MODULE Parser -------------------------------
(***************************************************************************)
(* The parser of libpolycall (src/polycall_parser.c) over its tokenizer.   *)
(* polycall_parser_parse_string scans with an empty set of operations, so  *)
(* the tokens it parses are those the application scanned on the parser's  *)
(* tokenizer and has not reset.                                            *)
(*                                                                         *)
(* The descent is a fixed nest of functions and loops, and pc tells where  *)
(* in it the call is.  A round of a loop that changes nothing is followed  *)
(* by the same round for ever: the call is then said to be spinning.       *)
(* Nodes are numbered as they are allocated from the pool; the root is 1.  *)
(***************************************************************************)
EXTENDS Tokenizer

CONSTANTS
  NodeLimits,     \* config->max_nodes of the parsers; a pool holds its root
  ChildCapacity   \* children allocated for a program and for a block, 16

ASSUME ParserConstantsOK ==
  NodeLimits \subseteq Nat \ {0} /\ ChildCapacity \in Nat \ {0}

VARIABLES
  maxNodes,    \* config->max_nodes
  pc,
  index,       \* state.token_index
  current,     \* state.current_token, as an index from 1; 0 for NULL
  used,        \* pool.used
  type,        \* of each node in the pool, its type ...
  parent,      \* ... its parent, 0 for NULL ...
  children,    \* ... and its children
  fun, block, stmt   \* the nodes parse_function, parse_block and
                     \*   parse_statement are at; 0 outside of them

cursor == <<index, current>>
links == <<parent, children>>
tree == <<used, type, links>>
frames == <<fun, block, stmt>>
parser == <<maxNodes, pc, cursor, tree, frames>>
vars == <<tokenizer, parser>>

Nodes == 1 .. maxNodes
ExpressionTypes == {"NUMBER", "STRING", "IDENTIFIER"}

-----------------------------------------------------------------------------
Is(t) == current # 0 /\ tokens[current].type = t

(* advance_token fails at the end of the array, and the last token stays   *)
(* current for ever.  The first advance goes to the token current already. *)
CanAdvance == index < Len(tokens)
Advance == CanAdvance /\ index' = index + 1 /\ current' = index + 1
TryAdvance == Advance \/ (~CanAdvance /\ UNCHANGED cursor)

(* expect_token, and expect_token where its result is not looked at.       *)
Expected(t) == Is(t) /\ CanAdvance
TryExpect(t) == IF Expected(t) THEN Advance ELSE UNCHANGED cursor

Room == used < maxNodes

(* allocate_node and the type of the node.                                 *)
Allocate(t) ==
  /\ Room
  /\ used' = used + 1 /\ type' = [type EXCEPT ![used + 1] = t]

(* Mutant: the child does not learn of its parent.                         *)
LinkDown(node, child) ==
  /\ children' = [children EXCEPT ![node] = Append(@, child)]
  /\ UNCHANGED parent

(* Mutant: a child is stored in front of its elders.                       *)
LinkInFront(node, child) ==
  /\ children' = [children EXCEPT ![node] = <<child>> \o @]
  /\ parent' = [parent EXCEPT ![child] = node]

(* node->children[node->child_count++] = child; child->parent = node.      *)
Link(node, child) ==
  /\ children' = [children EXCEPT ![node] = Append(@, child)]
  /\ parent' = [parent EXCEPT ![child] = node]

(* The arrays of a program and of a block never grow: the child after the  *)
(* sixteenth is counted, and written behind them.  What that destroys is   *)
(* undefined, and nothing more is said of a run that has come so far.      *)
LinkUnchecked(node, child, next) ==
  /\ Link(node, child)
  /\ pc' = IF Len(children[node]) < ChildCapacity THEN next ELSE "overrun"

-----------------------------------------------------------------------------
Init ==
  /\ TokenizerInit
  /\ maxNodes \in NodeLimits /\ pc = "idle"
  /\ index = 0 /\ current = 0 /\ used = 0
  /\ type = [n \in Nodes |-> "NONE"]
  /\ parent = [n \in Nodes |-> 0] /\ children = [n \in Nodes |-> <<>>]
  /\ fun = 0 /\ block = 0 /\ stmt = 0

(* The application's own calls on the parser's tokenizer.                  *)
UseTokenizer ==
  /\ pc = "idle" /\ ~Scanning
  /\ \/ \E input \in Inputs : SetInput(input)
     \/ Reset
     \/ \E ops \in Operations : BeginProcess(ops)
  /\ UNCHANGED parser

ScanStep == Scan /\ UNCHANGED parser

(* polycall_parser_parse_string, up to polycall_tokenizer_process.         *)
ParseString(input) ==
  /\ pc = "idle" /\ ~Scanning
  /\ \/ input.length > BufferSize /\ SetInput(input) /\ UNCHANGED pc
     \/ /\ input.length <= BufferSize /\ inputs < MaxInputs
        /\ buffer' = input /\ position' = 0 /\ inputs' = inputs + 1
        /\ status' = "SCANNING" /\ patterns' = {} /\ UNCHANGED tokens
        /\ pc' = "scan"
  /\ UNCHANGED <<maxNodes, cursor, tree, frames>>

ScanFails ==
  /\ pc = "scan" /\ status = "ERROR"
  /\ pc' = "idle"
  /\ UNCHANGED <<tokenizer, maxNodes, cursor, tree, frames>>

(* parse_tokens, up to its loop: a pool of zeroed nodes and the root.      *)
BeginProgram ==
  /\ pc = "scan" /\ status = "READY"
  /\ index' = 0 /\ current' = IF tokens = <<>> THEN 0 ELSE 1
  /\ used' = 1 /\ type' = [n \in Nodes |-> IF n = 1 THEN "PROGRAM" ELSE "NONE"]
  /\ pc' = "program"
  /\ UNCHANGED <<tokenizer, maxNodes, links, frames>>

BeginFunction ==
  /\ pc = "program" /\ Expected("IDENTIFIER") /\ Advance
  /\ IF Room THEN Allocate("FUNCTION") /\ fun' = used + 1 /\ pc' = "function"
             ELSE UNCHANGED <<used, type, fun, pc>>
  /\ UNCHANGED <<links, block, stmt>>

OpenParameters ==
  /\ pc = "function" /\ TryExpect("SEPARATOR") /\ pc' = "parameters"
  /\ UNCHANGED <<tree, frames>>

SkipParameter ==
  /\ pc = "parameters" /\ ~Is("SEPARATOR") /\ Advance
  /\ UNCHANGED <<pc, tree, frames>>

CloseParameters ==
  /\ pc = "parameters" /\ Is("SEPARATOR") /\ TryExpect("SEPARATOR") /\ pc' = "body"
  /\ UNCHANGED <<tree, frames>>

(* Mutant: a block without its separator.                                  *)
BeginBlockAnyway ==
  /\ pc = "body" /\ TryExpect("SEPARATOR")
  /\ IF Room
       THEN Allocate("BLOCK") /\ block' = used + 1 /\ pc' = "block"
       ELSE pc' = "function done" /\ UNCHANGED <<used, type, block>>
  /\ UNCHANGED <<links, fun, stmt>>

(* parse_block, or its NULL without a separator or a node.                 *)
BeginBlock ==
  /\ pc = "body" /\ TryExpect("SEPARATOR")
  /\ IF Expected("SEPARATOR") /\ Room
       THEN Allocate("BLOCK") /\ block' = used + 1 /\ pc' = "block"
       ELSE pc' = "function done" /\ UNCHANGED <<used, type, block>>
  /\ UNCHANGED <<links, fun, stmt>>

(* Mutant: only a statement that has an expression takes a node.           *)
BeginStatementLate ==
  /\ pc = "block" /\ ~Is("SEPARATOR") /\ pc' = "statement"
  /\ IF \E t \in ExpressionTypes : Is(t)
       THEN Allocate("STATEMENT") /\ stmt' = used + 1
       ELSE UNCHANGED <<used, type, stmt>>
  /\ UNCHANGED <<cursor, links, fun, block>>

BeginStatement ==
  /\ pc = "block" /\ ~Is("SEPARATOR")
  /\ Allocate("STATEMENT") /\ stmt' = used + 1 /\ pc' = "statement"
  /\ UNCHANGED <<cursor, links, fun, block>>

(* A token that starts no expression is not skipped: it makes another      *)
(* statement, and another.                                                 *)
ParseExpression ==
  /\ pc = "statement" /\ pc' = "statement done"
  /\ IF (\E t \in ExpressionTypes : Is(t)) /\ Room
       THEN Allocate("EXPRESSION") /\ Link(stmt, used + 1) /\ TryAdvance
       ELSE UNCHANGED <<cursor, tree>>
  /\ UNCHANGED frames

EndStatement ==
  /\ pc = "statement done" /\ LinkUnchecked(block, stmt, "block") /\ stmt' = 0
  /\ UNCHANGED <<cursor, used, type, fun, block>>

(* Mutant: the separator that ends a block is left where it is.            *)
EndBlockAt ==
  /\ pc = "block" /\ Is("SEPARATOR") /\ UNCHANGED cursor
  /\ Link(fun, block) /\ block' = 0 /\ pc' = "function done"
  /\ UNCHANGED <<used, type, fun, stmt>>

EndBlock ==
  /\ pc = "block" /\ Is("SEPARATOR") /\ TryExpect("SEPARATOR")
  /\ Link(fun, block) /\ block' = 0 /\ pc' = "function done"
  /\ UNCHANGED <<used, type, fun, stmt>>

EndFunction ==
  /\ pc = "function done" /\ LinkUnchecked(1, fun, "program") /\ fun' = 0
  /\ UNCHANGED <<cursor, used, type, block, stmt>>

(* A round that changes nothing: in parse_tokens at a token that is no     *)
(* identifier, or at an identifier that ends the array; in the parameters  *)
(* of parse_function at the end of the array; in parse_block without a     *)
(* node for the statement.                                                 *)
SpinsAt(loop) ==
  \/ loop = "program" /\ current # 0 /\ ~Is("EOF") /\ ~Expected("IDENTIFIER")
  \/ loop = "parameters" /\ ~Is("SEPARATOR") /\ ~CanAdvance
  \/ loop = "block" /\ ~Is("SEPARATOR") /\ ~Room

Spin ==
  /\ SpinsAt(pc) /\ pc' = "spinning"
  /\ UNCHANGED <<cursor, tree, frames>>

(* The flat array of nodes is built here: it lists them as allocated.      *)
EndProgram ==
  /\ pc = "program" /\ (current = 0 \/ Is("EOF")) /\ pc' = "flat"
  /\ UNCHANGED <<cursor, tree, frames>>

(* destroy_node_pool, under the root and the flat array of the AST that is *)
(* returned.                                                               *)
ReturnAst ==
  /\ pc = "flat" /\ pc' = "idle"
  /\ used' = 0 /\ type' = [n \in Nodes |-> "NONE"]
  /\ parent' = [n \in Nodes |-> 0] /\ children' = [n \in Nodes |-> <<>>]
  /\ UNCHANGED <<cursor, frames>>

Descend ==
  /\ \/ BeginFunction \/ OpenParameters \/ SkipParameter \/ CloseParameters
     \/ BeginBlock \/ BeginStatement \/ ParseExpression \/ EndStatement \/ EndBlock
     \/ EndFunction \/ Spin \/ EndProgram \/ ReturnAst
  /\ UNCHANGED <<tokenizer, maxNodes>>

Next ==
  \/ UseTokenizer \/ ScanStep \/ ScanFails \/ BeginProgram \/ Descend
  \/ \E input \in Inputs : ParseString(input)

(* A call that has been made goes on.                                      *)
Spec == Init /\ [][Next]_vars /\ WF_vars(ScanStep \/ ScanFails \/ BeginProgram \/ Descend)
-----------------------------------------------------------------------------
(* polycall_ast_visit from each node, and polycall_ast_validate (its limit *)
(* of depth, 256, is beyond any tree of this parser).                      *)
VisitOf(visit, n) ==
  LET rest[k \in 0 .. Len(children[n])] ==
        IF k = 0 THEN <<n>> ELSE rest[k - 1] \o visit[children[n][k]]
  IN  rest[Len(children[n])]

Visits == LET visit[n \in 1 .. used] == VisitOf(visit, n) IN visit[1]

Validates ==
  /\ Len(Visits) = used
  /\ \A k \in DOMAIN Visits :
       \A c \in DOMAIN children[Visits[k]] : parent[children[Visits[k]][c]] = Visits[k]

(* What a stream of tokens must be for parse_tokens to end: functions, one *)
(* after the other, and an EOF.  The stream begins with its first token    *)
(* twice.  A function is a name, any token (the opening separator, if one  *)
(* is given), others up to a separator, and then, if a separator follows,  *)
(* expressions up to the next.                                             *)
Stream == [i \in 1 .. Len(tokens) + 1 |-> tokens[IF i = 1 THEN 1 ELSE i - 1].type]

IsFunction(s, p, q) ==
  \E close \in p + 2 .. q - 1 :
    /\ s[p] = "IDENTIFIER" /\ s[close] = "SEPARATOR"
    /\ \A i \in p + 2 .. close - 1 : s[i] # "SEPARATOR"
    /\ \/ q = close + 1 /\ s[q] # "SEPARATOR"
       \/ /\ close + 2 < q /\ s[close + 1] = "SEPARATOR" /\ s[q - 1] = "SEPARATOR"
          /\ \A i \in close + 2 .. q - 2 : s[i] \in ExpressionTypes

Grammatical ==
  tokens = <<>> \/
  \E starts \in SUBSET DOMAIN Stream :
    /\ 1 \in starts
    /\ \A p \in starts : Stream[p] = "EOF" \/ \E q \in starts : q > p /\ IsFunction(Stream, p, q)
-----------------------------------------------------------------------------
(* Properties.                                                             *)

Pcs == {"idle", "scan", "program", "function", "parameters", "body", "block", "statement",
        "statement done", "function done", "flat", "overrun", "spinning"}

(* The tokenizer's types; the parser never leaves the token array or its   *)
(* pool.  (The arrays of children it does leave: ChildrenFit.)             *)
TypeOK ==
  /\ TokenizerTypeOK
  /\ maxNodes \in NodeLimits /\ pc \in Pcs
  /\ index \in 0 .. Capacity /\ current \in 0 .. Capacity
  /\ pc \notin {"idle", "scan"} => index <= Len(tokens) /\ current <= Len(tokens)
  /\ used \in 0 .. maxNodes
  /\ type \in [Nodes -> {"NONE", "PROGRAM", "FUNCTION", "BLOCK", "STATEMENT", "EXPRESSION"}]
  /\ parent \in [Nodes -> 0 .. maxNodes] /\ children \in [Nodes -> Seq(Nodes)]
  /\ fun \in 0 .. maxNodes /\ block \in 0 .. maxNodes /\ stmt \in 0 .. maxNodes

(* Every child has a place in the array of its parent: the comment that    *)
(* parse_block and parse_tokens give their sixteen places, "Initial        *)
(* capacity", says that more are made when they are needed.  Nothing in    *)
(* the code makes them.                                                    *)
PlacesOf(t) == IF t \in {"PROGRAM", "BLOCK"} THEN ChildCapacity ELSE 1

ChildrenFit == \A n \in 1 .. used : Len(children[n]) <= PlacesOf(type[n])

(* At every moment of a parse, also when nodes run out in the middle of a  *)
(* function, and up to a child written behind its array, each node but the *)
(* root is the child of exactly one other, the one it calls its parent, or *)
(* is still under construction; children come after their parents, so that *)
(* there is no cycle; a program holds functions, a function a block, and   *)
(* so on.                                                                  *)
Holds(t) == CASE t = "PROGRAM" -> "FUNCTION" [] t = "FUNCTION" -> "BLOCK"
              [] t = "BLOCK" -> "STATEMENT" [] OTHER -> "EXPRESSION"

AstIsTree ==
  pc # "overrun" =>
    /\ \A n \in 2 .. used : parent[n] # 0 \/ n \in {fun, block, stmt}
    /\ \A n \in 1 .. used : parent[n] # 0 =>
         /\ parent[n] < n /\ type[n] = Holds(type[parent[n]])
         /\ \E k \in DOMAIN children[parent[n]] : children[parent[n]][k] = n
    /\ \A n \in 1 .. used : \A k \in DOMAIN children[n] :
         /\ children[n][k] \in 2 .. used /\ parent[children[n][k]] = n
         /\ \A j \in DOMAIN children[n] : j < k => children[n][j] < children[n][k]

(* The flat array that parse_tokens builds by walking the pool is the tree *)
(* in the order polycall_ast_visit walks it, and polycall_ast_validate     *)
(* accepts it, as long as the pool is there.                               *)
FlatIsTheVisit ==
  pc = "flat" => Visits = [i \in 1 .. used |-> i] /\ Validates

(* parse_tokens ends only on a grammatical stream, unless nodes ran out.   *)
EndsInGrammar == pc = "flat" => Grammatical \/ ~Room

(* On a grammatical stream it does end, or comes to write behind an array  *)
(* of children, or has taken the last node ...                             *)
GrammarEnds ==
  pc = "program" /\ Grammatical ~> pc \in {"flat", "overrun"} \/ ~Room

(* ... because none of its loops comes to a token it neither reads nor ends *)
(* at.                                                                     *)
NoLoopSpins == pc = "spinning" => ~Grammatical \/ ~Room

(* A loop that goes on has read a token or taken a node, and one that has  *)
(* not spins: on any stream the tokens not read, the nodes not taken and   *)
(* the way to the end of the round say how many steps there are at most    *)
(* before the call returns, writes behind an array, or spins for ever.     *)
Ahead(where) ==
  CASE where = "flat" -> 1 [] where = "program" -> 2 [] where = "function done" -> 3
    [] where \in {"block", "body"} -> 4 [] where \in {"statement done", "parameters"} -> 5
    [] where \in {"statement", "function"} -> 6 [] OTHER -> 0

Work ==
  IF pc \in {"idle", "scan"} THEN 0
    ELSE 5 * ((Len(tokens) - index) + (maxNodes - used)) + Ahead(pc)

DescentAdvances == [][Descend => Work' \in 0 .. Work - 1]_vars
=============================================================================
