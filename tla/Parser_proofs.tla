--------------------------- MODULE Parser_proofs ----------------------------
(***************************************************************************)
(* What holds of the parser for buffers, token arrays, pools and inputs of *)
(* any size: it stays inside its arrays, it builds a tree, and it ends on  *)
(* nothing but its grammar.                                                *)
(***************************************************************************)
EXTENDS Parser, Induction, TLAPS

Parsing == pc \notin {"idle", "scan"}

InFunction == {"function", "parameters", "body", "block", "statement", "statement done",
               "function done"}
InBlock == {"block", "statement", "statement done"}
InStatement == {"statement", "statement done"}

(* Node c is being built under node n: it is in the pool, it has no parent *)
(* yet, and the children n has are older.                                  *)
Building(n, c) ==
  /\ c \in 2 .. used /\ n < c /\ parent[c] = 0
  /\ \A k \in DOMAIN children[n] : children[n][k] < c

(* The tokenizer rests during a parse, and the cursor is at a token.       *)
Cursor ==
  /\ Parsing => ~Scanning
  /\ Parsing => index <= Len(tokens) /\ current <= Len(tokens)
  /\ Parsing /\ tokens = <<>> => current = 0
  /\ Parsing /\ tokens # <<>> => current = IF index = 0 THEN 1 ELSE index

(* The rest of the pool is still zero.                                     *)
Blank == \A n \in Nodes : n > used => parent[n] = 0 /\ children[n] = <<>>

(* The nodes under construction.                                           *)
Frames ==
  /\ ~Parsing => used = 0
  /\ Parsing => used \in 1 .. maxNodes /\ type[1] = "PROGRAM" /\ parent[1] = 0
  /\ Blank
  /\ pc \notin InFunction \cup {"overrun", "spinning"} => fun = 0
  /\ pc \notin InBlock \cup {"overrun", "spinning"} => block = 0
  /\ pc \notin InStatement \cup {"overrun", "spinning"} => stmt = 0
  /\ pc \in InFunction =>
       Building(1, fun) /\ type[fun] = "FUNCTION" /\ (pc # "function done" => children[fun] = <<>>)
  /\ pc \in InBlock => Building(fun, block) /\ type[block] = "BLOCK"
  /\ pc \in InStatement => Building(block, stmt) /\ type[stmt] = "STATEMENT"
  /\ pc = "statement" => children[stmt] = <<>>

(* AstIsTree of any pool.                                                  *)
TreeOf(u, t, p, c, open) ==
  /\ \A n \in 2 .. u : p[n] # 0 \/ n \in open
  /\ \A n \in 1 .. u : p[n] # 0 =>
       /\ p[n] < n /\ t[n] = Holds(t[p[n]])
       /\ \E k \in DOMAIN c[p[n]] : c[p[n]][k] = n
  /\ \A n \in 1 .. u : \A k \in DOMAIN c[n] :
       /\ c[n][k] \in 2 .. u /\ p[c[n][k]] = n
       /\ \A j \in DOMAIN c[n] : j < k => c[n][j] < c[n][k]

Inv == TypeOK /\ Cursor /\ Frames /\ AstIsTree
-----------------------------------------------------------------------------
(* Two ways to change a pool and keep a tree: a node more, under           *)
(* construction, and a node that gets its parent.                          *)

LEMMA TreeAlloc ==
  ASSUME NEW m \in Nat, NEW u \in 0 .. m, u < m, NEW t, NEW p, NEW c, NEW open, NEW k,
         DOMAIN t = 1 .. m, \A n \in 1 .. m : p[n] \in 0 .. m, p[u + 1] = 0, c[u + 1] = <<>>, TreeOf(u, t, p, c, open)
  PROVE  TreeOf(u + 1, [t EXCEPT ![u + 1] = k], p, c, open \cup {u + 1})
<1> DEFINE t1 == [t EXCEPT ![u + 1] = k]
<1>1. \A n \in 1 .. u : t1[n] = t[n]
  OBVIOUS
<1>2. \A n \in 2 .. u + 1 : p[n] # 0 \/ n \in open \cup {u + 1}
  BY DEF TreeOf
<1>3. ASSUME NEW n \in 1 .. u + 1, p[n] # 0
      PROVE  /\ p[n] < n /\ t1[n] = Holds(t1[p[n]])
             /\ \E j \in DOMAIN c[p[n]] : c[p[n]][j] = n
  <2>1. n \in 1 .. u
    BY <1>3
  <2>2. p[n] < n /\ t[n] = Holds(t[p[n]]) /\ \E j \in DOMAIN c[p[n]] : c[p[n]][j] = n
    BY <2>1, <1>3 DEF TreeOf
  <2>3. p[n] \in 1 .. u
    BY <2>1, <2>2, <1>3
  <2> QED BY <2>1, <2>2, <2>3, <1>1
<1>4. ASSUME NEW n \in 1 .. u + 1, NEW j \in DOMAIN c[n]
      PROVE  /\ c[n][j] \in 2 .. u + 1 /\ p[c[n][j]] = n
             /\ \A i \in DOMAIN c[n] : i < j => c[n][i] < c[n][j]
  <2>1. n \in 1 .. u
    BY <1>4
  <2> QED BY <2>1, <1>4 DEF TreeOf
<1> QED BY <1>2, <1>3, <1>4 DEF TreeOf

(* p1 and c1 are p and c with child linked under node, as its l + 1st.     *)
Relinks(m, u, t, p, c, p1, c1, node, child, l) ==
  /\ l \in Nat /\ node \in 1 .. u /\ child \in 2 .. u
  /\ \A n \in 1 .. u : p[n] \in 0 .. m
  /\ node < child /\ p[child] = 0 /\ t[child] = Holds(t[node])
  /\ p1[child] = node /\ \A n \in 1 .. m : n # child => p1[n] = p[n]
  /\ DOMAIN c[node] = 1 .. l /\ DOMAIN c1[node] = 1 .. l + 1 /\ c1[node][l + 1] = child
  /\ \A k \in 1 .. l : c1[node][k] = c[node][k] /\ c[node][k] < child
  /\ \A n \in 1 .. m : n # node => c1[n] = c[n]

LEMMA TreeLinked ==
  ASSUME NEW m \in Nat, NEW u \in 0 .. m, NEW t, NEW open, NEW p, NEW c, NEW p1, NEW c1,
         NEW node, NEW child, NEW l,
         Relinks(m, u, t, p, c, p1, c1, node, child, l), TreeOf(u, t, p, c, open)
  PROVE  TreeOf(u, t, p1, c1, open \ {child})
<1> USE DEF Relinks
<1>0. \A x \in 1 .. u : x \in 1 .. m /\ x # 0
  OBVIOUS
<1>1. \A n \in 2 .. u : p1[n] # 0 \/ n \in open \ {child}
  <2>1. \A n \in 2 .. u : p[n] # 0 \/ n \in open
    BY DEF TreeOf
  <2>2. \A n \in 2 .. u : n \in 1 .. m
    OBVIOUS
  <2> QED BY <2>1, <2>2, <1>0
<1>2. ASSUME NEW n \in 1 .. u, p1[n] # 0
      PROVE  /\ p1[n] < n /\ t[n] = Holds(t[p1[n]])
             /\ \E j \in DOMAIN c1[p1[n]] : c1[p1[n]][j] = n
  <2>1. CASE n = child
    <3>1. l + 1 \in DOMAIN c1[node]
      OBVIOUS
    <3> QED BY <2>1, <3>1
  <2>2. CASE n # child
    <3>1. p1[n] = p[n] /\ p[n] # 0
      BY <2>2, <1>0, <1>2
    <3>2. p[n] < n /\ t[n] = Holds(t[p[n]]) /\ \E j \in DOMAIN c[p[n]] : c[p[n]][j] = n
      BY <3>1 DEF TreeOf
    <3>3. PICK j \in DOMAIN c[p[n]] : c[p[n]][j] = n
      BY <3>2
    <3>4. CASE p[n] = node
      <4>1. j \in 1 .. l /\ j \in 1 .. l + 1
        BY <3>3, <3>4
      <4> QED BY <4>1, <3>1, <3>2, <3>3, <3>4
    <3>5. CASE p[n] # node
      <4>1. p[n] \in 1 .. m => c1[p[n]] = c[p[n]]
        BY <3>5
      <4>2. p[n] \in 1 .. m
        BY <3>1
      <4> QED BY <4>1, <4>2, <3>1, <3>2, <3>3
    <3> QED BY <3>4, <3>5
  <2> QED BY <2>1, <2>2
<1>3. ASSUME NEW n \in 1 .. u, NEW j \in DOMAIN c1[n]
      PROVE  /\ c1[n][j] \in 2 .. u /\ p1[c1[n][j]] = n
             /\ \A i \in DOMAIN c1[n] : i < j => c1[n][i] < c1[n][j]
  <2>1. \A k \in DOMAIN c[n] : c[n][k] \in 2 .. u /\ p[c[n][k]] = n
    BY DEF TreeOf
  <2>2. \A k, i \in DOMAIN c[n] : i < k => c[n][i] < c[n][k]
    BY DEF TreeOf
  <2>3. ASSUME NEW k \in DOMAIN c[n]
        PROVE  p1[c[n][k]] = n
    <3>1. c[n][k] # child
      BY <2>1, <1>0
    <3>2. \A x \in 2 .. u : x \in 1 .. m
      OBVIOUS
    <3> QED BY <3>1, <3>2, <2>1
  <2>4. CASE n # node
    <3>1. c1[n] = c[n]
      BY <2>4, <1>0
    <3> QED BY <3>1, <2>1, <2>2, <2>3
  <2>5. CASE n = node
    <3>1. \A i \in 1 .. l + 1 : i \in 1 .. l \/ i = l + 1
      OBVIOUS
    <3>2. j \in 1 .. l + 1
      BY <2>5
    <3>3. CASE j \in 1 .. l
      <4>1. c1[n][j] = c[n][j] /\ j \in DOMAIN c[n]
        BY <2>5, <3>3
      <4>2. ASSUME NEW i \in DOMAIN c1[n], i < j
            PROVE  c1[n][i] < c1[n][j]
        <5>1. i \in 1 .. l
          BY <2>5, <3>3, <4>2
        <5> QED BY <5>1, <4>1, <4>2, <2>2, <2>5
      <4> QED BY <4>1, <4>2, <2>1, <2>3
    <3>4. CASE j = l + 1
      <4>1. c1[n][j] = child
        BY <2>5, <3>4
      <4>2. ASSUME NEW i \in DOMAIN c1[n], i < j
            PROVE  c1[n][i] < c1[n][j]
        <5>1. i \in 1 .. l
          BY <2>5, <3>4, <4>2
        <5> QED BY <5>1, <4>1, <2>5
      <4> QED BY <4>1, <4>2, <2>5
    <3> QED BY <3>1, <3>2, <3>3, <3>4
  <2> QED BY <2>4, <2>5
<1> QED BY <1>1, <1>2, <1>3 DEF TreeOf

LEMMA TreeLink ==
  ASSUME NEW m \in Nat, NEW u \in 0 .. m, NEW t, NEW p, NEW c, NEW open,
         NEW node \in 1 .. u, NEW child \in 2 .. u, \A n \in 1 .. u : p[n] \in 0 .. m,
         DOMAIN p = 1 .. m, DOMAIN c = 1 .. m, c[node] \in Seq(1 .. m),
         node < child, p[child] = 0, t[child] = Holds(t[node]),
         \A k \in DOMAIN c[node] : c[node][k] < child, TreeOf(u, t, p, c, open)
  PROVE  TreeOf(u, t, [p EXCEPT ![child] = node], [c EXCEPT ![node] = Append(@, child)],
                open \ {child})
<1> DEFINE p1 == [p EXCEPT ![child] = node]
           c1 == [c EXCEPT ![node] = Append(@, child)]
           l == Len(c[node])
<1>0. \A x \in 1 .. u : x \in 1 .. m
  OBVIOUS
<1>1. p1[child] = node /\ \A n \in 1 .. m : n # child => p1[n] = p[n]
  OBVIOUS
<1>2. c1[node] = Append(c[node], child) /\ \A n \in 1 .. m : n # node => c1[n] = c[n]
  BY <1>0
<1>3. /\ DOMAIN c1[node] = 1 .. l + 1 /\ DOMAIN c[node] = 1 .. l /\ l \in Nat
      /\ c1[node][l + 1] = child
      /\ \A k \in 1 .. l : c1[node][k] = c[node][k]
  <2> HIDE DEF c1
  <2>1. DOMAIN c[node] = 1 .. l /\ l \in Nat
    OBVIOUS
  <2>2. \A s \in Seq(1 .. m) : \A x :
          /\ DOMAIN Append(s, x) = 1 .. Len(s) + 1 /\ Append(s, x)[Len(s) + 1] = x
          /\ \A k \in 1 .. Len(s) : Append(s, x)[k] = s[k]
    OBVIOUS
  <2> QED BY <1>2, <2>1, <2>2
<1> HIDE DEF p1, c1, l
<1>a. \A k \in 1 .. l : c[node][k] < child
  BY <1>3
<1>b. \A k \in 1 .. l : c1[node][k] = c[node][k] /\ c[node][k] < child
  BY <1>3, <1>a
<1>4. Relinks(m, u, t, p, c, p1, c1, node, child, l)
  BY <1>1, <1>2, <1>3, <1>b DEF Relinks
<1>5. TreeOf(u, t, p1, c1, open \ {child})
  BY <1>4, TreeLinked
<1> QED BY <1>5 DEF p1, c1
-----------------------------------------------------------------------------
(* The same for the parser's pool.                                         *)

NodeTypes == {"NONE", "PROGRAM", "FUNCTION", "BLOCK", "STATEMENT", "EXPRESSION"}

PoolType ==
  /\ maxNodes \in Nat \ {0} /\ used \in 0 .. maxNodes
  /\ type \in [Nodes -> NodeTypes]
  /\ parent \in [Nodes -> 0 .. maxNodes] /\ children \in [Nodes -> Seq(Nodes)]
  /\ fun \in 0 .. maxNodes /\ block \in 0 .. maxNodes /\ stmt \in 0 .. maxNodes

Tree(open) == TreeOf(used, type, parent, children, open)

LEMMA AllocateKeeps ==
  ASSUME PoolType, Blank, NEW open, Tree(open), NEW t \in NodeTypes, Allocate(t),
         UNCHANGED <<maxNodes, links>>
  PROVE  /\ used' = used + 1 /\ used' \in 1 .. maxNodes
         /\ type' \in [Nodes -> NodeTypes] /\ type'[used + 1] = t
         /\ \A n \in 1 .. used : type'[n] = type[n]
         /\ Blank' /\ parent[used + 1] = 0 /\ children[used + 1] = <<>>
         /\ TreeOf(used', type', parent', children', open \cup {used + 1})
<1>1. /\ used' = used + 1 /\ used + 1 \in 1 .. maxNodes /\ used < maxNodes
      /\ type' = [type EXCEPT ![used + 1] = t]
      /\ parent' = parent /\ children' = children /\ maxNodes' = maxNodes
  BY DEF Allocate, Room, PoolType, links
<1>2. type' \in [Nodes -> NodeTypes] /\ type'[used + 1] = t /\ \A n \in 1 .. used : type'[n] = type[n]
  BY <1>1 DEF PoolType, Nodes
<1>3. parent[used + 1] = 0 /\ children[used + 1] = <<>>
  BY <1>1 DEF Blank, Nodes, PoolType
<1>4. Blank'
  <2>1. \A n \in Nodes : n > used + 1 => n > used
    BY DEF Nodes, PoolType
  <2>2. \A n \in Nodes : n > used + 1 => parent[n] = 0 /\ children[n] = <<>>
    BY <2>1 DEF Blank
  <2>3. Nodes' = Nodes
    BY <1>1 DEF Nodes
  <2> QED BY <1>1, <2>2, <2>3 DEF Blank
<1>5. /\ DOMAIN type = 1 .. maxNodes /\ \A n \in 1 .. maxNodes : parent[n] \in 0 .. maxNodes
      /\ maxNodes \in Nat /\ used \in 0 .. maxNodes
  BY DEF PoolType, Nodes
<1>6. TreeOf(used + 1, [type EXCEPT ![used + 1] = t], parent, children, open \cup {used + 1})
  BY <1>1, <1>3, <1>5, TreeAlloc DEF Tree
<1> QED BY <1>1, <1>2, <1>3, <1>4, <1>6

LEMMA LinkKeeps ==
  ASSUME PoolType, NEW open, Tree(open), NEW node \in 1 .. used, NEW child \in 2 .. used,
         node < child, parent[child] = 0, \A k \in DOMAIN children[node] : children[node][k] < child,
         type[child] = Holds(type[node]),
         Link(node, child), UNCHANGED <<maxNodes, used, type>>
  PROVE  /\ parent' \in [Nodes -> 0 .. maxNodes] /\ children' \in [Nodes -> Seq(Nodes)]
         /\ \A n \in Nodes : n # child => parent'[n] = parent[n]
         /\ \A n \in Nodes : n # node => children'[n] = children[n]
         /\ TreeOf(used', type', parent', children', open \ {child})
<1>1. /\ parent' = [parent EXCEPT ![child] = node]
      /\ children' = [children EXCEPT ![node] = Append(@, child)]
      /\ maxNodes' = maxNodes /\ used' = used /\ type' = type
  BY DEF Link
<1>2. node \in Nodes /\ child \in Nodes /\ node \in 0 .. maxNodes
  BY DEF PoolType, Nodes
<1>3. /\ parent' \in [Nodes -> 0 .. maxNodes]
      /\ \A n \in Nodes : n # child => parent'[n] = parent[n]
  BY <1>1, <1>2 DEF PoolType
<1>4. /\ children[node] \in Seq(Nodes) /\ Append(children[node], child) \in Seq(Nodes)
  BY <1>2 DEF PoolType
<1>5. /\ children' \in [Nodes -> Seq(Nodes)]
      /\ children'[node] = Append(children[node], child)
      /\ \A n \in Nodes : n # node => children'[n] = children[n]
  BY <1>1, <1>2, <1>4 DEF PoolType
<1>7. /\ DOMAIN parent = 1 .. maxNodes /\ DOMAIN children = 1 .. maxNodes
      /\ children[node] \in Seq(1 .. maxNodes) /\ maxNodes \in Nat /\ used \in 0 .. maxNodes
      /\ \A n \in 1 .. used : parent[n] \in 0 .. maxNodes
  BY <1>2 DEF PoolType, Nodes
<1>8. TreeOf(used, type, [parent EXCEPT ![child] = node],
             [children EXCEPT ![node] = Append(@, child)], open \ {child})
  BY <1>7, TreeLink DEF Tree
<1> QED BY <1>1, <1>3, <1>5, <1>8

LEMMA TreeOpen ==
  ASSUME NEW u, NEW t, NEW p, NEW c, NEW open, NEW wider, TreeOf(u, t, p, c, open),
         \A n \in 2 .. u : n \in open => n \in wider
  PROVE  TreeOf(u, t, p, c, wider)
<1>1. \A n \in 2 .. u : p[n] # 0 \/ n \in wider
  BY DEF TreeOf
<1> QED BY <1>1 DEF TreeOf
-----------------------------------------------------------------------------
(* The invariant, taken apart and put together.                            *)

CursorType ==
  /\ TokenizerTypeOK
  /\ index \in 0 .. Capacity /\ current \in 0 .. Capacity
  /\ Parsing => index <= Len(tokens) /\ current <= Len(tokens)

LEMMA Apart ==
  ASSUME Inv
  PROVE  /\ PoolType /\ CursorType /\ Blank /\ Cursor /\ Frames
         /\ maxNodes \in NodeLimits /\ pc \in Pcs
         /\ pc # "overrun" => Tree({fun, block, stmt})
<1>1. maxNodes \in Nat \ {0}
  BY ParserConstantsOK DEF Inv, TypeOK
<1>2. PoolType
  BY <1>1 DEF Inv, TypeOK, PoolType, NodeTypes
<1>3. CursorType
  BY DEF Inv, TypeOK, CursorType, Parsing
<1>4. pc # "overrun" => Tree({fun, block, stmt})
  BY DEF Inv, AstIsTree, Tree, TreeOf
<1> QED BY <1>2, <1>3, <1>4 DEF Inv, Frames, TypeOK

LEMMA Together ==
  ASSUME PoolType', CursorType', Cursor', Frames', (maxNodes \in NodeLimits)', (pc \in Pcs)',
         (pc # "overrun" => Tree({fun, block, stmt}))'
  PROVE  Inv'
<1>1. TypeOK'
  BY DEF TypeOK, PoolType, NodeTypes, CursorType, Parsing
<1>2. AstIsTree'
  BY DEF AstIsTree, Tree, TreeOf
<1> QED BY <1>1, <1>2 DEF Inv

(* The cursor stays at a token, whatever it does.                          *)
LEMMA CursorKeeps ==
  ASSUME CursorType, Cursor, Parsing, UNCHANGED tokenizer, Advance \/ UNCHANGED cursor
  PROVE  CursorType' /\ Cursor'
<1>1. /\ buffer' = buffer /\ position' = position /\ status' = status
      /\ patterns' = patterns /\ tokens' = tokens /\ inputs' = inputs
  BY DEF tokenizer
<1>2. TokenizerTypeOK' /\ ~Scanning'
  BY <1>1 DEF CursorType, TokenizerTypeOK, Cursor, Scanning
<1>3. Len(tokens) \in Nat /\ Len(tokens) <= Capacity /\ (tokens = <<>> => Len(tokens) = 0)
  BY DEF CursorType, TokenizerTypeOK
<1>4. CASE UNCHANGED cursor
  BY <1>1, <1>2, <1>4 DEF CursorType, Cursor, cursor
<1>5. CASE Advance
  <2>1. index < Len(tokens) /\ index' = index + 1 /\ current' = index + 1
    BY <1>5 DEF Advance, CanAdvance
  <2>2. index \in Nat /\ Capacity \in Nat
    BY TokenizerConstantsOK DEF CursorType
  <2>3. index' \in 0 .. Capacity /\ current' \in 0 .. Capacity
    BY <1>3, <2>1, <2>2
  <2>4. index' <= Len(tokens) /\ current' <= Len(tokens) /\ tokens # <<>> /\ index' # 0 /\ current' = index'
    BY <1>3, <2>1, <2>2
  <2> QED BY <1>1, <1>2, <2>3, <2>4 DEF CursorType, Cursor
<1> QED BY <1>4, <1>5
-----------------------------------------------------------------------------
(* The descent, one step at a time.                                        *)

Pooled == <<maxNodes, tree, frames>>

LEMMA PoolSame ==
  ASSUME UNCHANGED Pooled
  PROVE  /\ maxNodes' = maxNodes /\ used' = used /\ type' = type
         /\ parent' = parent /\ children' = children
         /\ fun' = fun /\ block' = block /\ stmt' = stmt
BY DEF Pooled, tree, links, frames

(* Steps that leave the pool alone.                                        *)
LEMMA Moves ==
  ASSUME Inv, UNCHANGED tokenizer, Advance \/ UNCHANGED cursor, UNCHANGED Pooled,
         \/ pc \in {"function", "parameters", "body"}
            /\ pc' \in {"parameters", "body", "function done"}
         \/ pc = "statement" /\ pc' = "statement done"
         \/ pc = "program" /\ pc' \in {"program", "flat"}
  PROVE  Inv'
<1>1. /\ PoolType /\ CursorType /\ Blank /\ Cursor /\ Frames
      /\ maxNodes \in NodeLimits /\ pc \in Pcs
      /\ pc # "overrun" => Tree({fun, block, stmt})
  BY Apart
<1>2. /\ maxNodes' = maxNodes /\ used' = used /\ type' = type
      /\ parent' = parent /\ children' = children
      /\ fun' = fun /\ block' = block /\ stmt' = stmt
  BY PoolSame
<1>3. Parsing /\ Parsing' /\ pc # "overrun" /\ pc' # "overrun" /\ pc' \in Pcs
  BY DEF Parsing, Pcs
<1>4. CursorType' /\ Cursor'
  BY <1>1, <1>3, CursorKeeps
<1>5. PoolType' /\ Blank' /\ Tree({fun, block, stmt})'
  BY <1>1, <1>2, <1>3 DEF PoolType, Blank, Nodes, Tree, TreeOf
<1>6. Frames'
  <2>1. Building(1, fun)' = Building(1, fun) /\ Building(fun, block)' = Building(fun, block)
        /\ Building(block, stmt)' = Building(block, stmt)
    BY <1>2 DEF Building
  <2>2. Parsing' => used' \in 1 .. maxNodes' /\ type'[1] = "PROGRAM" /\ parent'[1] = 0
    BY <1>1, <1>2, <1>3 DEF Frames
  <2> HIDE DEF Building
  <2> QED BY <1>1, <1>2, <1>3, <1>5, <2>1, <2>2 DEF Frames, InFunction, InBlock, InStatement, Parsing
<1> QED BY <1>1, <1>2, <1>3, <1>4, <1>5, <1>6, Together

(* Steps that take a node more: a function, a block, a statement.          *)
LEMMA Begins ==
  ASSUME Inv, UNCHANGED tokenizer, Advance \/ UNCHANGED cursor, UNCHANGED <<maxNodes, links>>,
         \/ /\ pc = "program" /\ pc' = "function"
            /\ Allocate("FUNCTION") /\ fun' = used + 1 /\ UNCHANGED <<block, stmt>>
         \/ /\ pc = "body" /\ pc' = "block"
            /\ Allocate("BLOCK") /\ block' = used + 1 /\ UNCHANGED <<fun, stmt>>
         \/ /\ pc = "block" /\ pc' = "statement"
            /\ Allocate("STATEMENT") /\ stmt' = used + 1 /\ UNCHANGED <<fun, block>>
  PROVE  Inv'
<1> DEFINE open == {fun, block, stmt}
<1>1. /\ PoolType /\ CursorType /\ Blank /\ Cursor /\ Frames
      /\ maxNodes \in NodeLimits /\ pc \in Pcs
      /\ pc # "overrun" => Tree(open)
  BY Apart
<1>2. maxNodes' = maxNodes /\ parent' = parent /\ children' = children
  BY DEF links
<1>3. Parsing /\ Parsing' /\ pc # "overrun" /\ pc' # "overrun" /\ pc' \in Pcs
  BY DEF Parsing, Pcs
<1>4. CursorType' /\ Cursor'
  BY <1>1, <1>3, CursorKeeps
<1>5. PICK t \in NodeTypes :
        /\ Allocate(t)
        /\ pc = "program" => t = "FUNCTION"
        /\ pc = "body" => t = "BLOCK"
        /\ pc = "block" => t = "STATEMENT"
  BY DEF NodeTypes
<1>6. /\ used' = used + 1 /\ used' \in 1 .. maxNodes
      /\ type' \in [Nodes -> NodeTypes] /\ type'[used + 1] = t
      /\ \A n \in 1 .. used : type'[n] = type[n]
      /\ Blank' /\ parent[used + 1] = 0 /\ children[used + 1] = <<>>
      /\ TreeOf(used', type', parent', children', open \cup {used + 1})
  <2> HIDE DEF open
  <2> QED BY <1>1, <1>2, <1>3, <1>5, AllocateKeeps
<1>7. PoolType'
  <2>1. fun' \in 0 .. maxNodes /\ block' \in 0 .. maxNodes /\ stmt' \in 0 .. maxNodes
    BY <1>1, <1>6 DEF PoolType
  <2>2. Nodes' = Nodes
    BY <1>2 DEF Nodes
  <2> QED BY <1>1, <1>2, <1>6, <2>1, <2>2 DEF PoolType
<1>8. used \in 1 .. maxNodes /\ type[1] = "PROGRAM" /\ parent[1] = 0 /\ used \in Nat
  <2>1. used \in 1 .. maxNodes /\ type[1] = "PROGRAM" /\ parent[1] = 0
    BY <1>1, <1>3 DEF Frames
  <2> QED BY <1>1, <2>1 DEF PoolType
<1>9. type'[1] = "PROGRAM"
  BY <1>6, <1>8
<1>10. ASSUME NEW n \in 1 .. used, NEW k \in DOMAIN children[n]
       PROVE  children[n][k] < used + 1
  BY <1>1, <1>3, <1>8 DEF Tree, TreeOf
<1>11. CASE pc = "program"
  <2>1. fun' = used + 1 /\ block' = block /\ stmt' = stmt /\ pc' = "function"
        /\ fun = 0 /\ block = 0 /\ stmt = 0
    BY <1>1, <1>11 DEF Frames, InFunction, InBlock, InStatement
  <2>2. Building(1, fun)'
    BY <1>2, <1>6, <1>8, <1>10, <2>1 DEF Building
  <2>3. Frames'
    BY <1>2, <1>3, <1>5, <1>6, <1>8, <1>9, <1>11, <2>1, <2>2
       DEF Frames, InFunction, InBlock, InStatement
  <2>4. Tree({fun, block, stmt})'
    BY <1>6, <2>1, TreeOpen DEF Tree
  <2> QED BY <1>1, <1>2, <1>3, <1>4, <1>7, <2>3, <2>4, Together
<1>12. CASE pc = "body"
  <2>1. fun' = fun /\ block' = used + 1 /\ stmt' = stmt /\ pc' = "block" /\ stmt = 0 /\ block = 0
    BY <1>1, <1>12 DEF Frames, InFunction, InBlock, InStatement
  <2>2. Building(1, fun) /\ type[fun] = "FUNCTION" /\ children[fun] = <<>> /\ fun \in 1 .. used
        /\ fun < used + 1
    BY <1>1, <1>8, <1>12 DEF Frames, InFunction, Building
  <2>3. Building(1, fun)' /\ type'[fun] = "FUNCTION"
    BY <1>2, <1>6, <1>8, <2>1, <2>2 DEF Building
  <2>4. Building(fun, block)'
    BY <1>2, <1>6, <1>8, <1>10, <2>1, <2>2 DEF Building
  <2>5. Frames'
    BY <1>2, <1>3, <1>5, <1>6, <1>8, <1>9, <1>12, <2>1, <2>2, <2>3, <2>4
       DEF Frames, InFunction, InBlock, InStatement
  <2>6. Tree({fun, block, stmt})'
    BY <1>6, <2>1, TreeOpen DEF Tree
  <2> QED BY <1>1, <1>2, <1>3, <1>4, <1>7, <2>5, <2>6, Together
<1>13. CASE pc = "block"
  <2>1. fun' = fun /\ block' = block /\ stmt' = used + 1 /\ pc' = "statement" /\ stmt = 0
    BY <1>1, <1>13 DEF Frames, InFunction, InBlock, InStatement
  <2>2. /\ Building(1, fun) /\ type[fun] = "FUNCTION" /\ fun \in 1 .. used
        /\ Building(fun, block) /\ type[block] = "BLOCK" /\ block \in 1 .. used
        /\ children[fun] = <<>> /\ block < used + 1
    BY <1>1, <1>8, <1>13 DEF Frames, InFunction, InBlock, Building
  <2>3. Building(1, fun)' /\ type'[fun] = "FUNCTION"
    BY <1>2, <1>6, <1>8, <2>1, <2>2 DEF Building
  <2>4. Building(fun, block)' /\ type'[block] = "BLOCK"
    BY <1>2, <1>6, <1>8, <2>1, <2>2 DEF Building
  <2>5. Building(block, stmt)'
    BY <1>2, <1>6, <1>8, <1>10, <2>1, <2>2 DEF Building
  <2>6. Frames'
    BY <1>2, <1>3, <1>5, <1>6, <1>8, <1>9, <1>13, <2>1, <2>2, <2>3, <2>4, <2>5
       DEF Frames, InFunction, InBlock, InStatement
  <2>7. Tree({fun, block, stmt})'
    BY <1>6, <2>1, TreeOpen DEF Tree
  <2> QED BY <1>1, <1>2, <1>3, <1>4, <1>7, <2>6, <2>7, Together
<1> QED BY <1>11, <1>12, <1>13

(* Steps that give a node its parent.                                      *)
Attach(node, child) ==
  /\ Link(node, child)
  /\ \/ /\ pc = "statement done" /\ pc' = "block" /\ node = block /\ child = stmt
        /\ stmt' = 0 /\ UNCHANGED <<fun, block>>
     \/ /\ pc = "block" /\ pc' = "function done" /\ node = fun /\ child = block
        /\ block' = 0 /\ UNCHANGED <<fun, stmt>>
     \/ /\ pc = "function done" /\ pc' = "program" /\ node = 1 /\ child = fun
        /\ fun' = 0 /\ UNCHANGED <<block, stmt>>

LEMMA HoldsWhat ==
  /\ Holds("PROGRAM") = "FUNCTION" /\ Holds("FUNCTION") = "BLOCK"
  /\ Holds("BLOCK") = "STATEMENT" /\ Holds("STATEMENT") = "EXPRESSION"
BY DEF Holds

LEMMA Links ==
  ASSUME Inv, UNCHANGED tokenizer, Advance \/ UNCHANGED cursor, UNCHANGED <<maxNodes, used, type>>,
         NEW node, NEW child, Attach(node, child)
  PROVE  Inv'
<1> DEFINE open == {fun, block, stmt}
<1>1. /\ PoolType /\ CursorType /\ Blank /\ Cursor /\ Frames
      /\ maxNodes \in NodeLimits /\ pc \in Pcs
      /\ pc # "overrun" => Tree(open)
  BY Apart
<1>2. maxNodes' = maxNodes /\ used' = used /\ type' = type
  OBVIOUS
<1>3. Parsing /\ Parsing' /\ pc # "overrun" /\ pc' # "overrun" /\ pc' \in Pcs
      /\ pc \in InFunction
  BY DEF Parsing, Pcs, Attach, InFunction
<1>4. CursorType' /\ Cursor'
  BY <1>1, <1>3, CursorKeeps
<1>5. used \in 1 .. maxNodes /\ type[1] = "PROGRAM" /\ parent[1] = 0
  BY <1>1, <1>3 DEF Frames
<1>6. used \in Nat /\ maxNodes \in Nat
  BY <1>1, <1>5 DEF PoolType
<1>7. Building(1, fun) /\ type[fun] = "FUNCTION" /\ fun \in 2 .. used
  BY <1>1, <1>3 DEF Frames, Building
<1>8. pc \in InBlock => /\ Building(fun, block) /\ type[block] = "BLOCK" /\ block \in 2 .. used
                        /\ fun < block /\ children[fun] = <<>>
  <2>1. pc \in InBlock => pc # "function done"
    BY DEF InBlock
  <2> QED BY <1>1, <1>3, <2>1 DEF Frames, Building
<1>9. pc \in InStatement => /\ Building(block, stmt) /\ type[stmt] = "STATEMENT" /\ stmt \in 2 .. used
                            /\ block < stmt
  BY <1>1 DEF Frames, Building
<1>a. /\ pc = "statement done" =>
           /\ node = block /\ child = stmt /\ pc' = "block"
           /\ fun' = fun /\ block' = block /\ stmt' = 0
      /\ pc = "block" =>
           /\ node = fun /\ child = block /\ pc' = "function done"
           /\ fun' = fun /\ block' = 0 /\ stmt' = stmt
      /\ pc = "function done" =>
           /\ node = 1 /\ child = fun /\ pc' = "program"
           /\ fun' = 0 /\ block' = block /\ stmt' = stmt
      /\ pc \in {"statement done", "block", "function done"}
  BY DEF Attach
<1>b. 1 < fun /\ (pc \in InBlock => fun < block) /\ (pc \in InStatement => block < stmt)
  BY <1>7, <1>8, <1>9 DEF Building
<1>c. pc = "statement done" => pc \in InBlock /\ pc \in InStatement
  BY DEF InBlock, InStatement
<1>d. pc = "block" => pc \in InBlock
  BY DEF InBlock
<1>e. 1 \in 1 .. used /\ \A n \in 2 .. used : n \in 1 .. used
  BY <1>5, <1>6
<1>f. /\ 1 # fun /\ (pc \in InBlock => fun # block /\ 1 # block)
      /\ pc \in InBlock /\ pc \in InStatement => block # stmt /\ fun # stmt
  <2>1. fun \in Nat /\ (pc \in InBlock => block \in Nat) /\ (pc \in InStatement => stmt \in Nat)
    BY <1>6, <1>7, <1>8, <1>9
  <2> QED BY <1>b, <2>1
<1>10. Building(node, child) /\ node \in 1 .. used /\ child \in 2 .. used
       /\ type[child] = Holds(type[node])
  BY <1>5, <1>7, <1>8, <1>9, <1>a, <1>c, <1>d, <1>e, HoldsWhat
<1>11. /\ node < child /\ parent[child] = 0
       /\ \A k \in DOMAIN children[node] : children[node][k] < child
  BY <1>10 DEF Building
<1>12. /\ parent' \in [Nodes -> 0 .. maxNodes] /\ children' \in [Nodes -> Seq(Nodes)]
       /\ \A n \in Nodes : n # child => parent'[n] = parent[n]
       /\ \A n \in Nodes : n # node => children'[n] = children[n]
       /\ TreeOf(used', type', parent', children', open \ {child})
  <2> HIDE DEF open
  <2> QED BY <1>1, <1>2, <1>3, <1>10, <1>11, LinkKeeps DEF Attach
<1>13. Nodes' = Nodes /\ Nodes = 1 .. maxNodes
  BY <1>2 DEF Nodes
<1>14. PoolType'
  <2>1. fun' \in 0 .. maxNodes /\ block' \in 0 .. maxNodes /\ stmt' \in 0 .. maxNodes
    <3>1. 0 \in 0 .. maxNodes
      BY <1>6
    <3> QED BY <1>1, <1>a, <3>1 DEF PoolType
  <2> QED BY <1>1, <1>2, <1>12, <1>13, <2>1 DEF PoolType
<1>15. Blank'
  <2>1. \A n \in Nodes : n > used => n # child /\ n # node
    BY <1>6, <1>10, <1>13
  <2> QED BY <1>1, <1>2, <1>12, <1>13, <2>1 DEF Blank
<1>16. parent'[1] = 0
  BY <1>5, <1>6, <1>10, <1>12, <1>13
<1>17. \A n \in 1 .. used : n \in Nodes
  BY <1>5, <1>6, <1>13
<1>18. CASE pc = "statement done"
  <2>1. /\ fun' = fun /\ block' = block /\ stmt' = 0 /\ pc' = "block"
        /\ node = block /\ child = stmt /\ fun # stmt /\ block # stmt /\ 1 # block /\ fun # block
    BY <1>18, <1>a, <1>c, <1>f
  <2>2. /\ parent'[fun] = parent[fun] /\ parent'[block] = parent[block]
        /\ children'[1] = children[1] /\ children'[fun] = children[fun]
    <3>1. fun \in Nodes /\ block \in Nodes /\ 1 \in Nodes
      BY <1>7, <1>8, <1>17, <1>18, <1>c, <1>e
    <3> QED BY <1>12, <2>1, <3>1
  <2>3. Building(1, fun)' /\ Building(fun, block)'
    BY <1>2, <1>7, <1>8, <1>18, <2>1, <2>2 DEF Building, InBlock
  <2>4. Frames'
    BY <1>2, <1>3, <1>5, <1>7, <1>8, <1>15, <1>16, <1>18, <2>1, <2>2, <2>3
       DEF Frames, InFunction, InBlock, InStatement
  <2>5. Tree({fun, block, stmt})'
    BY <1>12, <2>1, TreeOpen DEF Tree
  <2> QED BY <1>1, <1>2, <1>3, <1>4, <1>14, <2>4, <2>5, Together
<1>19. CASE pc = "block"
  <2>1. /\ fun' = fun /\ block' = 0 /\ stmt' = 0 /\ pc' = "function done"
        /\ node = fun /\ child = block /\ fun # block /\ 1 # fun /\ stmt = 0
    <3>1. stmt = 0
      BY <1>1, <1>19 DEF Frames, InBlock, InStatement
    <3> QED BY <1>19, <1>a, <1>d, <1>f, <3>1
  <2>2. parent'[fun] = parent[fun] /\ children'[1] = children[1]
    <3>1. fun \in Nodes /\ 1 \in Nodes
      BY <1>7, <1>17, <1>e
    <3> QED BY <1>12, <2>1, <3>1
  <2>3. Building(1, fun)'
    BY <1>2, <1>7, <1>19, <2>1, <2>2 DEF Building
  <2>4. Frames'
    BY <1>2, <1>3, <1>5, <1>7, <1>15, <1>16, <1>19, <2>1, <2>3
       DEF Frames, InFunction, InBlock, InStatement
  <2>5. Tree({fun, block, stmt})'
    BY <1>12, <2>1, TreeOpen DEF Tree
  <2> QED BY <1>1, <1>2, <1>3, <1>4, <1>14, <2>4, <2>5, Together
<1>20. CASE pc = "function done"
  <2>1. /\ fun' = 0 /\ block' = 0 /\ stmt' = 0 /\ pc' = "program" /\ block = 0 /\ stmt = 0
        /\ child = fun
    BY <1>1, <1>20 DEF Frames, InBlock, InStatement, Attach
  <2>2. Frames'
    BY <1>2, <1>3, <1>5, <1>15, <1>16, <2>1
       DEF Frames, InFunction, InBlock, InStatement
  <2>3. Tree({fun, block, stmt})'
    BY <1>12, <2>1, TreeOpen DEF Tree
  <2> QED BY <1>1, <1>2, <1>3, <1>4, <1>14, <2>2, <2>3, Together
<1> QED BY <1>18, <1>19, <1>20 DEF Attach

(* An expression is taken from the pool and linked in one step.            *)
Expresses ==
  /\ pc = "statement" /\ pc' = "statement done"
  /\ Allocate("EXPRESSION") /\ Link(stmt, used + 1)

LEMMA Expression ==
  ASSUME Inv, UNCHANGED tokenizer, Advance \/ UNCHANGED cursor, UNCHANGED <<maxNodes, frames>>,
         Expresses
  PROVE  Inv'
<1> DEFINE open == {fun, block, stmt}
<1>0. used' = used + 1 /\ Room
  BY DEF Expresses, Allocate
<1>a. pc = "statement"
  BY DEF Expresses
<1>b. pc' = "statement done"
  BY DEF Expresses
<1>1. /\ PoolType /\ CursorType /\ Blank /\ Cursor /\ Frames
      /\ maxNodes \in NodeLimits /\ pc \in Pcs
      /\ Tree(open)
  BY <1>a, Apart
<1>2. maxNodes' = maxNodes /\ fun' = fun /\ block' = block /\ stmt' = stmt
  BY DEF frames
<1>3. Parsing /\ Parsing' /\ pc' # "overrun" /\ pc' \in Pcs
  BY <1>a, <1>b DEF Parsing, Pcs
<1>4. CursorType' /\ Cursor'
  BY <1>1, <1>3, CursorKeeps
<1>5. used \in 1 .. maxNodes /\ type[1] = "PROGRAM" /\ parent[1] = 0
  BY <1>1, <1>3 DEF Frames
<1>6. maxNodes \in Nat /\ used \in Nat /\ used < maxNodes /\ used' \in Nat
  BY <1>0, <1>1, <1>5 DEF PoolType, Room
<1>7. /\ Building(1, fun) /\ type[fun] = "FUNCTION" /\ children[fun] = <<>>
      /\ Building(fun, block) /\ type[block] = "BLOCK"
      /\ Building(block, stmt) /\ type[stmt] = "STATEMENT" /\ children[stmt] = <<>>
  BY <1>a, <1>1 DEF Frames, InFunction, InBlock, InStatement
<1>8. /\ fun \in 2 .. used /\ block \in 2 .. used /\ stmt \in 2 .. used
      /\ 1 < fun /\ fun < block /\ block < stmt
  BY <1>7 DEF Building
<1>9. /\ fun \in Nat /\ block \in Nat /\ stmt \in Nat
      /\ 1 # stmt /\ fun # stmt /\ block # stmt /\ stmt < used'
      /\ fun # used' /\ block # used' /\ stmt # used' /\ 1 # used'
  BY <1>0, <1>6, <1>8
<1>10. /\ fun \in Nodes /\ block \in Nodes /\ stmt \in Nodes /\ 1 \in Nodes /\ used' \in Nodes
       /\ stmt \in 0 .. maxNodes
  BY <1>0, <1>5, <1>6, <1>8 DEF Nodes
<1>11. /\ type' = [type EXCEPT ![used'] = "EXPRESSION"]
       /\ parent' = [parent EXCEPT ![used'] = stmt]
       /\ children' = [children EXCEPT ![stmt] = Append(@, used')]
  BY <1>0 DEF Expresses, Allocate, Link
<1>12. /\ parent[used'] = 0 /\ children[used'] = <<>>
  BY <1>0, <1>1, <1>6, <1>10 DEF Blank
<1>13. /\ type' \in [Nodes -> NodeTypes] /\ type'[used'] = "EXPRESSION"
       /\ \A n \in Nodes : n # used' => type'[n] = type[n]
       /\ parent' \in [Nodes -> 0 .. maxNodes]
       /\ \A n \in Nodes : n # used' => parent'[n] = parent[n]
  BY <1>1, <1>10, <1>11 DEF PoolType, NodeTypes
<1>14. /\ Append(children[stmt], used') \in Seq(Nodes) /\ Len(Append(children[stmt], used')) = 1
  BY <1>7, <1>10
<1>15. /\ children' \in [Nodes -> Seq(Nodes)]
       /\ children'[stmt] = Append(children[stmt], used')
       /\ \A n \in Nodes : n # stmt => children'[n] = children[n]
  BY <1>1, <1>10, <1>11, <1>14 DEF PoolType
<1>17. Nodes' = Nodes
  BY <1>2 DEF Nodes
<1>18. PoolType'
  <2>1. used' \in 0 .. maxNodes
    BY <1>0, <1>6, <1>11
  <2> QED BY <1>1, <1>2, <1>13, <1>15, <1>17, <2>1 DEF PoolType
<1>19. Blank'
  <2>1. \A n \in Nodes : n > used' => n > used /\ n # used' /\ n # stmt
    BY <1>0, <1>6, <1>9 DEF Nodes
  <2> QED BY <1>1, <1>11, <1>13, <1>15, <1>17, <2>1 DEF Blank
<1>20. Tree({fun, block, stmt})'
  <2>1. /\ DOMAIN type = 1 .. maxNodes /\ \A n \in 1 .. maxNodes : parent[n] \in 0 .. maxNodes
        /\ used \in 0 .. maxNodes
    BY <1>1 DEF PoolType, Nodes
  <2>2. TreeOf(used', type', parent, children, open \cup {used'})
    <3> HIDE DEF open
    <3> QED BY <1>0, <1>1, <1>6, <1>11, <1>12, <2>1, TreeAlloc DEF Tree
  <2>3. /\ DOMAIN parent = 1 .. maxNodes /\ DOMAIN children = 1 .. maxNodes
        /\ children[stmt] \in Seq(1 .. maxNodes)
        /\ \A n \in 1 .. used' : parent[n] \in 0 .. maxNodes
    BY <1>0, <1>1, <1>6, <1>10, <2>1 DEF PoolType, Nodes
  <2>4. used' \in 0 .. maxNodes /\ stmt \in 1 .. used' /\ used' \in 2 .. used'
    BY <1>0, <1>5, <1>6, <1>8
  <2>5. type'[used'] = Holds(type'[stmt])
    BY <1>7, <1>9, <1>10, <1>13, HoldsWhat
  <2>6. \A k \in DOMAIN children[stmt] : children[stmt][k] < used'
    BY <1>7
  <2>7. TreeOf(used', type', [parent EXCEPT ![used'] = stmt],
               [children EXCEPT ![stmt] = Append(@, used')], (open \cup {used'}) \ {used'})
    <3> HIDE DEF open
    <3> QED BY <1>6, <1>9, <1>12, <2>2, <2>3, <2>4, <2>5, <2>6, TreeLink
  <2>8. TreeOf(used', type', parent', children', (open \cup {used'}) \ {used'})
    BY <1>11, <2>7
  <2> QED BY <1>2, <2>8, TreeOpen DEF Tree
<1>21. type'[1] = "PROGRAM" /\ parent'[1] = 0 /\ used' \in 1 .. maxNodes
  BY <1>0, <1>5, <1>6, <1>9, <1>10, <1>11, <1>13
<1>22. /\ Building(1, fun)' /\ Building(fun, block)' /\ Building(block, stmt)'
  <2>1. /\ parent'[fun] = 0 /\ parent'[block] = 0 /\ parent'[stmt] = 0
        /\ children'[1] = children[1] /\ children'[fun] = children[fun]
        /\ children'[block] = children[block]
    BY <1>7, <1>9, <1>10, <1>13, <1>15 DEF Building
  <2>2. fun \in 2 .. used' /\ block \in 2 .. used' /\ stmt \in 2 .. used'
    BY <1>0, <1>6, <1>8
  <2> QED BY <1>2, <1>7, <1>11, <2>1, <2>2 DEF Building
<1>23. Frames'
  <2>1. /\ type'[fun] = "FUNCTION" /\ type'[block] = "BLOCK" /\ type'[stmt] = "STATEMENT"
        /\ children'[fun] = <<>>
    BY <1>7, <1>9, <1>10, <1>13, <1>15
  <2> QED BY <1>b, <1>2, <1>3, <1>19, <1>21, <1>22, <2>1 DEF Frames, InFunction, InBlock, InStatement
<1> QED BY <1>1, <1>2, <1>3, <1>4, <1>18, <1>20, <1>23, Together

(* A child behind the end of the array.                                    *)
LEMMA Overruns ==
  ASSUME Inv, Parsing, UNCHANGED tokenizer, UNCHANGED cursor, UNCHANGED <<maxNodes, used, type>>,
         NEW node \in 1 .. used, NEW child \in 2 .. used, Link(node, child),
         pc' \in {"overrun"}, fun' \in {fun, 0}, block' = block, stmt' \in {stmt, 0}
  PROVE  Inv'
<1>1. /\ PoolType /\ CursorType /\ Blank /\ Cursor /\ Frames /\ maxNodes \in NodeLimits
  BY Apart
<1>2. /\ maxNodes' = maxNodes /\ used' = used /\ type' = type /\ Nodes' = Nodes
      /\ parent' = [parent EXCEPT ![child] = node]
      /\ children' = [children EXCEPT ![node] = Append(@, child)]
  BY DEF Link, Nodes
<1>3. CursorType' /\ Cursor'
  BY <1>1, CursorKeeps
<1>4. /\ node \in Nodes /\ child \in Nodes /\ node \in 0 .. maxNodes /\ child # 1
      /\ \A n \in Nodes : n > used => n # node /\ n # child
  <2>1. maxNodes \in Nat /\ used \in Nat /\ used <= maxNodes
    BY <1>1 DEF PoolType
  <2>2. /\ node \in 1 .. maxNodes /\ child \in 1 .. maxNodes /\ child # 1
        /\ node \in Nat /\ child \in Nat /\ node <= used /\ child <= used
    BY <2>1
  <2>3. node \in 0 .. maxNodes
    BY <2>1, <2>2
  <2>4. \A n \in 1 .. maxNodes : n > used => n # node /\ n # child
    BY <2>1, <2>2
  <2> QED BY <2>2, <2>3, <2>4 DEF Nodes
<1>5. /\ parent' \in [Nodes -> 0 .. maxNodes] /\ children' \in [Nodes -> Seq(Nodes)]
      /\ \A n \in Nodes : n # child => parent'[n] = parent[n]
      /\ \A n \in Nodes : n # node => children'[n] = children[n]
  <2>1. Append(children[node], child) \in Seq(Nodes)
    BY <1>1, <1>4 DEF PoolType
  <2> QED BY <1>1, <1>2, <1>4, <2>1 DEF PoolType
<1>6. PoolType'
  <2>1. fun' \in 0 .. maxNodes /\ stmt' \in 0 .. maxNodes /\ block' \in 0 .. maxNodes
    BY <1>1 DEF PoolType
  <2> QED BY <1>1, <1>2, <1>5, <2>1 DEF PoolType
<1>7. Blank'
  BY <1>1, <1>2, <1>4, <1>5 DEF Blank
<1>8. used' \in 1 .. maxNodes' /\ type'[1] = "PROGRAM" /\ parent'[1] = 0
  <2>1. used \in 1 .. maxNodes /\ type[1] = "PROGRAM" /\ parent[1] = 0
    BY <1>1 DEF Frames
  <2>2. 1 \in Nodes
    BY <1>1, <2>1 DEF PoolType, Nodes
  <2> QED BY <1>2, <1>4, <1>5, <2>1, <2>2
<1>9. Frames'
  BY <1>7, <1>8 DEF Frames, Parsing, InFunction, InBlock, InStatement
<1>10. pc' \in Pcs /\ pc' = "overrun"
  BY DEF Pcs
<1> QED BY <1>1, <1>2, <1>3, <1>6, <1>9, <1>10, Together

(* A loop that spins.                                                      *)
LEMMA Spins ==
  ASSUME Inv, Spin, UNCHANGED <<tokenizer, maxNodes>>
  PROVE  Inv'
<1>a. pc \in {"program", "parameters", "block"} /\ pc' \in {"spinning"} /\ UNCHANGED cursor
  BY DEF Spin, SpinsAt
<1>1. /\ PoolType /\ CursorType /\ Blank /\ Cursor /\ Frames /\ maxNodes \in NodeLimits
      /\ pc # "overrun" => Tree({fun, block, stmt})
  BY Apart
<1>2. /\ maxNodes' = maxNodes /\ used' = used /\ type' = type /\ Nodes' = Nodes
      /\ parent' = parent /\ children' = children
      /\ fun' = fun /\ block' = block /\ stmt' = stmt
  BY DEF Spin, tree, links, frames, Nodes
<1>3. Parsing /\ Parsing' /\ pc # "overrun" /\ pc' \in Pcs
  BY <1>a DEF Parsing, Pcs
<1>4. CursorType' /\ Cursor'
  BY <1>a, <1>1, <1>3, CursorKeeps
<1>5. PoolType' /\ Blank'
  BY <1>1, <1>2 DEF PoolType, Blank
<1>6. used' \in 1 .. maxNodes' /\ type'[1] = "PROGRAM" /\ parent'[1] = 0
  BY <1>1, <1>2, <1>3 DEF Frames
<1>7. Frames'
  BY <1>a, <1>5, <1>6 DEF Frames, Parsing, InFunction, InBlock, InStatement
<1>8. Tree({fun, block, stmt})'
  BY <1>1, <1>2, <1>3 DEF Tree
<1> QED BY <1>1, <1>2, <1>3, <1>4, <1>5, <1>7, <1>8, Together

(* Outside of a parse the pool is gone, and no frame is left.              *)
LEMMA Idle ==
  ASSUME Inv, ~Parsing
  PROVE  /\ used = 0 /\ fun = 0 /\ block = 0 /\ stmt = 0
         /\ \A n \in Nodes : parent[n] = 0 /\ children[n] = <<>>
<1>1. Frames /\ PoolType
  BY Apart
<1>2. used = 0 /\ fun = 0 /\ block = 0 /\ stmt = 0
  BY <1>1 DEF Frames, Parsing, InFunction, InBlock, InStatement
<1>3. \A n \in Nodes : n > 0
  BY <1>1 DEF Nodes, PoolType
<1> QED BY <1>1, <1>2, <1>3 DEF Frames, Blank

LEMMA BeginProgramKeeps ==
  ASSUME Inv, BeginProgram
  PROVE  Inv'
<1>a. pc \in {"scan"} /\ pc' \in {"program"} /\ status = "READY"
  BY DEF BeginProgram
<1>1. /\ PoolType /\ CursorType /\ maxNodes \in NodeLimits
  BY Apart
<1>2. /\ used = 0 /\ fun = 0 /\ block = 0 /\ stmt = 0
      /\ \A n \in Nodes : parent[n] = 0 /\ children[n] = <<>>
  BY <1>a, Idle DEF Parsing
<1>3. /\ maxNodes' = maxNodes /\ used' = 1
      /\ type' = [n \in Nodes |-> IF n = 1 THEN "PROGRAM" ELSE "NONE"]
      /\ parent' = parent /\ children' = children
      /\ fun' = fun /\ block' = block /\ stmt' = stmt
      /\ index' = 0 /\ current' = IF tokens = <<>> THEN 0 ELSE 1
      /\ buffer' = buffer /\ position' = position /\ status' = status
      /\ patterns' = patterns /\ tokens' = tokens /\ inputs' = inputs
  BY DEF BeginProgram, links, frames, tokenizer
<1>4. TokenizerTypeOK' /\ ~Scanning'
  BY <1>a, <1>1, <1>3 DEF CursorType, TokenizerTypeOK, Scanning
<1>5. CursorType' /\ Cursor'
  <2>1. Len(tokens) \in Nat /\ Len(tokens) <= Capacity /\ Capacity \in Nat
        /\ (tokens # <<>> => Len(tokens) >= 1)
    BY <1>1, TokenizerConstantsOK DEF CursorType, TokenizerTypeOK
  <2> QED BY <1>3, <1>4, <2>1 DEF CursorType, Cursor
<1>6. Nodes' = Nodes /\ maxNodes \in Nat \ {0} /\ 1 \in Nodes
  BY <1>1, <1>3 DEF Nodes, PoolType
<1>7. type' \in [Nodes -> NodeTypes] /\ type'[1] = "PROGRAM"
  BY <1>3, <1>6 DEF NodeTypes
<1>8. PoolType'
  <2>1. used' \in 0 .. maxNodes
    BY <1>3, <1>6
  <2> QED BY <1>1, <1>3, <1>6, <1>7, <2>1 DEF PoolType
<1>9. Frames'
  <2>1. used' \in 1 .. maxNodes' /\ parent'[1] = 0 /\ Blank'
    BY <1>2, <1>3, <1>6 DEF Blank
  <2> QED BY <1>a, <1>2, <1>3, <1>7, <2>1 DEF Frames, Parsing, InFunction, InBlock, InStatement
<1>10. Tree({fun, block, stmt})'
  BY <1>2, <1>3, <1>6 DEF Tree, TreeOf
<1>11. pc' \in Pcs /\ Parsing'
  BY <1>a DEF Pcs, Parsing
<1> QED BY <1>1, <1>3, <1>5, <1>8, <1>9, <1>10, <1>11, Together

LEMMA ReturnAstKeeps ==
  ASSUME Inv, ReturnAst, UNCHANGED <<tokenizer, maxNodes>>
  PROVE  Inv'
<1>a. pc \in {"flat"} /\ pc' \in {"idle"} /\ UNCHANGED cursor
  BY DEF ReturnAst
<1>1. PoolType /\ CursorType /\ Cursor /\ Frames /\ maxNodes \in NodeLimits
  BY Apart
<1>2. /\ maxNodes' = maxNodes /\ used' = 0 /\ type' = [n \in Nodes |-> "NONE"]
      /\ parent' = [n \in Nodes |-> 0] /\ children' = [n \in Nodes |-> <<>>]
      /\ fun' = fun /\ block' = block /\ stmt' = stmt
  BY DEF ReturnAst, frames
<1>3. CursorType' /\ Cursor'
  BY <1>a, <1>1, CursorKeeps DEF Parsing
<1>4. fun = 0 /\ block = 0 /\ stmt = 0
  BY <1>a, <1>1 DEF Frames, InFunction, InBlock, InStatement
<1>5. Nodes' = Nodes /\ maxNodes \in Nat \ {0}
  BY <1>1, <1>2 DEF Nodes, PoolType
<1>6. /\ type' \in [Nodes -> NodeTypes] /\ used' \in 0 .. maxNodes
      /\ parent' \in [Nodes -> 0 .. maxNodes] /\ children' \in [Nodes -> Seq(Nodes)]
      /\ \A n \in Nodes : parent'[n] = 0 /\ children'[n] = <<>>
  BY <1>2, <1>5 DEF NodeTypes
<1>8. PoolType'
  BY <1>1, <1>2, <1>5, <1>6 DEF PoolType
<1>9. Frames'
  BY <1>a, <1>2, <1>4, <1>5, <1>6 DEF Frames, Blank, Parsing, InFunction, InBlock, InStatement
<1>10. Tree({fun, block, stmt})'
  BY <1>2, <1>5, <1>6 DEF Tree, TreeOf
<1>11. pc' \in Pcs
  BY <1>a DEF Pcs
<1> QED BY <1>1, <1>2, <1>3, <1>8, <1>9, <1>10, <1>11, Together
-----------------------------------------------------------------------------
(* The tokenizer's own steps, and the steps outside of a parse.            *)

LEMMA AppendedTokens ==
  ASSUME TokenizerTypeOK, NEW t \in Lexemes \cup {"EOF"}
  PROVE  Appended(t) \in Seq(Tokens) /\ Len(Appended(t)) <= Capacity
<1>1. Capacity \in Nat /\ Len(tokens) \in Nat
  BY TokenizerConstantsOK DEF TokenizerTypeOK
<1>2. [type |-> t, input |-> inputs, at |-> position + 1] \in Tokens
  BY DEF TokenizerTypeOK, Tokens
<1>3. Appended(t) = tokens
      \/ /\ Len(tokens) < Capacity
         /\ Appended(t) = Append(tokens, [type |-> t, input |-> inputs, at |-> position + 1])
  BY DEF Appended
<1>4. ASSUME NEW e \in Tokens, Len(tokens) < Capacity
      PROVE  Append(tokens, e) \in Seq(Tokens) /\ Len(Append(tokens, e)) <= Capacity
  BY <1>1, <1>4 DEF TokenizerTypeOK
<1> QED BY <1>2, <1>3, <1>4 DEF TokenizerTypeOK

LEMMA BufferFacts ==
  ASSUME NEW input \in Inputs
  PROVE  Len(input.pieces) \in Nat /\ input.length \in Nat /\ input # NoInput
BY TokenizerConstantsOK

LEMMA ScanKeeps ==
  ASSUME TokenizerTypeOK, Scan
  PROVE  TokenizerTypeOK' /\ buffer' = buffer /\ buffer # NoInput
<1>1. Scanning /\ buffer' = buffer /\ patterns' = patterns /\ inputs' = inputs
  BY DEF Scan, SkipBlank, Match, Unmatched, EndOfInput
<1>2. buffer \in Inputs /\ buffer # NoInput
  BY <1>1 DEF TokenizerTypeOK
<1>3. Len(buffer.pieces) \in Nat /\ position \in Nat
  BY <1>2, BufferFacts DEF TokenizerTypeOK
<1>4. status' \in {"READY", "SCANNING", "ERROR"}
  BY DEF Scan, SkipBlank, Match, Unmatched, EndOfInput, TokenizerTypeOK
<1>5. patterns \subseteq Lexemes
  BY TokenizerConstantsOK DEF TokenizerTypeOK
<1>6. position' \in Nat /\ position' <= Len(buffer.pieces)
  <2>1. CASE position' = position
    BY <2>1, <1>2 DEF TokenizerTypeOK
  <2>2. CASE position' = position + 1 /\ Piece # "END"
    BY <2>2, <1>3 DEF Piece
  <2>3. "END" \notin Lexemes
    BY DEF Lexemes
  <2> QED BY <2>1, <2>2, <2>3, <1>5 DEF Scan, SkipBlank, Match, Unmatched, EndOfInput
<1>7. tokens' \in Seq(Tokens) /\ Len(tokens') <= Capacity
  <2>1. CASE tokens' = tokens
    BY <2>1 DEF TokenizerTypeOK
  <2>2. CASE Match
    BY <2>2, <1>5, AppendedTokens DEF Match
  <2>3. CASE EndOfInput
    BY <2>3, AppendedTokens DEF EndOfInput
  <2> QED BY <2>1, <2>2, <2>3 DEF Scan, SkipBlank, Unmatched
<1> QED BY <1>1, <1>2, <1>4, <1>6, <1>7 DEF TokenizerTypeOK

(* An input goes into the buffer only if it fits.                          *)
LEMMA BufferedKeeps ==
  ASSUME TokenizerTypeOK, NEW input \in Inputs, input.length <= BufferSize, inputs < MaxInputs,
         buffer' = input, position' = 0, inputs' = inputs + 1, tokens' = tokens,
         status' \in {"READY", "SCANNING"}, patterns' \in {patterns, {}}
  PROVE  TokenizerTypeOK'
<1>1. inputs' \in 0 .. MaxInputs
  BY TokenizerConstantsOK DEF TokenizerTypeOK
<1>2. position' \in Nat /\ position' <= Len(input.pieces)
  BY BufferFacts
<1>3. input # NoInput
  BY BufferFacts
<1> QED BY <1>1, <1>2, <1>3 DEF TokenizerTypeOK

LEMMA ErrorKeeps ==
  ASSUME TokenizerTypeOK, status' \in {"ERROR", "READY"},
         UNCHANGED <<buffer, position, patterns, tokens, inputs>>
  PROVE  TokenizerTypeOK'
BY DEF TokenizerTypeOK, Scanning

LEMMA SetInputKeeps ==
  ASSUME TokenizerTypeOK, NEW input \in Inputs, SetInput(input)
  PROVE  TokenizerTypeOK'
<1>1. CASE input.length > BufferSize
  BY <1>1, ErrorKeeps DEF SetInput
<1>2. CASE ~(input.length > BufferSize)
  <2>1. input.length <= BufferSize
    BY <1>2, BufferFacts, TokenizerConstantsOK
  <2> QED BY <1>2, <2>1, BufferedKeeps DEF SetInput
<1> QED BY <1>1, <1>2

LEMMA ResetKeeps ==
  ASSUME TokenizerTypeOK, Reset
  PROVE  TokenizerTypeOK'
<1>1. buffer \in Inputs => Len(buffer.pieces) \in Nat
  BY BufferFacts
<1>2. <<>> \in Seq(Tokens) /\ Len(<<>>) <= Capacity
  BY TokenizerConstantsOK
<1>3. /\ buffer' = buffer /\ position' = 0 /\ status' = "READY" /\ patterns' = patterns
      /\ tokens' = <<>> /\ inputs' = inputs
  BY DEF Reset
<1> QED BY <1>1, <1>2, <1>3 DEF TokenizerTypeOK, Scanning

LEMMA BeginProcessKeeps ==
  ASSUME TokenizerTypeOK, NEW ops \in Operations, BeginProcess(ops)
  PROVE  TokenizerTypeOK'
BY DEF TokenizerTypeOK, BeginProcess

LEMMA OutsideKeeps ==
  ASSUME Inv, pc \in {"idle", "scan"}, pc' \in {"idle", "scan"}, TokenizerTypeOK',
         UNCHANGED <<maxNodes, cursor, tree, frames>>
  PROVE  Inv'
<1>1. PoolType /\ CursorType /\ Cursor /\ Frames /\ maxNodes \in NodeLimits /\ Blank
  BY Apart
<1>2. /\ used = 0 /\ fun = 0 /\ block = 0 /\ stmt = 0
      /\ \A n \in Nodes : parent[n] = 0 /\ children[n] = <<>>
  BY Idle DEF Parsing
<1>3. /\ maxNodes' = maxNodes /\ used' = used /\ type' = type
      /\ parent' = parent /\ children' = children
      /\ fun' = fun /\ block' = block /\ stmt' = stmt
      /\ index' = index /\ current' = current
  BY DEF tree, links, frames, cursor
<1>4. CursorType' /\ Cursor'
  BY <1>1, <1>3 DEF CursorType, Cursor, Parsing
<1>5. PoolType' /\ Blank'
  BY <1>1, <1>3 DEF PoolType, Blank, Nodes
<1>6. Frames'
  BY <1>2, <1>3, <1>5 DEF Frames, Parsing, InFunction, InBlock, InStatement
<1>7. Tree({fun, block, stmt})'
  BY <1>2, <1>3 DEF Tree, TreeOf
<1>8. pc' \in Pcs
  BY DEF Pcs
<1> QED BY <1>1, <1>3, <1>4, <1>5, <1>6, <1>7, <1>8, Together

LEMMA UseTokenizerKeeps ==
  ASSUME Inv, UseTokenizer
  PROVE  Inv'
<1>1. TokenizerTypeOK
  BY DEF Inv, TypeOK
<1>2. TokenizerTypeOK'
  BY <1>1, SetInputKeeps, ResetKeeps, BeginProcessKeeps DEF UseTokenizer
<1>3. pc \in {"idle", "scan"} /\ pc' \in {"idle", "scan"} /\ UNCHANGED <<maxNodes, cursor, tree, frames>>
  BY DEF UseTokenizer, parser
<1> QED BY <1>2, <1>3, OutsideKeeps

LEMMA ScanStepKeeps ==
  ASSUME Inv, ScanStep
  PROVE  Inv'
<1>1. TokenizerTypeOK /\ Cursor
  BY DEF Inv, TypeOK
<1>2. TokenizerTypeOK'
  BY <1>1, ScanKeeps DEF ScanStep
<1>3. pc' = pc /\ UNCHANGED <<maxNodes, cursor, tree, frames>>
  BY DEF ScanStep, parser
<1>4. Scanning
  BY DEF ScanStep, Scan, SkipBlank, Match, Unmatched, EndOfInput
<1>5. pc \in {"idle", "scan"}
  BY <1>1, <1>4 DEF Cursor, Parsing
<1> QED BY <1>2, <1>3, <1>5, OutsideKeeps

LEMMA ParseStringKeeps ==
  ASSUME Inv, NEW input \in Inputs, ParseString(input)
  PROVE  Inv'
<1>1. TokenizerTypeOK
  BY DEF Inv, TypeOK
<1>2. TokenizerTypeOK'
  <2>1. CASE SetInput(input)
    BY <1>1, <2>1, SetInputKeeps
  <2>2. CASE ~SetInput(input)
    BY <1>1, <2>2, BufferedKeeps DEF ParseString
  <2> QED BY <2>1, <2>2
<1>3. pc \in {"idle", "scan"} /\ pc' \in {"idle", "scan"} /\ UNCHANGED <<maxNodes, cursor, tree, frames>>
  BY DEF ParseString
<1> QED BY <1>2, <1>3, OutsideKeeps

LEMMA ScanFailsKeeps ==
  ASSUME Inv, ScanFails
  PROVE  Inv'
<1>1. TokenizerTypeOK'
  BY DEF Inv, TypeOK, TokenizerTypeOK, ScanFails, tokenizer, Scanning
<1>2. pc \in {"idle", "scan"} /\ pc' \in {"idle", "scan"} /\ UNCHANGED <<maxNodes, cursor, tree, frames>>
  BY DEF ScanFails
<1> QED BY <1>1, <1>2, OutsideKeeps
-----------------------------------------------------------------------------
(* The tokens and the lexemes they stand for.  Of any token array tok, the *)
(* input number n and the pieces read so far:                              *)
Mine(tok, n) == {i \in DOMAIN tok : tok[i].input = n /\ tok[i].type # "EOF"}
LexemesTo(p) == {k \in 1 .. p : buffer.pieces[k] # "BLANK"}

Tiled(tok, n, p) ==
  /\ \A i \in Mine(tok, n) : tok[i].at \in LexemesTo(p) /\ tok[i].type = buffer.pieces[tok[i].at]
  /\ \A i, j \in Mine(tok, n) : i < j => tok[i].at < tok[j].at
  /\ \A k \in LexemesTo(p) :
       \/ \E i \in Mine(tok, n) : tok[i].at = k
       \/ Len(tok) = Capacity /\ \A i \in Mine(tok, n) : tok[i].at < k

(* No token is of an input to come, and without an input there is none.    *)
Tiles ==
  /\ Tiled(tokens, inputs, position)
  /\ \A i \in DOMAIN tokens : tokens[i].input <= inputs
  /\ buffer = NoInput => tokens = <<>>

LEMMA TilesIs == Tiles => TokensTile
BY DEF Tiles, Tiled, Mine, LexemesTo, TokensTile

(* An input that has not been read from has no lexemes and no tokens.      *)
LEMMA TilesFresh ==
  ASSUME TokenizerTypeOK, Tiles, position' = 0, buffer' # NoInput,
         \/ inputs' = inputs + 1 /\ tokens' = tokens
         \/ inputs' = inputs /\ tokens' = <<>>
  PROVE  Tiles'
<1>1. inputs \in Nat /\ \A i \in DOMAIN tokens : tokens[i].input \in Nat
  <2>1. inputs \in Nat /\ tokens \in Seq(Tokens)
    BY TokenizerConstantsOK DEF TokenizerTypeOK
  <2>2. \A i \in DOMAIN tokens : tokens[i] \in Tokens
    BY <2>1
  <2> QED BY <2>1, <2>2 DEF Tokens
<1>2. LexemesTo(position)' = {}
  BY DEF LexemesTo
<1>3. Mine(tokens, inputs)' = {} /\ \A i \in DOMAIN tokens' : tokens'[i].input <= inputs'
  <2>1. CASE inputs' = inputs + 1 /\ tokens' = tokens
    <3>1. \A i \in DOMAIN tokens : tokens[i].input # inputs + 1 /\ tokens[i].input <= inputs + 1
      BY <1>1 DEF Tiles
    <3> QED BY <2>1, <3>1 DEF Mine
  <2>2. CASE tokens' = <<>>
    BY <2>2 DEF Mine
  <2> QED BY <2>1, <2>2
<1> QED BY <1>2, <1>3 DEF Tiles, Tiled

LEMMA TilesSame ==
  ASSUME Tiles, UNCHANGED <<buffer, position, tokens, inputs>>
  PROVE  Tiles'
BY DEF Tiles, Tiled, Mine, LexemesTo

(* What an appended token does, or one that is dropped.                    *)
LEMMA AppendedWhat ==
  ASSUME TokenizerTypeOK, Tiles, buffer # NoInput, NEW t \in Lexemes \cup {"EOF"}
  PROVE  /\ Len(tokens) \in Nat /\ DOMAIN tokens = 1 .. Len(tokens)
         /\ \/ Appended(t) = tokens /\ Len(tokens) = Capacity
            \/ /\ Len(tokens) # Capacity
               /\ Len(Appended(t)) = Len(tokens) + 1
               /\ DOMAIN Appended(t) = 1 .. Len(tokens) + 1
               /\ \A i \in 1 .. Len(tokens) : Appended(t)[i] = tokens[i]
               /\ Appended(t)[Len(tokens) + 1] = [type |-> t, input |-> inputs, at |-> position + 1]
<1>1. tokens \in Seq(Tokens) /\ Len(tokens) \in Nat /\ Capacity \in Nat /\ Len(tokens) <= Capacity
  BY TokenizerConstantsOK DEF TokenizerTypeOK
<1> DEFINE e == [type |-> t, input |-> inputs, at |-> position + 1]
<1>2. e \in Tokens
  BY DEF TokenizerTypeOK, Tokens
<1>3. Appended(t) = IF Len(tokens) < Capacity THEN Append(tokens, e) ELSE tokens
  BY DEF Appended
<1> HIDE DEF e
<1>4. Len(tokens) < Capacity \/ Len(tokens) = Capacity
  BY <1>1
<1>5. CASE Len(tokens) < Capacity
  <2>1. Appended(t) = Append(tokens, e) /\ Len(tokens) # Capacity
    BY <1>1, <1>3, <1>5
  <2> QED BY <1>1, <1>2, <2>1 DEF e
<1>6. CASE Len(tokens) = Capacity
  BY <1>1, <1>3, <1>6
<1> QED BY <1>4, <1>5, <1>6

LEMMA TilesMatch ==
  ASSUME TokenizerTypeOK, Tiles, buffer # NoInput, Match
  PROVE  Tiles'
<1> DEFINE L == Len(tokens)
           n == position + 1
<1>1. /\ Piece \in Lexemes /\ tokens' = Appended(Piece) /\ position' = n
      /\ buffer' = buffer /\ inputs' = inputs
  BY TokenizerConstantsOK DEF Match, TokenizerTypeOK
<1>2. position \in Nat /\ buffer \in Inputs /\ inputs \in Nat
  BY TokenizerConstantsOK DEF TokenizerTypeOK
<1>3. Piece = buffer.pieces[n] /\ Piece # "BLANK" /\ Piece # "EOF"
  BY <1>1 DEF Piece, Lexemes
<1>4. LexemesTo(n) = LexemesTo(position) \cup {n} /\ \A k \in LexemesTo(position) : k # n /\ k < n
  BY <1>2, <1>3 DEF LexemesTo
<1>5. LexemesTo(position)' = LexemesTo(n)
  BY <1>1 DEF LexemesTo
<1>6. \A i \in Mine(tokens, inputs) : tokens[i].at \in LexemesTo(position) /\ tokens[i].at < n
  BY <1>4 DEF Tiles, Tiled
<1>7. CASE tokens' = tokens /\ L = Capacity
  <2>1. Tiled(tokens, inputs, n)
    BY <1>4, <1>6, <1>7 DEF Tiles, Tiled
  <2> QED BY <1>1, <1>5, <1>7, <2>1 DEF Tiles, Tiled, Mine
<1>8. CASE /\ L # Capacity /\ Len(tokens') = L + 1 /\ DOMAIN tokens' = 1 .. L + 1
           /\ \A i \in 1 .. L : tokens'[i] = tokens[i]
           /\ tokens'[L + 1] = [type |-> Piece, input |-> inputs, at |-> n]
  <2>1. L \in Nat /\ DOMAIN tokens = 1 .. L
    BY <1>1, AppendedWhat
  <2> DEFINE M == Mine(tokens, inputs)
  <2>2. \A i \in M : i \in 1 .. L /\ i < L + 1
    BY <2>1 DEF Mine
  <2>3. Mine(tokens', inputs) = M \cup {L + 1}
    <3> HIDE DEF L
    <3>1. \A i : i \in 1 .. L + 1 <=> (i \in 1 .. L \/ i = L + 1)
      BY <2>1
    <3>2. tokens'[L + 1].input = inputs /\ tokens'[L + 1].type # "EOF"
      BY <1>3, <1>8
    <3> QED BY <1>8, <2>1, <3>1, <3>2 DEF Mine
  <2>4. /\ tokens'[L + 1].at = n /\ tokens'[L + 1].type = buffer.pieces[n] /\ tokens'[L + 1].input = inputs
        /\ \A i \in M : tokens'[i] = tokens[i]
    BY <1>3, <1>8, <2>2
  <2>5. \A k \in LexemesTo(position) : \E i \in M : tokens[i].at = k
    BY <1>8 DEF Tiles, Tiled
  <2>6. \A i \in M : /\ tokens[i].at \in LexemesTo(position) /\ tokens[i].at < n
                     /\ tokens[i].type = buffer.pieces[tokens[i].at]
    BY <1>6 DEF Tiles, Tiled
  <2>7. \A i, j \in M : i < j => tokens[i].at < tokens[j].at
    BY DEF Tiles, Tiled
  <2>8. \A i \in M : ~(L + 1 < i)
    BY <2>1, <2>2
  <2>9. ~(L + 1 < L + 1)
    BY <2>1
  <2> HIDE DEF L, M, n
  <2>10. Tiled(tokens', inputs, n)
    BY <1>4, <2>3, <2>4, <2>5, <2>6, <2>7, <2>8, <2>9 DEF Tiled
  <2>11. Tiled(tokens, inputs, position)'
    BY <1>1, <1>5, <2>10 DEF Tiled, Mine, n
  <2>12. \A i \in DOMAIN tokens' : tokens'[i].input <= inputs
    <3>1. \A i \in 1 .. L + 1 : i \in 1 .. L \/ i = L + 1
      BY <2>1
    <3> QED BY <1>2, <1>8, <2>1, <2>4, <3>1 DEF Tiles
  <2> QED BY <1>1, <2>11, <2>12 DEF Tiles
<1> QED BY <1>1, <1>7, <1>8, AppendedWhat

LEMMA TilesEnd ==
  ASSUME TokenizerTypeOK, Tiles, buffer # NoInput, EndOfInput
  PROVE  Tiles'
<1> DEFINE L == Len(tokens)
<1>1. /\ tokens' = Appended("EOF") /\ position' = position
      /\ buffer' = buffer /\ inputs' = inputs
  BY DEF EndOfInput
<1>2. inputs \in Nat
  BY TokenizerConstantsOK DEF TokenizerTypeOK
<1>3. CASE tokens' = tokens
  BY <1>1, <1>3, TilesSame
<1>4. CASE /\ L # Capacity /\ DOMAIN tokens' = 1 .. L + 1
           /\ \A i \in 1 .. L : tokens'[i] = tokens[i]
           /\ tokens'[L + 1] = [type |-> "EOF", input |-> inputs, at |-> position + 1]
  <2>1. L \in Nat /\ DOMAIN tokens = 1 .. L /\ \A i \in 1 .. L + 1 : i \in 1 .. L \/ i = L + 1
    BY <1>1, AppendedWhat
  <2>2. Mine(tokens', inputs) = Mine(tokens, inputs)
    <3>1. tokens'[L + 1].type = "EOF" /\ \A i \in 1 .. L : i \in 1 .. L + 1
      BY <1>4, <2>1
    <3> HIDE DEF L
    <3> QED BY <1>4, <2>1, <3>1 DEF Mine
  <2>3. \A i \in Mine(tokens, inputs) : tokens'[i] = tokens[i]
    BY <1>4, <2>1 DEF Mine
  <2>4. Tiled(tokens', inputs, position)
    BY <1>4, <2>2, <2>3 DEF Tiles, Tiled
  <2>5. Tiled(tokens, inputs, position)'
    BY <1>1, <2>4 DEF Tiled, Mine, LexemesTo
  <2>6. \A i \in DOMAIN tokens' : tokens'[i].input <= inputs
    BY <1>2, <1>4, <2>1 DEF Tiles
  <2> QED BY <1>1, <2>5, <2>6 DEF Tiles
<1> QED BY <1>1, <1>3, <1>4, AppendedWhat

LEMMA TilesScan ==
  ASSUME TokenizerTypeOK, Tiles, Scan
  PROVE  Tiles'
<1>1. buffer # NoInput
  BY ScanKeeps
<1>2. CASE SkipBlank
  <2>1. /\ position' = position + 1 /\ UNCHANGED <<buffer, tokens, inputs>>
        /\ position \in Nat /\ buffer.pieces[position + 1] = "BLANK"
    BY <1>2 DEF SkipBlank, Piece, TokenizerTypeOK
  <2>2. LexemesTo(position + 1) = LexemesTo(position)
    BY <2>1 DEF LexemesTo
  <2>3. LexemesTo(position)' = LexemesTo(position)
    BY <2>1, <2>2 DEF LexemesTo
  <2> QED BY <2>1, <2>3 DEF Tiles, Tiled, Mine
<1>3. CASE Unmatched
  BY <1>3, TilesSame DEF Unmatched
<1> QED BY <1>1, <1>2, <1>3, TilesMatch, TilesEnd DEF Scan

LEMMA TilesSetInput ==
  ASSUME TokenizerTypeOK, Tiles, NEW input \in Inputs, SetInput(input)
  PROVE  Tiles'
<1>1. CASE input.length > BufferSize
  BY <1>1, TilesSame DEF SetInput
<1>2. CASE ~(input.length > BufferSize)
  <2>1. buffer' = input /\ input # NoInput
    BY <1>2, BufferFacts DEF SetInput
  <2> QED BY <1>2, <2>1, TilesFresh DEF SetInput
<1> QED BY <1>1, <1>2

LEMMA TilesReset ==
  ASSUME TokenizerTypeOK, Tiles, Reset
  PROVE  Tiles'
<1>1. CASE buffer = NoInput
  <2>1. UNCHANGED <<buffer, position, tokens, inputs>>
    BY <1>1 DEF Reset, Tiles, TokenizerTypeOK
  <2> QED BY <2>1, TilesSame
<1>2. CASE buffer # NoInput
  BY <1>2, TilesFresh DEF Reset
<1> QED BY <1>1, <1>2

LEMMA TilesStep == TokenizerTypeOK /\ Tiles /\ [Next]_vars => Tiles'
<1> SUFFICES ASSUME TokenizerTypeOK, Tiles, [Next]_vars PROVE Tiles'
  OBVIOUS
<1>1. CASE UNCHANGED tokenizer
  BY <1>1, TilesSame DEF tokenizer
<1>2. CASE UseTokenizer
  <2>1. ASSUME NEW ops, BeginProcess(ops) PROVE Tiles'
    BY <2>1, TilesSame DEF BeginProcess
  <2> QED BY <1>2, <2>1, TilesSetInput, TilesReset DEF UseTokenizer
<1>3. CASE ScanStep
  BY <1>3, TilesScan DEF ScanStep
<1>4. ASSUME NEW input \in Inputs, ParseString(input) PROVE Tiles'
  <2>1. CASE SetInput(input)
    BY <2>1, TilesSetInput
  <2>2. CASE buffer' = input /\ position' = 0 /\ inputs' = inputs + 1 /\ UNCHANGED tokens
    BY <2>2, BufferFacts, TilesFresh
  <2> QED BY <1>4, <2>1, <2>2 DEF ParseString
<1> QED
  BY <1>1, <1>2, <1>3, <1>4 DEF Next, vars, ScanFails, BeginProgram, Descend

LEMMA TilesInit == Init => Tiles
BY TokenizerConstantsOK DEF Init, TokenizerInit, Tiles, Tiled, Mine, LexemesTo

-----------------------------------------------------------------------------
(* Every step.                                                             *)

LEMMA InitInv == Init => Inv
<1> SUFFICES ASSUME Init PROVE Inv
  OBVIOUS
<1>1. /\ maxNodes \in NodeLimits /\ maxNodes \in Nat \ {0} /\ pc \in {"idle"}
      /\ index = 0 /\ current = 0 /\ used = 0
      /\ type = [n \in Nodes |-> "NONE"]
      /\ parent = [n \in Nodes |-> 0] /\ children = [n \in Nodes |-> <<>>]
      /\ fun = 0 /\ block = 0 /\ stmt = 0
  BY ParserConstantsOK DEF Init
<1>2. TokenizerTypeOK /\ ~Scanning
  <2>1. <<>> \in Seq(Tokens) /\ Len(<<>>) <= Capacity /\ 0 \in 0 .. MaxInputs
    BY TokenizerConstantsOK
  <2> QED BY <2>1 DEF Init, TokenizerInit, TokenizerTypeOK, Scanning
<1>3. /\ type \in [Nodes -> NodeTypes] /\ used \in 0 .. maxNodes
      /\ parent \in [Nodes -> 0 .. maxNodes] /\ children \in [Nodes -> Seq(Nodes)]
      /\ \A n \in Nodes : parent[n] = 0 /\ children[n] = <<>>
  BY <1>1 DEF NodeTypes
<1>5. 0 \in 0 .. Capacity /\ 0 \in 0 .. maxNodes
  BY <1>1, TokenizerConstantsOK
<1>6. TypeOK
  BY <1>1, <1>2, <1>3, <1>5 DEF TypeOK, NodeTypes, Pcs
<1>7. Cursor
  BY <1>1 DEF Cursor, Parsing
<1>8. Frames
  BY <1>1, <1>3 DEF Frames, Blank, Parsing, InFunction, InBlock, InStatement
<1>9. AstIsTree
  BY <1>1, <1>3 DEF AstIsTree
<1> QED BY <1>6, <1>7, <1>8, <1>9 DEF Inv

LEMMA DescendKeeps ==
  ASSUME Inv, Descend
  PROVE  Inv'
<1>a. UNCHANGED tokenizer /\ maxNodes' = maxNodes
  BY DEF Descend
<1>b. \A t : TryExpect(t) => Advance \/ UNCHANGED cursor
  BY DEF TryExpect
<1>c. TryAdvance => Advance \/ UNCHANGED cursor
  BY DEF TryAdvance
<1>1. CASE BeginFunction
  <2>1. pc = "program" /\ Advance /\ UNCHANGED <<links, block, stmt>>
    BY <1>1 DEF BeginFunction
  <2>2. CASE Room
    <3>1. pc' = "function" /\ Allocate("FUNCTION") /\ fun' = used + 1
      BY <1>1, <2>2 DEF BeginFunction
    <3> QED BY <1>a, <2>1, <3>1, Begins
  <2>3. CASE ~Room
    <3>1. pc' = "program" /\ UNCHANGED Pooled
      BY <1>1, <1>a, <2>1, <2>3 DEF BeginFunction, Pooled, tree, frames
    <3> QED BY <1>a, <2>1, <3>1, Moves
  <2> QED BY <2>2, <2>3
<1>2. CASE OpenParameters \/ SkipParameter \/ CloseParameters
  <2>1. UNCHANGED Pooled /\ (Advance \/ UNCHANGED cursor)
    BY <1>2, <1>a, <1>b DEF OpenParameters, SkipParameter, CloseParameters, Pooled
  <2>2. pc \in {"function", "parameters", "body"} /\ pc' \in {"parameters", "body", "function done"}
    BY <1>2 DEF OpenParameters, SkipParameter, CloseParameters
  <2> QED BY <1>a, <2>1, <2>2, Moves
<1>3. CASE BeginBlock
  <2>1. pc = "body" /\ (Advance \/ UNCHANGED cursor) /\ UNCHANGED <<links, fun, stmt>>
    BY <1>3, <1>b DEF BeginBlock
  <2>2. CASE Expected("SEPARATOR") /\ Room
    <3>1. pc' = "block" /\ Allocate("BLOCK") /\ block' = used + 1
      BY <1>3, <2>2 DEF BeginBlock
    <3> QED BY <1>a, <2>1, <3>1, Begins
  <2>3. CASE ~(Expected("SEPARATOR") /\ Room)
    <3>1. pc' = "function done" /\ UNCHANGED Pooled
      BY <1>3, <1>a, <2>1, <2>3 DEF BeginBlock, Pooled, tree, frames
    <3> QED BY <1>a, <2>1, <3>1, Moves
  <2> QED BY <2>2, <2>3
<1>4. CASE BeginStatement
  <2>1. /\ pc = "block" /\ pc' = "statement" /\ UNCHANGED cursor
        /\ Allocate("STATEMENT") /\ stmt' = used + 1 /\ UNCHANGED <<links, fun, block>>
    BY <1>4 DEF BeginStatement
  <2> QED BY <1>a, <2>1, Begins
<1>5. CASE ParseExpression
  <2>1. pc = "statement" /\ pc' = "statement done" /\ UNCHANGED frames
    BY <1>5 DEF ParseExpression
  <2>2. CASE UNCHANGED <<cursor, tree>>
    <3>1. UNCHANGED Pooled
      BY <1>a, <2>1, <2>2 DEF Pooled
    <3> QED BY <1>a, <2>1, <2>2, <3>1, Moves
  <2>3. CASE ~UNCHANGED <<cursor, tree>>
    <3>1. Expresses /\ (Advance \/ UNCHANGED cursor)
      BY <1>5, <1>c, <2>1, <2>3 DEF ParseExpression, Expresses
    <3> QED BY <1>a, <2>1, <3>1, Expression
  <2> QED BY <2>2, <2>3
<1>6. CASE EndStatement
  <2>1. pc = "statement done" /\ stmt' = 0 /\ UNCHANGED <<cursor, used, type, fun, block>>
    BY <1>6 DEF EndStatement
  <2>2. CASE Len(children[block]) < ChildCapacity
    <3>1. Attach(block, stmt)
      BY <1>6, <2>1, <2>2 DEF EndStatement, LinkUnchecked, Attach
    <3> QED BY <1>a, <2>1, <3>1, Links
  <2>3. CASE ~(Len(children[block]) < ChildCapacity)
    <3>1. pc' = "overrun" /\ Link(block, stmt)
      BY <1>6, <2>3 DEF EndStatement, LinkUnchecked
    <3>2. Parsing /\ pc \in InBlock /\ pc \in InStatement
      BY <2>1 DEF Parsing, InFunction, InBlock, InStatement
    <3>3. block \in 1 .. used /\ stmt \in 2 .. used
      <4>1. block \in 2 .. used /\ stmt \in 2 .. used
        BY <3>2 DEF Inv, Frames, Building
      <4>2. used \in Nat
        BY DEF Inv, TypeOK
      <4> QED BY <4>1, <4>2
    <3>4. fun' \in {fun, 0} /\ block' = block /\ stmt' \in {stmt, 0}
      BY <2>1
    <3> QED BY <1>a, <2>1, <3>1, <3>2, <3>3, <3>4, Overruns
  <2> QED BY <2>2, <2>3
<1>7. CASE EndBlock
  <2>1. /\ pc = "block" /\ pc' = "function done" /\ Link(fun, block) /\ block' = 0
        /\ UNCHANGED <<used, type, fun, stmt>> /\ (Advance \/ UNCHANGED cursor)
    BY <1>7, <1>b DEF EndBlock
  <2>2. Attach(fun, block)
    BY <2>1 DEF Attach
  <2> QED BY <1>a, <2>1, <2>2, Links
<1>8. CASE EndFunction
  <2>1. pc = "function done" /\ fun' = 0 /\ UNCHANGED <<cursor, used, type, block, stmt>>
    BY <1>8 DEF EndFunction
  <2>2. CASE Len(children[1]) < ChildCapacity
    <3>1. Attach(1, fun)
      BY <1>8, <2>1, <2>2 DEF EndFunction, LinkUnchecked, Attach
    <3> QED BY <1>a, <2>1, <3>1, Links
  <2>3. CASE ~(Len(children[1]) < ChildCapacity)
    <3>1. pc' = "overrun" /\ Link(1, fun)
      BY <1>8, <2>3 DEF EndFunction, LinkUnchecked
    <3>2. Parsing /\ pc \in InFunction
      BY <2>1 DEF Parsing, InFunction, InBlock, InStatement
    <3>3. 1 \in 1 .. used /\ fun \in 2 .. used
      <4>1. fun \in 2 .. used
        BY <3>2 DEF Inv, Frames, Building
      <4>2. used \in Nat
        BY DEF Inv, TypeOK
      <4> QED BY <4>1, <4>2
    <3>4. fun' \in {fun, 0} /\ block' = block /\ stmt' \in {stmt, 0}
      BY <2>1
    <3> QED BY <1>a, <2>1, <3>1, <3>2, <3>3, <3>4, Overruns
  <2> QED BY <2>2, <2>3
<1>9. CASE EndProgram
  <2>1. pc = "program" /\ pc' = "flat" /\ UNCHANGED cursor /\ UNCHANGED Pooled
    BY <1>9, <1>a DEF EndProgram, Pooled
  <2> QED BY <1>a, <2>1, Moves
<1>10. CASE ReturnAst
  BY <1>10, <1>a, ReturnAstKeeps
<1>11. CASE Spin
  BY <1>11, <1>a, Spins
<1> QED BY <1>1, <1>2, <1>3, <1>4, <1>5, <1>6, <1>7, <1>8, <1>9, <1>10, <1>11 DEF Descend

LEMMA StutterKeeps ==
  ASSUME Inv, UNCHANGED vars
  PROVE  Inv'
<1>1. /\ PoolType /\ CursorType /\ Cursor /\ Frames /\ maxNodes \in NodeLimits /\ Blank
      /\ pc \in Pcs /\ (pc # "overrun" => Tree({fun, block, stmt}))
  BY Apart
<1>2. /\ maxNodes' = maxNodes /\ used' = used /\ type' = type
      /\ parent' = parent /\ children' = children
      /\ fun' = fun /\ block' = block /\ stmt' = stmt
      /\ index' = index /\ current' = current /\ pc' = pc
      /\ buffer' = buffer /\ position' = position /\ status' = status
      /\ patterns' = patterns /\ tokens' = tokens /\ inputs' = inputs
  BY DEF vars, parser, tree, links, frames, cursor, tokenizer
<1>3. CursorType' /\ Cursor'
  BY <1>1, <1>2 DEF CursorType, TokenizerTypeOK, Cursor, Parsing, Scanning
<1>4. PoolType' /\ Blank'
  BY <1>1, <1>2 DEF PoolType, Blank, Nodes
<1>5. Frames'
  BY <1>1, <1>2, <1>4 DEF Frames, Building, Parsing
<1>6. (pc # "overrun" => Tree({fun, block, stmt}))'
  BY <1>1, <1>2 DEF Tree, TreeOf
<1> QED BY <1>1, <1>2, <1>3, <1>4, <1>5, <1>6, Together

LEMMA InvStep == Inv /\ [Next]_vars => Inv'
BY UseTokenizerKeeps, ScanStepKeeps, ScanFailsKeeps, BeginProgramKeeps, DescendKeeps,
   ParseStringKeeps, StutterKeeps DEF Next

(* The tokenizer scans inside its buffer, and both stay inside the token   *)
(* array and the node pool, however large or small they are, and whatever  *)
(* is scanned and parsed.  (The writes behind an array   *)
(* of children are steps of the model, and no part of what is claimed;     *)
(* nor is the zero that set_input writes behind a text that fills the      *)
(* buffer.)                                                                *)
THEOREM Typing == Spec => []TypeOK
<1>1. Inv => TypeOK
  BY DEF Inv
<1> QED BY InitInv, InvStep, <1>1, PTL DEF Spec

(* The tokens of an input are its lexemes up to position, each once and in *)
(* order, but for those at the end that found the array full; however      *)
(* often polycall_tokenizer_process failed and was called again.           *)
THEOREM TokensAlwaysTile == Spec => []TokensTile
<1>1. TypeOK => TokenizerTypeOK
  BY DEF TypeOK
<1> QED BY <1>1, TilesIs, TilesInit, TilesStep, Typing, PTL DEF Spec

(* What parse_tokens builds is a tree at every moment of the parse.        *)
THEOREM TreeBuilt == Spec => []AstIsTree
<1>1. Inv => AstIsTree
  BY DEF Inv
<1> QED BY InitInv, InvStep, <1>1, PTL DEF Spec
-----------------------------------------------------------------------------
(* The traversal of a pool that lies in its order.                         *)

Numbers(a, b) == [i \in 1 .. b - a + 1 |-> a + i - 1]

(* e tells of every node the last one under it: children follow each other *)
(* without a gap, each after all that is under the one before.             *)
SpanAt(e, c, n) ==
  /\ e[n] >= n
  /\ e[n] = IF c[n] = <<>> THEN n ELSE e[c[n][Len(c[n])]]
  /\ \A k \in 1 .. Len(c[n]) : c[n][k] = IF k = 1 THEN n + 1 ELSE e[c[n][k - 1]] + 1

SpanOf(e, u, c) == e \in [1 .. u -> 1 .. u] /\ \A n \in 1 .. u : SpanAt(e, c, n)

(* Children are in the pool, behind their parents.                         *)
YoungerOf(u, c) ==
  /\ u \in Nat \ {0}
  /\ \A n \in 1 .. u : /\ c[n] \in Seq(Nat) /\ Len(c[n]) \in Nat /\ (c[n] = <<>> <=> Len(c[n]) = 0)
                       /\ \A k \in 1 .. Len(c[n]) : c[n][k] \in n + 1 .. u

Span(e) == SpanOf(e, used, children)
Younger == YoungerOf(used, children)

LEMMA JoinOf ==
  ASSUME NEW s \in Seq(Nat), NEW t \in Seq(Nat)
  PROVE  /\ s \o t \in Seq(Nat) /\ Len(s \o t) = Len(s) + Len(t)
         /\ \A i \in 1 .. Len(s) + Len(t) :
              (s \o t)[i] = IF i <= Len(s) THEN s[i] ELSE t[i - Len(s)]
OBVIOUS

(* The numbers up to b, and those after it.                                *)
LEMMA NumbersJoin ==
  ASSUME NEW a \in Nat, NEW b \in Nat, NEW c \in Nat, a <= b + 1, b <= c
  PROVE  Numbers(a, b) \o Numbers(b + 1, c) = Numbers(a, c)
<1> DEFINE s == Numbers(a, b)
           t == Numbers(b + 1, c)
           m == b - a + 1
           n == c - b
<1>1. m \in Nat /\ n \in Nat /\ c - a + 1 = m + n /\ c - (b + 1) + 1 = n
  OBVIOUS
<1>2. s \in Seq(Nat) /\ Len(s) = m /\ \A i \in 1 .. m : s[i] = a + i - 1
  BY <1>1 DEF Numbers
<1>3. t \in Seq(Nat) /\ Len(t) = n /\ \A i \in 1 .. n : t[i] = b + i
  BY <1>1 DEF Numbers
<1>a. \A i \in 1 .. m + n : /\ i <= m => i \in 1 .. m
                            /\ ~(i <= m) => i - m \in 1 .. n /\ b + (i - m) = a + i - 1
  BY <1>1
<1> DEFINE u == s \o t
<1> HIDE DEF s, t, m, n
<1>4. /\ u \in Seq(Nat) /\ Len(u) = m + n
      /\ \A i \in 1 .. m + n : u[i] = IF i <= m THEN s[i] ELSE t[i - m]
  BY <1>2, <1>3, JoinOf
<1>5. \A i \in 1 .. m + n : u[i] = a + i - 1
  BY <1>2, <1>3, <1>4, <1>a
<1> HIDE DEF u
<1>6. u = [i \in 1 .. m + n |-> u[i]]
  BY <1>4
<1>7. u = [i \in 1 .. m + n |-> a + i - 1]
  BY <1>5, <1>6
<1> QED BY <1>1, <1>7 DEF u, s, t, Numbers

(* r holds what has been visited after each child of n.                    *)
Rest(r, v, n) ==
  r = [k \in 0 .. Len(children[n]) |->
        IF k = 0 THEN <<n>> ELSE r[k - 1] \o v[children[n][k]]]

LEMMA RestUnique ==
  ASSUME NEW n, Len(children[n]) \in Nat, NEW v, NEW r, NEW g, Rest(r, v, n), Rest(g, v, n)
  PROVE  r = g
<1> DEFINE m == Len(children[n])
           S == {k \in Nat : k <= m => r[k] = g[k]}
<1>1. \A k \in 0 .. m : /\ r[k] = IF k = 0 THEN <<n>> ELSE r[k - 1] \o v[children[n][k]]
                        /\ g[k] = IF k = 0 THEN <<n>> ELSE g[k - 1] \o v[children[n][k]]
  BY DEF Rest
<1>2. 0 \in S
  <2>1. 0 \in 0 .. m
    OBVIOUS
  <2> QED BY <1>1, <2>1
<1>3. ASSUME NEW k \in Nat, k \in S PROVE k + 1 \in S
  <2> SUFFICES ASSUME k + 1 <= m PROVE r[k + 1] = g[k + 1]
    OBVIOUS
  <2>1. k <= m /\ k + 1 \in 0 .. m /\ k + 1 # 0 /\ (k + 1) - 1 = k
    OBVIOUS
  <2>2. r[k] = g[k]
    BY <1>3, <2>1
  <2> HIDE DEF S
  <2> QED BY <1>1, <2>1, <2>2
<1> HIDE DEF S
<1>4. \A k \in Nat : k \in S
  BY <1>2, <1>3, NatSetInduction
<1>5. \A k \in 0 .. m : r[k] = g[k]
  BY <1>4 DEF S
<1>6. r = [k \in 0 .. m |-> r[k]] /\ g = [k \in 0 .. m |-> g[k]]
  BY DEF Rest
<1> QED BY <1>5, <1>6

LEMMA VisitOfRest ==
  ASSUME NEW n, Len(children[n]) \in Nat, NEW v, NEW g, Rest(g, v, n)
  PROVE  VisitOf(v, n) = g[Len(children[n])]
<1> DEFINE rest == CHOOSE r : Rest(r, v, n)
<1>1. Rest(rest, v, n)
  OBVIOUS
<1>2. VisitOf(v, n) = rest[Len(children[n])]
  BY DEF VisitOf, Rest
<1> HIDE DEF rest
<1>3. rest = g
  BY <1>1, RestUnique
<1> QED BY <1>2, <1>3

(* Visiting n, if visiting the younger nodes is as it should be.           *)
LEMMA VisitOfIs ==
  ASSUME Younger, NEW e, Span(e), NEW n \in 1 .. used, NEW v,
         \A c \in n + 1 .. used : v[c] = Numbers(c, e[c])
  PROVE  VisitOf(v, n) = Numbers(n, e[n])
<1> DEFINE m == Len(children[n])
           to(k) == IF k = 0 THEN n ELSE e[children[n][k]]
           g == [k \in 0 .. m |-> Numbers(n, to(k))]
<1>1. m \in Nat /\ n \in Nat /\ used \in Nat
  BY DEF Younger, YoungerOf
<1>2. ASSUME NEW k \in 1 .. m
      PROVE  /\ children[n][k] \in n + 1 .. used /\ children[n][k] = to(k - 1) + 1
             /\ to(k) = e[children[n][k]] /\ to(k) >= children[n][k] /\ to(k) \in Nat /\ to(k - 1) \in Nat
  <2>1. children[n][k] \in n + 1 .. used
    BY DEF Younger, YoungerOf
  <2>2. children[n][k] \in 1 .. used /\ k # 0
    BY <1>1, <2>1
  <2>3. to(k) = e[children[n][k]] /\ e[children[n][k]] >= children[n][k] /\ e[children[n][k]] \in Nat
    BY <1>1, <2>2 DEF Span, SpanOf, SpanAt
  <2>4. children[n][k] = to(k - 1) + 1 /\ to(k - 1) \in Nat
    <3>1. CASE k = 1
      BY <1>1, <3>1 DEF Span, SpanOf, SpanAt
    <3>2. CASE k # 1
      <4>1. k - 1 \in 1 .. m /\ k - 1 # 0
        BY <1>1, <3>2
      <4>2. children[n][k - 1] \in 1 .. used
        BY <1>1, <4>1 DEF Younger, YoungerOf
      <4>3. e[children[n][k - 1]] \in Nat
        BY <4>2 DEF Span, SpanOf, SpanAt
      <4> QED BY <3>2, <4>1, <4>3 DEF Span, SpanOf, SpanAt
    <3> QED BY <3>1, <3>2
  <2> QED BY <2>1, <2>3, <2>4
<1>3. ASSUME NEW k \in 1 .. m PROVE Numbers(n, to(k)) = Numbers(n, to(k - 1)) \o v[children[n][k]]
  <2> DEFINE c == children[n][k]
             a == to(k - 1)
             b == to(k)
  <2>1. c \in n + 1 .. used /\ c = a + 1 /\ b = e[c] /\ b >= c /\ a \in Nat /\ b \in Nat
    BY <1>2
  <2> HIDE DEF c, a, b
  <2>2. n <= a + 1 /\ a <= b
    BY <1>1, <2>1
  <2>3. Numbers(n, a) \o Numbers(a + 1, b) = Numbers(n, b)
    BY <1>1, <2>1, <2>2, NumbersJoin
  <2>4. v[c] = Numbers(a + 1, b)
    BY <2>1
  <2>5. Numbers(n, b) = Numbers(n, a) \o v[c]
    BY <2>3, <2>4
  <2> QED BY <2>5 DEF a, b, c
<1>4. Numbers(n, to(0)) = <<n>>
  <2>1. to(0) = n /\ n - n + 1 = 1
    BY <1>1
  <2>2. Numbers(n, n) = [i \in 1 .. 1 |-> n + i - 1]
    BY <2>1 DEF Numbers
  <2>3. <<n>> = [i \in 1 .. 1 |-> n]
    OBVIOUS
  <2>4. \A i \in 1 .. 1 : n + i - 1 = n
    BY <1>1
  <2>5. [i \in 1 .. 1 |-> n + i - 1] = [i \in 1 .. 1 |-> n]
    BY <2>4
  <2> QED BY <2>1, <2>2, <2>3, <2>5
<1>5. Rest(g, v, n)
  <2>1. ASSUME NEW k \in 0 .. m
        PROVE  g[k] = IF k = 0 THEN <<n>> ELSE g[k - 1] \o v[children[n][k]]
    <3>1. CASE k = 0
      BY <1>4, <3>1
    <3>2. CASE k # 0
      <4>1. k \in 1 .. m /\ k - 1 \in 0 .. m
        BY <1>1, <3>2
      <4>2. g[k] = Numbers(n, to(k)) /\ g[k - 1] = Numbers(n, to(k - 1))
        BY <4>1
      <4> HIDE DEF g, to
      <4> QED BY <1>3, <3>2, <4>1, <4>2
    <3> QED BY <3>1, <3>2
  <2>2. g = [k \in 0 .. m |-> g[k]]
    OBVIOUS
  <2> HIDE DEF g
  <2> QED BY <2>1, <2>2 DEF Rest
<1>6. VisitOf(v, n) = g[m]
  <2> HIDE DEF g
  <2> QED BY <1>1, <1>5, VisitOfRest
<1>7. to(m) = e[n]
  <2>1. children[n] = <<>> <=> m = 0
    BY DEF Younger, YoungerOf
  <2> QED BY <2>1 DEF Span, SpanOf, SpanAt
<1>8. g[m] = Numbers(n, to(m))
  BY <1>1
<1> HIDE DEF g, to, m
<1> QED BY <1>6, <1>7, <1>8

VisitsAll(v) == v = [n \in 1 .. used |-> VisitOf(v, n)]

LEMMA VisitsUnique ==
  ASSUME Younger, NEW e, Span(e), NEW v, VisitsAll(v)
  PROVE  \A n \in 1 .. used : v[n] = Numbers(n, e[n])
<1> DEFINE S == {i \in Nat : \A n \in 1 .. used : n + i >= used => v[n] = Numbers(n, e[n])}
<1>0. used \in Nat
  BY DEF Younger, YoungerOf
<1>1. ASSUME NEW n \in 1 .. used, \A c \in n + 1 .. used : v[c] = Numbers(c, e[c])
      PROVE  v[n] = Numbers(n, e[n])
  <2>1. v[n] = VisitOf(v, n)
    BY DEF VisitsAll
  <2> QED BY <1>1, <2>1, VisitOfIs
<1>2. 0 \in S
  <2> SUFFICES ASSUME NEW n \in 1 .. used, n + 0 >= used PROVE v[n] = Numbers(n, e[n])
    OBVIOUS
  <2>1. n + 1 .. used = {}
    BY <1>0
  <2> QED BY <1>1, <2>1
<1>3. ASSUME NEW i \in Nat, i \in S PROVE i + 1 \in S
  <2> SUFFICES ASSUME NEW n \in 1 .. used, n + (i + 1) >= used PROVE v[n] = Numbers(n, e[n])
    OBVIOUS
  <2>1. ASSUME NEW c \in n + 1 .. used PROVE v[c] = Numbers(c, e[c])
    <3>1. c \in 1 .. used /\ c + i >= used
      BY <1>0
    <3> QED BY <1>3, <3>1
  <2> QED BY <1>1, <2>1
<1> HIDE DEF S
<1>4. \A i \in Nat : i \in S
  BY <1>2, <1>3, NatSetInduction
<1>5. used \in S /\ \A n \in 1 .. used : n + used >= used
  BY <1>0, <1>4
<1> QED BY <1>5 DEF S

(* A traversal is defined, and it counts through the pool.                 *)
LEMMA VisitsNumbers ==
  ASSUME Younger, NEW e, Span(e)
  PROVE  Visits = Numbers(1, e[1])
<1> DEFINE w == [n \in 1 .. used |-> Numbers(n, e[n])]
           visit == CHOOSE v : VisitsAll(v)
<1>0. used \in Nat \ {0} /\ 1 \in 1 .. used
  BY DEF Younger, YoungerOf
<1>1. VisitsAll(w)
  <2>1. ASSUME NEW n \in 1 .. used PROVE VisitOf(w, n) = Numbers(n, e[n])
    <3>1. \A c \in n + 1 .. used : w[c] = Numbers(c, e[c])
      <4>1. \A c \in n + 1 .. used : c \in 1 .. used
        BY <1>0
      <4> QED BY <4>1
    <3> HIDE DEF w
    <3> QED BY <3>1, VisitOfIs
  <2>2. w = [n \in 1 .. used |-> w[n]] /\ \A n \in 1 .. used : w[n] = VisitOf(w, n)
    BY <2>1
  <2> HIDE DEF w
  <2> QED BY <2>2 DEF VisitsAll
<1>2. VisitsAll(visit)
  <2> HIDE DEF w
  <2> QED BY <1>1
<1>3. Visits = visit[1]
  BY DEF Visits, VisitsAll
<1> HIDE DEF visit
<1> QED BY <1>0, <1>2, <1>3, VisitsUnique

-----------------------------------------------------------------------------
(* The pool lies in the order of the traversal, from the first node on.    *)

Innermost == IF stmt # 0 THEN stmt ELSE IF block # 0 THEN block ELSE IF fun # 0 THEN fun ELSE 1

(* A node under construction comes right after what is under the one that  *)
(* it will be a child of, and all that was built last is under it.         *)
Laid(e) ==
  /\ Span(e)
  /\ fun # 0 => fun = e[1] + 1
  /\ block # 0 => block = e[fun] + 1
  /\ stmt # 0 => stmt = e[block] + 1
  /\ e[Innermost] = used

PoolInOrder == Parsing /\ pc # "overrun" => \E e : Laid(e)

LEMMA ChildIn ==
  ASSUME NEW u, NEW c, YoungerOf(u, c), NEW n \in 1 .. u
  PROVE  /\ u \in Nat /\ Len(c[n]) \in Nat
         /\ c[n] # <<>> => Len(c[n]) \in 1 .. Len(c[n])
         /\ \A k \in 1 .. Len(c[n]) : c[n][k] \in 1 .. u /\ (k # 1 => k - 1 \in 1 .. Len(c[n]))
<1>1. /\ u \in Nat /\ Len(c[n]) \in Nat /\ (c[n] = <<>> <=> Len(c[n]) = 0)
      /\ \A k \in 1 .. Len(c[n]) : c[n][k] \in n + 1 .. u
  BY DEF YoungerOf
<1>2. \A k \in n + 1 .. u : k \in 1 .. u
  BY <1>1
<1> DEFINE L == Len(c[n])
<1>3. (L # 0 => L \in 1 .. L) /\ \A k \in 1 .. L : k # 1 => k - 1 \in 1 .. L
  BY <1>1
<1> QED BY <1>1, <1>2, <1>3

(* What is under a node depends on its children and what is under them.    *)
LEMMA SpanAtSame ==
  ASSUME NEW u, NEW c, YoungerOf(u, c), NEW n \in 1 .. u, NEW e, SpanAt(e, c, n),
         NEW f, f[n] = e[n], NEW d, d[n] = c[n],
         \A k \in 1 .. Len(c[n]) : f[c[n][k]] = e[c[n][k]]
  PROVE  SpanAt(f, d, n)
<1>1. /\ c[n] # <<>> => Len(c[n]) \in 1 .. Len(c[n])
      /\ \A k \in 1 .. Len(c[n]) : k # 1 => k - 1 \in 1 .. Len(c[n])
  BY ChildIn
<1>2. f[n] = IF d[n] = <<>> THEN n ELSE f[d[n][Len(d[n])]]
  <2>1. CASE c[n] = <<>>
    BY <2>1 DEF SpanAt
  <2>2. CASE c[n] # <<>>
    BY <1>1, <2>2 DEF SpanAt
  <2> QED BY <2>1, <2>2
<1>3. ASSUME NEW k \in 1 .. Len(c[n])
      PROVE  c[n][k] = IF k = 1 THEN n + 1 ELSE f[c[n][k - 1]] + 1
  <2>1. c[n][k] = IF k = 1 THEN n + 1 ELSE e[c[n][k - 1]] + 1
    BY DEF SpanAt
  <2>2. k # 1 => f[c[n][k - 1]] = e[c[n][k - 1]]
    BY <1>1
  <2> QED BY <2>1, <2>2
<1>4. f[n] >= n
  BY DEF SpanAt
<1> QED BY <1>2, <1>3, <1>4 DEF SpanAt

(* A node that is allocated has nothing under it.                          *)
LEMMA SpanAlloc ==
  ASSUME NEW u, NEW c, YoungerOf(u, c), NEW e, SpanOf(e, u, c), c[u + 1] = <<>>
  PROVE  \E f : /\ SpanOf(f, u + 1, c) /\ f[u + 1] = u + 1
                /\ \A n \in 1 .. u : f[n] = e[n]
<1> DEFINE f == [n \in 1 .. u + 1 |-> IF n = u + 1 THEN n ELSE e[n]]
<1>1. /\ u \in Nat /\ u + 1 \in 1 .. u + 1 /\ u + 1 \in Nat
      /\ \A n \in 1 .. u : n \in 1 .. u + 1 /\ n # u + 1
      /\ \A n \in 1 .. u + 1 : n \in 1 .. u \/ n = u + 1
  BY DEF YoungerOf
<1>2. f[u + 1] = u + 1 /\ \A n \in 1 .. u : f[n] = e[n]
  BY <1>1
<1>3. f \in [1 .. u + 1 -> 1 .. u + 1]
  BY <1>1 DEF SpanOf
<1> HIDE DEF f
<1>4. ASSUME NEW n \in 1 .. u PROVE SpanAt(f, c, n)
  <2>1. SpanAt(e, c, n)
    BY DEF SpanOf
  <2>2. \A k \in 1 .. Len(c[n]) : f[c[n][k]] = e[c[n][k]]
    BY <1>2, ChildIn
  <2> QED BY <1>2, <2>1, <2>2, SpanAtSame
<1>5. SpanAt(f, c, u + 1)
  <2>1. Len(c[u + 1]) = 0 /\ 1 .. 0 = {} /\ u + 1 >= u + 1
    BY <1>1
  <2> QED BY <1>2, <2>1 DEF SpanAt
<1>6. SpanOf(f, u + 1, c)
  BY <1>1, <1>3, <1>4, <1>5 DEF SpanOf
<1> QED BY <1>2, <1>6

LEMMA AppendOf ==
  ASSUME NEW s \in Seq(Nat), NEW x \in Nat
  PROVE  /\ Len(Append(s, x)) = Len(s) + 1 /\ Append(s, x) # <<>>
         /\ Append(s, x)[Len(s) + 1] = x
         /\ \A k \in 1 .. Len(s) : Append(s, x)[k] = s[k]
<1>1. Append(s, x) \in Seq(Nat) /\ Len(Append(s, x)) = Len(s) + 1 /\ Len(s) \in Nat
  OBVIOUS
<1>2. Append(s, x)[Len(s) + 1] = x
  OBVIOUS
<1>3. \A k \in 1 .. Len(s) : Append(s, x)[k] = s[k]
  OBVIOUS
<1>4. Append(s, x) # <<>>
  BY <1>1
<1> QED BY <1>1, <1>2, <1>3, <1>4

(* A node that gets a child, the one after all that was under it.          *)
Joins(u, c, e, node, child, d) ==
  /\ YoungerOf(u, c) /\ SpanOf(e, u, c)
  /\ node \in 1 .. u /\ child \in 1 .. u /\ child = e[node] + 1
  /\ \A n \in 1 .. u : \A k \in 1 .. Len(c[n]) : c[n][k] # node
  /\ d[node] = Append(c[node], child) /\ \A n \in 1 .. u : n # node => d[n] = c[n]

LEMMA SpanLink ==
  ASSUME NEW u, NEW c, NEW e, NEW node, NEW child, NEW d, Joins(u, c, e, node, child, d)
  PROVE  \E f : /\ SpanOf(f, u, d) /\ f[node] = e[child]
                /\ \A n \in 1 .. u : n # node => f[n] = e[n]
<1> USE DEF Joins
<1> DEFINE f == [e EXCEPT ![node] = e[child]]
           s == c[node]
           L == Len(c[node])
<1>1. u \in Nat /\ e \in [1 .. u -> 1 .. u] /\ SpanAt(e, c, node) /\ SpanAt(e, c, child)
  BY DEF YoungerOf, SpanOf
<1>2. /\ f \in [1 .. u -> 1 .. u] /\ f[node] = e[child]
      /\ \A n \in 1 .. u : n # node => f[n] = e[n]
  BY <1>1
<1>3. e[child] >= node /\ child # node /\ e[node] \in Nat
  <2>1. e[child] \in 1 .. u /\ e[node] \in 1 .. u
    BY <1>1
  <2>2. e[child] >= child /\ e[node] >= node
    BY <1>1 DEF SpanAt
  <2> DEFINE a == e[node]
             b == e[child]
  <2>a. \A x \in 1 .. u : x \in Nat
    BY <1>1
  <2>3. a \in Nat /\ b \in Nat /\ node \in Nat /\ child = a + 1 /\ b >= child /\ a >= node
    BY <2>1, <2>2, <2>a
  <2> HIDE DEF a, b
  <2>4. b >= node /\ child # node /\ a \in Nat
    BY <2>3
  <2> QED BY <2>4 DEF a, b
<1> HIDE DEF f
<1>4. ASSUME NEW n \in 1 .. u, n # node PROVE SpanAt(f, d, n)
  <2>1. SpanAt(e, c, n) /\ d[n] = c[n] /\ f[n] = e[n]
    BY <1>2, <1>4 DEF SpanOf
  <2>2. \A k \in 1 .. Len(c[n]) : f[c[n][k]] = e[c[n][k]]
    <3>1. \A k \in 1 .. Len(c[n]) : c[n][k] \in 1 .. u /\ c[n][k] # node
      BY ChildIn
    <3> QED BY <1>2, <3>1
  <2> QED BY <2>1, <2>2, SpanAtSame
<1>5. /\ L \in Nat /\ (L # 0 => L \in 1 .. L) /\ (s = <<>> <=> L = 0)
      /\ \A k \in 1 .. L : s[k] \in 1 .. u /\ s[k] # node /\ (k # 1 => k - 1 \in 1 .. L)
  <2>1. L \in Nat /\ (s = <<>> <=> L = 0)
    BY DEF YoungerOf
  <2> QED BY <2>1, ChildIn
<1>6. /\ Len(d[node]) = L + 1 /\ d[node] # <<>> /\ d[node][L + 1] = child
      /\ \A k \in 1 .. L : d[node][k] = s[k]
  <2>1. s \in Seq(Nat)
    BY DEF YoungerOf
  <2>a. child \in Nat
    BY <1>1
  <2>2. d[node] = Append(s, child) /\ L = Len(s)
    OBVIOUS
  <2> HIDE DEF s, L
  <2>3. /\ Len(Append(s, child)) = Len(s) + 1 /\ Append(s, child) # <<>>
        /\ Append(s, child)[Len(s) + 1] = child
        /\ \A k \in 1 .. Len(s) : Append(s, child)[k] = s[k]
    BY <2>1, <2>a, AppendOf
  <2> QED BY <2>2, <2>3
<1>7. /\ e[node] = IF s = <<>> THEN node ELSE e[s[L]]
      /\ \A k \in 1 .. L : s[k] = IF k = 1 THEN node + 1 ELSE e[s[k - 1]] + 1
  BY <1>1 DEF SpanAt
<1>8. \A k \in 1 .. L : f[s[k]] = e[s[k]]
  BY <1>2, <1>5
<1> HIDE DEF s, L
<1>9. ASSUME NEW k \in 1 .. L + 1
      PROVE  d[node][k] = IF k = 1 THEN node + 1 ELSE f[d[node][k - 1]] + 1
  <2>1. CASE k \in 1 .. L
    <3>1. k # 1 => k - 1 \in 1 .. L /\ d[node][k - 1] = s[k - 1] /\ f[s[k - 1]] = e[s[k - 1]]
      BY <1>5, <1>6, <1>8, <2>1
    <3>2. d[node][k] = s[k] /\ s[k] = IF k = 1 THEN node + 1 ELSE e[s[k - 1]] + 1
      BY <1>6, <1>7, <2>1
    <3> QED BY <3>1, <3>2
  <2>2. CASE k = L + 1 /\ L = 0
    <3>1. k = 1 /\ d[node][k] = child /\ e[node] = node
      BY <1>5, <1>6, <1>7, <2>2
    <3> QED BY <3>1
  <2>3. CASE k = L + 1 /\ L # 0
    <3>1. k - 1 = L /\ L \in 1 .. L /\ k # 1 /\ s # <<>>
      BY <1>5, <2>3
    <3>2. e[node] = e[s[L]] /\ d[node][k - 1] = s[L] /\ f[s[L]] = e[s[L]] /\ d[node][k] = child
      BY <1>6, <1>7, <1>8, <2>3, <3>1
    <3> QED BY <3>1, <3>2
  <2>4. k \in 1 .. L \/ k = L + 1
    BY <1>5
  <2> QED BY <2>1, <2>2, <2>3, <2>4
<1>10. SpanAt(f, d, node)
  <2>1. f[node] = f[d[node][Len(d[node])]]
    BY <1>2, <1>3, <1>6
  <2>2. f[node] >= node
    BY <1>2, <1>3
  <2> QED BY <1>6, <1>9, <2>1, <2>2 DEF SpanAt
<1>11. SpanOf(f, u, d)
  BY <1>2, <1>4, <1>10 DEF SpanOf
<1> QED BY <1>2, <1>11

(* What the invariant says of the pool during a parse.                     *)
LEMMA PoolFacts ==
  ASSUME Inv, Parsing, pc \notin {"overrun", "spinning"}
  PROVE  /\ Younger /\ used \in Nat /\ used \in 1 .. maxNodes /\ maxNodes \in Nat
         /\ \A n \in 1 .. used : \A k \in 1 .. Len(children[n]) : parent[children[n][k]] = n
         /\ children \in [Nodes -> Seq(Nodes)] /\ parent[1] = 0
         /\ \A n \in Nodes : n > used => children[n] = <<>>
         /\ fun # 0 => fun \in 2 .. used /\ parent[fun] = 0
         /\ block # 0 => block \in 2 .. used /\ parent[block] = 0 /\ fun # 0 /\ fun < block
         /\ stmt # 0 => stmt \in 2 .. used /\ parent[stmt] = 0 /\ block # 0 /\ block < stmt
<1>1. /\ PoolType /\ Blank /\ Frames /\ pc \in Pcs /\ Tree({fun, block, stmt})
  BY Apart
<1>2. used \in Nat /\ used \in 1 .. maxNodes /\ maxNodes \in Nat /\ parent[1] = 0
  <2>1. used \in 1 .. maxNodes /\ parent[1] = 0
    BY <1>1 DEF Frames
  <2>2. maxNodes \in Nat
    BY <1>1 DEF PoolType
  <2> QED BY <2>1, <2>2
<1>3. children \in [Nodes -> Seq(Nodes)] /\ \A n \in 1 .. used : n \in Nodes
  BY <1>1, <1>2 DEF PoolType, Nodes
<1>4. \A n \in 1 .. used : \A k \in 1 .. Len(children[n]) : k \in DOMAIN children[n]
  BY <1>3
<1>5. \A n \in 1 .. used : \A k \in 1 .. Len(children[n]) :
        /\ children[n][k] \in 2 .. used /\ parent[children[n][k]] = n
        /\ n < children[n][k]
  <2> TAKE n \in 1 .. used
  <2> TAKE k \in 1 .. Len(children[n])
  <2>1. children[n][k] \in 2 .. used /\ parent[children[n][k]] = n
    BY <1>1, <1>4 DEF Tree, TreeOf
  <2>2. children[n][k] \in 1 .. used /\ n # 0
    BY <2>1
  <2>3. parent[children[n][k]] < children[n][k]
    BY <1>1, <2>1, <2>2 DEF Tree, TreeOf
  <2> QED BY <2>1, <2>3
<1>6. Younger
  <2>1. \A n \in 1 .. used : /\ Len(children[n]) \in Nat /\ (children[n] = <<>> <=> Len(children[n]) = 0)
                             /\ children[n] \in Seq(Nat)
    <3> TAKE n \in 1 .. used
    <3>1. children[n] \in Seq(Nodes) /\ \A m \in Nodes : m \in Nat
      BY <1>2, <1>3 DEF Nodes
    <3> QED BY <3>1
  <2>2. \A n \in 1 .. used : \A k \in 1 .. Len(children[n]) : children[n][k] \in n + 1 .. used
    BY <1>2, <1>5
  <2> QED BY <1>2, <2>1, <2>2 DEF Younger, YoungerOf
<1>7. fun # 0 => pc \in InFunction
  BY <1>1 DEF Frames
<1>8. block # 0 => pc \in InBlock /\ pc \in InFunction
  BY <1>1 DEF Frames, InBlock, InFunction
<1>9. stmt # 0 => pc \in InStatement /\ pc \in InBlock
  BY <1>1 DEF Frames, InBlock, InStatement
<1>10. fun # 0 => fun \in 2 .. used /\ parent[fun] = 0
  BY <1>1, <1>7 DEF Frames, Building
<1>11. block # 0 => block \in 2 .. used /\ parent[block] = 0 /\ fun # 0 /\ fun < block
  <2>1. block # 0 => Building(fun, block) /\ Building(1, fun)
    BY <1>1, <1>8 DEF Frames, InBlock
  <2>2. Building(1, fun) => fun # 0
    BY <1>2 DEF Building
  <2> QED BY <2>1, <2>2 DEF Building
<1>12. stmt # 0 => stmt \in 2 .. used /\ parent[stmt] = 0 /\ block # 0 /\ block < stmt
  <2>1. stmt # 0 => Building(block, stmt) /\ Building(fun, block)
    BY <1>1, <1>9 DEF Frames, InStatement
  <2>2. Building(fun, block) => block # 0
    BY <1>2 DEF Building
  <2> QED BY <2>1, <2>2 DEF Building
<1> QED BY <1>1, <1>2, <1>3, <1>5, <1>6, <1>10, <1>11, <1>12 DEF Blank

LEMMA BuildingIs == \A n, c : Building(n, c) => c # 0
BY DEF Building

LEMMA LaidSame ==
  ASSUME NEW e, Laid(e), UNCHANGED <<used, children, fun, block, stmt>>
  PROVE  Laid(e)'
BY DEF Laid, Span, SpanOf, SpanAt, Innermost

(* A node from the pool, under construction.                               *)
LEMMA LaidBegins ==
  ASSUME Inv, PoolInOrder, UNCHANGED <<maxNodes, links>>,
         \/ /\ pc = "program" /\ pc' = "function"
            /\ Allocate("FUNCTION") /\ fun' = used + 1 /\ UNCHANGED <<block, stmt>>
         \/ /\ pc = "body" /\ pc' = "block"
            /\ Allocate("BLOCK") /\ block' = used + 1 /\ UNCHANGED <<fun, stmt>>
         \/ /\ pc = "block" /\ pc' = "statement"
            /\ Allocate("STATEMENT") /\ stmt' = used + 1 /\ UNCHANGED <<fun, block>>
  PROVE  PoolInOrder'
<1>1. Parsing /\ pc # "overrun" /\ pc \in {"program", "body", "block"}
  BY DEF Parsing
<1>2. PICK e : Laid(e)
  BY <1>1 DEF PoolInOrder
<1>3. /\ used' = used + 1 /\ children' = children /\ used < maxNodes
      /\ \/ pc = "program" /\ fun' = used + 1 /\ block' = block /\ stmt' = stmt
         \/ pc = "body" /\ fun' = fun /\ block' = used + 1 /\ stmt' = stmt
         \/ pc = "block" /\ fun' = fun /\ block' = block /\ stmt' = used + 1
  BY DEF links, Allocate, Room
<1>4. /\ Younger /\ used \in Nat /\ 1 \in 1 .. used /\ used + 1 # 0
      /\ children[used + 1] = <<>>
      /\ fun # 0 => fun \in 1 .. used
      /\ block # 0 => block \in 1 .. used
  <2>1. /\ used \in Nat /\ used \in 1 .. maxNodes /\ maxNodes \in Nat /\ Younger
        /\ \A n \in Nodes : n > used => children[n] = <<>>
        /\ fun # 0 => fun \in 2 .. used
        /\ block # 0 => block \in 2 .. used
    BY <1>1, PoolFacts
  <2>2. used + 1 \in Nodes /\ used + 1 > used
    BY <1>3, <2>1 DEF Nodes
  <2> QED BY <2>1, <2>2
<1>5. /\ pc = "program" => fun = 0 /\ block = 0 /\ stmt = 0
      /\ pc = "body" => fun # 0 /\ block = 0 /\ stmt = 0
      /\ pc = "block" => fun # 0 /\ block # 0 /\ stmt = 0
  <2>1. /\ Frames /\ PoolType
    BY Apart
  <2>2. pc \notin InStatement /\ (pc \in {"program", "body"} => pc \notin InBlock)
        /\ (pc = "program" => pc \notin InFunction) /\ (pc \in {"body", "block"} => pc \in InFunction)
        /\ (pc = "block" => pc \in InBlock)
    BY <1>1 DEF InFunction, InBlock, InStatement
  <2>3. stmt = 0 /\ (pc \in {"program", "body"} => block = 0) /\ (pc = "program" => fun = 0)
    BY <1>1, <2>1, <2>2 DEF Frames
  <2>4. pc \in {"body", "block"} => fun # 0
    BY <2>1, <2>2, BuildingIs DEF Frames
  <2>5. pc = "block" => block # 0
    BY <2>1, <2>2, BuildingIs DEF Frames
  <2> QED BY <2>3, <2>4, <2>5
<1>6. SpanOf(e, used, children)
  BY <1>2 DEF Laid, Span
<1>7. PICK f : /\ SpanOf(f, used + 1, children) /\ f[used + 1] = used + 1
               /\ \A n \in 1 .. used : f[n] = e[n]
  BY <1>4, <1>6, SpanAlloc DEF Younger
<1>8. /\ fun # 0 => fun = e[1] + 1
      /\ block # 0 => block = e[fun] + 1
      /\ e[Innermost] = used
  BY <1>2 DEF Laid
<1>9. f[1] = e[1] /\ (fun # 0 => f[fun] = e[fun]) /\ (block # 0 => f[block] = e[block])
  BY <1>4, <1>7
<1>10. Laid(f)'
  <2>1. Span(f)'
    BY <1>3, <1>7 DEF Span
  <2>2. /\ fun' # 0 => fun' = f[1] + 1
        /\ block' # 0 => block' = f[fun'] + 1
        /\ stmt' # 0 => stmt' = f[block'] + 1
        /\ f[Innermost'] = used'
    <3>1. CASE pc = "program"
      BY <1>3, <1>4, <1>5, <1>7, <1>8, <1>9, <3>1 DEF Innermost
    <3>2. CASE pc = "body"
      BY <1>3, <1>4, <1>5, <1>7, <1>8, <1>9, <3>2 DEF Innermost
    <3>3. CASE pc = "block"
      BY <1>3, <1>4, <1>5, <1>7, <1>8, <1>9, <3>3 DEF Innermost
    <3> QED BY <1>1, <3>1, <3>2, <3>3
  <2> QED BY <2>1, <2>2 DEF Laid
<1> QED BY <1>10 DEF PoolInOrder

(* A node that is built gets its parent.                                   *)
LEMMA LaidLinks ==
  ASSUME Inv, PoolInOrder, UNCHANGED <<maxNodes, used>>, NEW node, NEW child, Attach(node, child)
  PROVE  PoolInOrder'
<1>1. Parsing /\ pc # "overrun" /\ pc \in {"statement done", "block", "function done"}
  BY DEF Parsing, Attach
<1>2. PICK e : Laid(e)
  BY <1>1 DEF PoolInOrder
<1>3. /\ used' = used /\ children' = [children EXCEPT ![node] = Append(@, child)]
      /\ \/ /\ pc = "statement done" /\ node = block /\ child = stmt
            /\ fun' = fun /\ block' = block /\ stmt' = 0
         \/ /\ pc = "block" /\ node = fun /\ child = block
            /\ fun' = fun /\ block' = 0 /\ stmt' = stmt
         \/ /\ pc = "function done" /\ node = 1 /\ child = fun
            /\ fun' = 0 /\ block' = block /\ stmt' = stmt
  BY DEF Attach, Link
<1>4. /\ Younger /\ used \in Nat /\ 1 \in 1 .. used /\ parent[1] = 0
      /\ \A n \in 1 .. used : \A k \in 1 .. Len(children[n]) : parent[children[n][k]] = n
      /\ DOMAIN children = Nodes /\ \A n \in 1 .. used : n \in Nodes
      /\ fun # 0 => fun \in 2 .. used /\ parent[fun] = 0
      /\ block # 0 => block \in 2 .. used /\ parent[block] = 0 /\ fun # 0 /\ fun < block
      /\ stmt # 0 => stmt \in 2 .. used /\ parent[stmt] = 0 /\ block # 0 /\ block < stmt
  <2>1. used \in Nat /\ used \in 1 .. maxNodes /\ maxNodes \in Nat
    BY <1>1, PoolFacts
  <2>2. 1 \in 1 .. used /\ \A n \in 1 .. used : n \in Nodes
    BY <2>1 DEF Nodes
  <2> QED BY <1>1, <2>1, <2>2, PoolFacts
<1>5. /\ pc = "statement done" => stmt # 0
      /\ pc = "block" => block # 0 /\ stmt = 0
      /\ pc = "function done" => fun # 0 /\ block = 0 /\ stmt = 0
  <2>1. Frames
    BY Apart
  <2>2. /\ pc = "statement done" => pc \in InStatement
        /\ pc = "block" => pc \in InBlock /\ pc \notin InStatement
        /\ pc = "function done" => pc \in InFunction /\ pc \notin InBlock /\ pc \notin InStatement
    BY DEF InFunction, InBlock, InStatement
  <2>3. /\ pc = "block" => stmt = 0
        /\ pc = "function done" => block = 0 /\ stmt = 0
    BY <1>1, <2>1, <2>2 DEF Frames
  <2>4. pc = "statement done" => stmt # 0
    BY <2>1, <2>2, BuildingIs DEF Frames
  <2>5. pc = "block" => block # 0
    BY <2>1, <2>2, BuildingIs DEF Frames
  <2>6. pc = "function done" => fun # 0
    BY <2>1, <2>2, BuildingIs DEF Frames
  <2> QED BY <2>3, <2>4, <2>5, <2>6
<1>6. SpanOf(e, used, children)
  BY <1>2 DEF Laid, Span
<1>7. /\ fun # 0 => fun = e[1] + 1
      /\ block # 0 => block = e[fun] + 1
      /\ stmt # 0 => stmt = e[block] + 1
      /\ e[Innermost] = used
  BY <1>2 DEF Laid
<1>8. /\ node \in 1 .. used /\ child \in 1 .. used /\ parent[node] = 0
      /\ child = e[node] + 1 /\ e[child] = used
  <2>1. \A n \in 2 .. used : n \in 1 .. used
    BY <1>4
  <2>2. CASE pc = "statement done"
    BY <1>3, <1>4, <1>5, <1>7, <2>1, <2>2 DEF Innermost
  <2>3. CASE pc = "block"
    BY <1>3, <1>4, <1>5, <1>7, <2>1, <2>3 DEF Innermost
  <2>4. CASE pc = "function done"
    BY <1>3, <1>4, <1>5, <1>7, <2>1, <2>4 DEF Innermost
  <2> QED BY <1>1, <2>2, <2>3, <2>4
<1>9. \A n \in 1 .. used : \A k \in 1 .. Len(children[n]) : children[n][k] # node
  <2> SUFFICES ASSUME NEW n \in 1 .. used, NEW k \in 1 .. Len(children[n])
               PROVE  children[n][k] # node
    OBVIOUS
  <2>1. parent[children[n][k]] = n /\ n # 0
    BY <1>4
  <2> QED BY <1>8, <2>1
<1>10. /\ children'[node] = Append(children[node], child)
       /\ \A n \in 1 .. used : n # node => children'[n] = children[n]
  BY <1>3, <1>4, <1>8
<1>11. PICK f : /\ SpanOf(f, used, children') /\ f[node] = used
                /\ \A n \in 1 .. used : n # node => f[n] = e[n]
  <2> DEFINE d == children'
  <2>1. /\ d[node] = Append(children[node], child)
        /\ \A n \in 1 .. used : n # node => d[n] = children[n]
    BY <1>10
  <2> HIDE DEF d
  <2>2. \E f : /\ SpanOf(f, used, d) /\ f[node] = e[child]
               /\ \A n \in 1 .. used : n # node => f[n] = e[n]
    <3>1. Joins(used, children, e, node, child, d)
      BY <1>4, <1>6, <1>8, <1>9, <2>1 DEF Joins, Younger
    <3> QED BY <3>1, SpanLink
  <2> QED BY <1>8, <2>2 DEF d
<1>12. Laid(f)'
  <2>1. Span(f)'
    BY <1>3, <1>11 DEF Span
  <2>2. /\ fun' # 0 => fun' = f[1] + 1
        /\ block' # 0 => block' = f[fun'] + 1
        /\ stmt' # 0 => stmt' = f[block'] + 1
        /\ f[Innermost'] = used'
    <3>1. CASE pc = "statement done"
      <4>a. block # 0 /\ fun # 0 /\ node = block /\ fun \in 2 .. used /\ block \in 2 .. used /\ fun < block
        BY <1>3, <1>4, <1>5, <3>1
      <4>b. 1 # node /\ fun # node /\ fun \in 1 .. used
        BY <1>4, <4>a
      <4>1. f[1] = e[1] /\ f[fun] = e[fun] /\ block # 0 /\ fun # 0
        BY <1>4, <1>11, <4>a, <4>b
      <4> QED BY <1>3, <1>5, <1>7, <1>11, <3>1, <4>1 DEF Innermost
    <3>2. CASE pc = "block"
      <4>1. f[1] = e[1] /\ block # 0 /\ fun # 0
        BY <1>3, <1>4, <1>5, <1>11, <3>2
      <4> QED BY <1>3, <1>5, <1>7, <1>11, <3>2, <4>1 DEF Innermost
    <3>3. CASE pc = "function done"
      BY <1>3, <1>5, <1>11, <3>3 DEF Innermost
    <3> QED BY <1>1, <3>1, <3>2, <3>3
  <2> QED BY <2>1, <2>2 DEF Laid
<1> QED BY <1>12 DEF PoolInOrder

(* An expression is both.                                                  *)
LEMMA LaidExpression ==
  ASSUME Inv, PoolInOrder, UNCHANGED <<maxNodes, frames>>, Expresses
  PROVE  PoolInOrder'
<1>1. Parsing /\ pc \notin {"overrun", "spinning"} /\ pc \in InStatement
  BY DEF Parsing, Expresses, InStatement
<1>2. PICK e : Laid(e)
  BY <1>1 DEF PoolInOrder
<1>3. /\ used' = used + 1 /\ used < maxNodes
      /\ children' = [children EXCEPT ![stmt] = Append(@, used + 1)]
      /\ fun' = fun /\ block' = block /\ stmt' = stmt
  BY DEF Expresses, Allocate, Room, Link, frames
<1>4. /\ Younger /\ used \in Nat /\ maxNodes \in Nat
      /\ \A n \in 1 .. used : \A k \in 1 .. Len(children[n]) : parent[children[n][k]] = n
      /\ DOMAIN children = Nodes /\ \A n \in 1 .. used + 1 : n \in Nodes
      /\ children[used + 1] = <<>>
      /\ fun # 0 => fun \in 2 .. used
      /\ block # 0 => block \in 2 .. used /\ fun # 0 /\ fun < block
      /\ stmt # 0 => stmt \in 2 .. used /\ parent[stmt] = 0 /\ block # 0 /\ block < stmt
  <2>1. /\ used \in Nat /\ used \in 1 .. maxNodes /\ maxNodes \in Nat
        /\ \A n \in Nodes : n > used => children[n] = <<>>
    BY <1>1, PoolFacts
  <2>2. used + 1 > used /\ \A n \in 1 .. used + 1 : n \in Nodes
    BY <1>3, <2>1 DEF Nodes
  <2>3. used + 1 \in Nodes
    BY <2>1, <2>2
  <2>4. DOMAIN children = Nodes
    BY <1>1, PoolFacts
  <2> QED BY <1>1, <2>1, <2>2, <2>3, <2>4, PoolFacts
<1>5. stmt # 0
  <2>1. Building(block, stmt)
    BY <1>1, Apart DEF Frames
  <2> QED BY <1>4, <2>1 DEF Building
<1>6. /\ stmt \in 1 .. used /\ block \in 1 .. used /\ fun \in 1 .. used /\ 1 \in 1 .. used
      /\ 1 # stmt /\ fun # stmt /\ block # stmt /\ parent[stmt] = 0 /\ fun # 0 /\ block # 0
  BY <1>4, <1>5
<1>7. /\ SpanOf(e, used, children) /\ fun = e[1] + 1 /\ block = e[fun] + 1
      /\ stmt = e[block] + 1 /\ e[stmt] = used
  BY <1>2, <1>5, <1>6 DEF Laid, Span, Innermost
<1>8. PICK f : /\ SpanOf(f, used + 1, children) /\ f[used + 1] = used + 1
               /\ \A n \in 1 .. used : f[n] = e[n]
  BY <1>4, <1>7, SpanAlloc DEF Younger
<1>9. YoungerOf(used + 1, children)
  <2> DEFINE c == children
             u == used
  <2>1. YoungerOf(u, c) /\ u \in Nat /\ c[u + 1] = <<>>
    BY <1>4 DEF Younger
  <2> HIDE DEF c, u
  <2>2. \A n \in 1 .. u + 1 : n \in 1 .. u \/ n = u + 1
    BY <2>1
  <2>3. /\ c[u + 1] \in Seq(Nat) /\ Len(c[u + 1]) = 0 /\ 0 \in Nat /\ 1 .. 0 = {}
    BY <2>1
  <2>4. ASSUME NEW n \in 1 .. u
        PROVE  /\ c[n] \in Seq(Nat) /\ Len(c[n]) \in Nat /\ (c[n] = <<>> <=> Len(c[n]) = 0)
               /\ \A k \in 1 .. Len(c[n]) : c[n][k] \in n + 1 .. u + 1
    <3>1. \A x \in n + 1 .. u : x \in n + 1 .. u + 1
      BY <2>1
    <3> QED BY <2>1, <3>1 DEF YoungerOf
  <2>5. u + 1 \in Nat \ {0}
    BY <2>1
  <2>6. YoungerOf(u + 1, c)
    BY <2>1, <2>2, <2>3, <2>4, <2>5 DEF YoungerOf
  <2> QED BY <2>6 DEF c, u
<1>10. \A n \in 1 .. used + 1 : \A k \in 1 .. Len(children[n]) : children[n][k] # stmt
  <2> SUFFICES ASSUME NEW n \in 1 .. used + 1, NEW k \in 1 .. Len(children[n])
               PROVE  children[n][k] # stmt
    OBVIOUS
  <2>1. n # used + 1
    <3>1. Len(<<>>) = 0 /\ 1 .. 0 = {}
      OBVIOUS
    <3> QED BY <1>4, <3>1
  <2>2. n \in 1 .. used
    BY <1>4, <2>1
  <2>3. parent[children[n][k]] = n /\ n # 0
    BY <1>4, <2>2
  <2> QED BY <1>6, <2>3
<1>11. /\ children'[stmt] = Append(children[stmt], used + 1)
       /\ \A n \in 1 .. used + 1 : n # stmt => children'[n] = children[n]
  <2>1. stmt \in Nodes
    BY <1>4, <1>5
  <2> QED BY <1>3, <1>4, <2>1
<1>12. PICK g : /\ SpanOf(g, used + 1, children') /\ g[stmt] = used + 1
                /\ \A n \in 1 .. used + 1 : n # stmt => g[n] = f[n]
  <2> DEFINE d == children'
             u == used + 1
  <2>1. /\ d[stmt] = Append(children[stmt], u)
        /\ \A n \in 1 .. u : n # stmt => d[n] = children[n]
    BY <1>11
  <2>2. stmt \in 1 .. u /\ u \in 1 .. u /\ u = f[stmt] + 1
    BY <1>4, <1>6, <1>7, <1>8
  <2>3. /\ YoungerOf(u, children) /\ SpanOf(f, u, children) /\ f[u] = u
        /\ \A n \in 1 .. u : \A k \in 1 .. Len(children[n]) : children[n][k] # stmt
    BY <1>8, <1>9, <1>10
  <2> HIDE DEF d, u
  <2>4. \E g : /\ SpanOf(g, u, d) /\ g[stmt] = f[u]
               /\ \A n \in 1 .. u : n # stmt => g[n] = f[n]
    <3>1. Joins(u, children, f, stmt, u, d)
      BY <2>1, <2>2, <2>3 DEF Joins
    <3> QED BY <3>1, SpanLink
  <2> QED BY <2>3, <2>4 DEF d, u
<1>13. Laid(g)'
  <2>1. Span(g)'
    BY <1>3, <1>12 DEF Span
  <2>2. g[1] = e[1] /\ g[fun] = e[fun] /\ g[block] = e[block]
    <3>1. \A n \in 1 .. used : n \in 1 .. used + 1
      BY <1>4
    <3> QED BY <1>6, <1>8, <1>12, <3>1
  <2>3. Innermost' = stmt
    BY <1>3, <1>5 DEF Innermost
  <2> QED BY <1>3, <1>7, <1>12, <2>1, <2>2, <2>3 DEF Laid
<1> QED BY <1>13 DEF PoolInOrder

LEMMA LaidRoot ==
  ASSUME Inv, BeginProgram
  PROVE  PoolInOrder'
<1>1. ~Parsing /\ PoolType /\ 1 \in Nodes
  BY Apart DEF BeginProgram, Parsing, PoolType, Nodes
<1>2. /\ used' = 1 /\ children' = children /\ children[1] = <<>>
      /\ fun' = 0 /\ block' = 0 /\ stmt' = 0
  BY <1>1, Idle DEF BeginProgram, links, frames
<1> DEFINE e == [n \in 1 .. 1 |-> n]
<1>3. Span(e)'
  <2>1. e \in [1 .. 1 -> 1 .. 1] /\ \A n \in 1 .. 1 : n = 1 /\ e[n] = n
    OBVIOUS
  <2>2. Len(<<>>) = 0 /\ 1 .. 0 = {}
    OBVIOUS
  <2> HIDE DEF e
  <2>3. SpanAt(e, children', 1)
    BY <1>2, <2>1, <2>2 DEF SpanAt
  <2> QED BY <1>2, <2>1, <2>3 DEF Span, SpanOf
<1>4. Laid(e)'
  <2>1. Innermost' = 1 /\ e[1] = 1
    BY <1>2 DEF Innermost
  <2> QED BY <1>2, <1>3, <2>1 DEF Laid
<1> HIDE DEF e
<1> QED BY <1>4 DEF PoolInOrder

(* The pool stays as it is.                                                *)
LEMMA LaidStays ==
  ASSUME PoolInOrder, UNCHANGED <<used, children, fun, block, stmt>>,
         Parsing' /\ pc' # "overrun" => Parsing /\ pc # "overrun"
  PROVE  PoolInOrder'
<1> SUFFICES ASSUME Parsing' /\ pc' # "overrun"
             PROVE  \E e : Laid(e)'
  BY DEF PoolInOrder
<1>1. PICK e : Laid(e)
  BY DEF PoolInOrder
<1>2. Laid(e)'
  BY <1>1, LaidSame
<1> QED BY <1>2

LEMMA LaidDescend ==
  ASSUME Inv, PoolInOrder, Descend
  PROVE  PoolInOrder'
<1>a. maxNodes' = maxNodes
  BY DEF Descend
<1>1. CASE BeginFunction
  <2>1. pc = "program" /\ UNCHANGED <<links, block, stmt>>
    BY <1>1 DEF BeginFunction
  <2>2. CASE Room
    <3>1. pc' = "function" /\ Allocate("FUNCTION") /\ fun' = used + 1
      BY <1>1, <2>2 DEF BeginFunction
    <3> QED BY <1>a, <2>1, <3>1, LaidBegins
  <2>3. CASE ~Room
    <3>1. Parsing /\ pc # "overrun" /\ UNCHANGED <<used, children, fun, block, stmt>>
      BY <1>1, <2>1, <2>3 DEF BeginFunction, links, Parsing
    <3> QED BY <3>1, LaidStays
  <2> QED BY <2>2, <2>3
<1>2. CASE OpenParameters \/ SkipParameter \/ CloseParameters
  <2>1. Parsing /\ pc # "overrun" /\ UNCHANGED <<used, children, fun, block, stmt>>
    BY <1>2 DEF OpenParameters, SkipParameter, CloseParameters, tree, links, frames, Parsing
  <2> QED BY <2>1, LaidStays
<1>3. CASE BeginBlock
  <2>1. pc = "body" /\ UNCHANGED <<links, fun, stmt>>
    BY <1>3 DEF BeginBlock
  <2>2. CASE Expected("SEPARATOR") /\ Room
    <3>1. pc' = "block" /\ Allocate("BLOCK") /\ block' = used + 1
      BY <1>3, <2>2 DEF BeginBlock
    <3> QED BY <1>a, <2>1, <3>1, LaidBegins
  <2>3. CASE ~(Expected("SEPARATOR") /\ Room)
    <3>1. Parsing /\ pc # "overrun" /\ UNCHANGED <<used, children, fun, block, stmt>>
      BY <1>3, <2>1, <2>3 DEF BeginBlock, links, Parsing
    <3> QED BY <3>1, LaidStays
  <2> QED BY <2>2, <2>3
<1>4. CASE BeginStatement
  <2>1. /\ pc = "block" /\ pc' = "statement"
        /\ Allocate("STATEMENT") /\ stmt' = used + 1 /\ UNCHANGED <<links, fun, block>>
    BY <1>4 DEF BeginStatement
  <2> QED BY <1>a, <2>1, LaidBegins
<1>5. CASE ParseExpression
  <2>1. pc = "statement" /\ pc' = "statement done" /\ UNCHANGED frames
    BY <1>5 DEF ParseExpression
  <2>2. CASE UNCHANGED <<cursor, tree>>
    <3>1. Parsing /\ pc # "overrun" /\ UNCHANGED <<used, children, fun, block, stmt>>
      BY <2>1, <2>2 DEF tree, links, frames, Parsing
    <3> QED BY <3>1, LaidStays
  <2>3. CASE ~UNCHANGED <<cursor, tree>>
    <3>1. Expresses
      BY <1>5, <2>1, <2>3 DEF ParseExpression, Expresses
    <3> QED BY <1>a, <2>1, <3>1, LaidExpression
  <2> QED BY <2>2, <2>3
<1>6. CASE EndStatement
  <2>1. pc = "statement done" /\ stmt' = 0 /\ UNCHANGED <<used, fun, block>>
    BY <1>6 DEF EndStatement
  <2>2. CASE Len(children[block]) < ChildCapacity
    <3>1. Attach(block, stmt)
      BY <1>6, <2>1, <2>2 DEF EndStatement, LinkUnchecked, Attach
    <3> QED BY <1>a, <2>1, <3>1, LaidLinks
  <2>3. CASE ~(Len(children[block]) < ChildCapacity)
    BY <1>6, <2>3 DEF EndStatement, LinkUnchecked, PoolInOrder
  <2> QED BY <2>2, <2>3
<1>7. CASE EndBlock
  <2>1. /\ pc = "block" /\ pc' = "function done" /\ Link(fun, block) /\ block' = 0
        /\ UNCHANGED <<used, fun, stmt>>
    BY <1>7 DEF EndBlock
  <2>2. Attach(fun, block)
    BY <2>1 DEF Attach
  <2> QED BY <1>a, <2>1, <2>2, LaidLinks
<1>8. CASE EndFunction
  <2>1. pc = "function done" /\ fun' = 0 /\ UNCHANGED <<used, block, stmt>>
    BY <1>8 DEF EndFunction
  <2>2. CASE Len(children[1]) < ChildCapacity
    <3>1. Attach(1, fun)
      BY <1>8, <2>1, <2>2 DEF EndFunction, LinkUnchecked, Attach
    <3> QED BY <1>a, <2>1, <3>1, LaidLinks
  <2>3. CASE ~(Len(children[1]) < ChildCapacity)
    BY <1>8, <2>3 DEF EndFunction, LinkUnchecked, PoolInOrder
  <2> QED BY <2>2, <2>3
<1>9. CASE EndProgram
  <2>1. Parsing /\ pc # "overrun" /\ UNCHANGED <<used, children, fun, block, stmt>>
    BY <1>9 DEF EndProgram, tree, links, frames, Parsing
  <2> QED BY <2>1, LaidStays
<1>10. CASE ReturnAst
  BY <1>10 DEF ReturnAst, PoolInOrder, Parsing
<1>11. CASE Spin
  <2>1. Parsing /\ pc # "overrun" /\ UNCHANGED <<used, children, fun, block, stmt>>
    BY <1>11 DEF Spin, SpinsAt, tree, links, frames, Parsing
  <2> QED BY <2>1, LaidStays
<1> QED BY <1>1, <1>2, <1>3, <1>4, <1>5, <1>6, <1>7, <1>8, <1>9, <1>10, <1>11 DEF Descend

LEMMA LaidInit == Init => PoolInOrder
BY DEF Init, PoolInOrder, Parsing

LEMMA LaidStep == Inv /\ PoolInOrder /\ [Next]_vars => PoolInOrder'
<1> SUFFICES ASSUME Inv, PoolInOrder, [Next]_vars PROVE PoolInOrder'
  OBVIOUS
<1>1. CASE BeginProgram
  BY <1>1, LaidRoot
<1>2. CASE Descend
  BY <1>2, LaidDescend
<1>3. CASE UNCHANGED vars \/ ScanStep
  <2>1. pc' = pc /\ UNCHANGED <<used, children, fun, block, stmt>>
    BY <1>3 DEF vars, ScanStep, parser, tree, links, frames
  <2> QED BY <2>1, LaidStays DEF Parsing
<1>4. CASE UseTokenizer
  BY <1>4 DEF UseTokenizer, parser, PoolInOrder, Parsing
<1>5. CASE ScanFails
  BY <1>5 DEF ScanFails, PoolInOrder, Parsing
<1>6. CASE \E input \in Inputs : ParseString(input)
  BY <1>6 DEF ParseString, PoolInOrder, Parsing
<1> QED BY <1>1, <1>2, <1>3, <1>4, <1>5, <1>6 DEF Next

LEMMA LaidFlat ==
  ASSUME Inv, PoolInOrder
  PROVE  FlatIsTheVisit
<1> SUFFICES ASSUME pc = "flat"
             PROVE  Visits = [i \in 1 .. used |-> i] /\ Validates
  BY DEF FlatIsTheVisit
<1>1. Parsing /\ pc # "overrun"
  BY DEF Parsing
<1>2. PICK e : Laid(e)
  BY <1>1 DEF PoolInOrder
<1>3. /\ Younger /\ used \in Nat /\ \A n \in 1 .. used : \A k \in 1 .. Len(children[n]) : parent[children[n][k]] = n
      /\ children \in [Nodes -> Seq(Nodes)] /\ \A n \in 1 .. used : n \in Nodes
  <2>1. used \in 1 .. maxNodes /\ used \in Nat /\ maxNodes \in Nat
    BY <1>1, PoolFacts
  <2>2. \A n \in 1 .. used : n \in Nodes
    BY <2>1 DEF Nodes
  <2> QED BY <1>1, <2>1, <2>2, PoolFacts
<1>4. fun = 0 /\ block = 0 /\ stmt = 0
  <2>1. Frames
    BY Apart
  <2> QED BY <2>1 DEF Frames, InFunction, InBlock, InStatement
<1>5. Span(e) /\ e[1] = used
  BY <1>2, <1>4 DEF Laid, Innermost
<1>6. Visits = Numbers(1, used)
  BY <1>3, <1>5, VisitsNumbers
<1>7. Numbers(1, used) = [i \in 1 .. used |-> i]
  <2>1. used - 1 + 1 = used /\ \A i \in 1 .. used : 1 + i - 1 = i
    BY <1>3
  <2> QED BY <2>1 DEF Numbers
<1>8. Visits = [i \in 1 .. used |-> i]
  BY <1>6, <1>7
<1> DEFINE v == Visits
<1>9. Len(v) = used /\ DOMAIN v = 1 .. used /\ \A k \in 1 .. used : v[k] = k
  BY <1>3, <1>8
<1> HIDE DEF v
<1>10. ASSUME NEW k \in DOMAIN v, NEW c \in DOMAIN children[v[k]]
       PROVE  parent[children[v[k]][c]] = v[k]
  <2>1. k \in 1 .. used /\ v[k] = k /\ k \in Nodes
    BY <1>3, <1>9
  <2>2. children[k] \in Seq(Nodes)
    BY <1>3, <2>1
  <2>3. c \in 1 .. Len(children[k])
    BY <2>1, <2>2
  <2> QED BY <1>3, <2>1, <2>3
<1> QED BY <1>8, <1>9, <1>10 DEF Validates, v

(* The flat array of nodes is the traversal of the tree and validates,     *)
(* whatever was parsed and wherever the nodes or the children ran out.     *)
THEOREM FlatInOrder == Spec => []FlatIsTheVisit
BY InitInv, InvStep, LaidInit, LaidStep, LaidFlat, PTL DEF Spec
-----------------------------------------------------------------------------
(* The grammar, as what has been read of the stream s before place at when *)
(* the descent is at pc.                                                   *)

(* Functions, one after the other, from 1 to at.                           *)
Reached(s, at) ==
  \E starts \in SUBSET (1 .. at) :
    /\ 1 \in starts /\ at \in starts
    /\ \A a \in starts : a = at \/ \E b \in starts : b > a /\ IsFunction(s, a, b)

Started(s, p) == Reached(s, p) /\ s[p] = "IDENTIFIER"

Headed(s, p, close) ==
  /\ Started(s, p) /\ p + 2 <= close /\ s[close] = "SEPARATOR"
  /\ \A i \in p + 2 .. close - 1 : s[i] # "SEPARATOR"

InParameters(s, at) ==
  \E p \in 1 .. at :
    /\ Started(s, p) /\ p < at /\ (at = p + 1 => s[at] # "SEPARATOR")
    /\ \A i \in p + 2 .. at - 1 : s[i] # "SEPARATOR"

InBody(s, at) ==
  \E p, close \in 1 .. at :
    /\ Headed(s, p, close) /\ s[close + 1] = "SEPARATOR" /\ close + 1 < at
    /\ \A i \in close + 2 .. at - 1 : s[i] \in ExpressionTypes

Follows(s, where, at) ==
  /\ where = "program" => Reached(s, at)
  /\ where = "function" => \E p \in 1 .. at : Started(s, p) /\ at = p + 1
  /\ where = "parameters" => InParameters(s, at)
  /\ where = "body" => \E p, close \in 1 .. at : Headed(s, p, close) /\ at = close + 1
  /\ where \in InBlock => InBody(s, at)
  /\ where = "function done" => \E p \in 1 .. at : Reached(s, p) /\ p < at /\ IsFunction(s, p, at)

(* No way on: at the last token, and it is not the end.                    *)
Stuck == ~CanAdvance /\ ~Is("EOF")

Descending == Parsing /\ tokens # <<>> /\ pc \notin {"flat", "overrun", "spinning"}

GInv ==
  /\ EndsInGrammar
  /\ Descending => ~Room \/ Stuck \/ Follows(Stream, pc, index + 1)

LEMMA ReachedOne == \A s : Reached(s, 1)
<1> TAKE s
<1>1. {1} \in SUBSET (1 .. 1)
  OBVIOUS
<1> QED BY <1>1 DEF Reached

LEMMA ReachedNext ==
  ASSUME NEW s, NEW at \in Nat, NEW p \in 1 .. at, p < at, Reached(s, p), IsFunction(s, p, at)
  PROVE  Reached(s, at)
<1>1. PICK starts \in SUBSET (1 .. p) :
        /\ 1 \in starts /\ p \in starts
        /\ \A a \in starts : a = p \/ \E b \in starts : b > a /\ IsFunction(s, a, b)
  BY DEF Reached
<1> DEFINE more == starts \cup {at}
<1>2. more \in SUBSET (1 .. at) /\ 1 \in more /\ at \in more
  BY <1>1
<1>3. ASSUME NEW a \in more
      PROVE  a = at \/ \E b \in more : b > a /\ IsFunction(s, a, b)
  <2>1. CASE a \in starts /\ a # p
    BY <1>1, <2>1
  <2>2. CASE a = p
    BY <2>2, <1>2
  <2> QED BY <2>1, <2>2
<1> QED BY <1>2, <1>3 DEF Reached

LEMMA GrammarReached ==
  ASSUME NEW at \in DOMAIN Stream, Len(tokens) \in Nat, Reached(Stream, at), Stream[at] = "EOF"
  PROVE  Grammatical
<1>1. PICK starts \in SUBSET (1 .. at) :
        /\ 1 \in starts /\ at \in starts
        /\ \A a \in starts : a = at \/ \E b \in starts : b > a /\ IsFunction(Stream, a, b)
  BY DEF Reached
<1>3. DOMAIN Stream = 1 .. Len(tokens) + 1
  BY DEF Stream
<1>4. starts \in SUBSET DOMAIN Stream
  BY <1>1, <1>3
<1>5. \A p \in starts : Stream[p] = "EOF" \/ \E q \in starts : q > p /\ IsFunction(Stream, p, q)
  BY <1>1
<1> HIDE DEF Stream
<1> QED BY <1>1, <1>4, <1>5 DEF Grammatical

(* The steps of the descent that read.                                     *)

LEMMA ReadName ==
  ASSUME NEW s, NEW at \in Nat \ {0}, Follows(s, "program", at), s[at] = "IDENTIFIER"
  PROVE  Follows(s, "function", at + 1)
<1>1. Started(s, at) /\ at \in 1 .. at + 1
  BY DEF Follows, Started
<1> QED BY <1>1 DEF Follows, InBlock

LEMMA ReadOpen ==
  ASSUME NEW s, NEW at \in Nat \ {0}, Follows(s, "function", at)
  PROVE  Follows(s, "parameters", IF s[at] = "SEPARATOR" THEN at + 1 ELSE at)
<1>1. PICK p \in 1 .. at : Started(s, p) /\ at = p + 1
  BY DEF Follows
<1>2. CASE s[at] = "SEPARATOR"
  <2>1. InParameters(s, at + 1)
    BY <1>1 DEF InParameters
  <2> QED BY <1>2, <2>1 DEF Follows, InBlock
<1>3. CASE s[at] # "SEPARATOR"
  <2>1. InParameters(s, at)
    BY <1>1, <1>3 DEF InParameters
  <2> QED BY <1>3, <2>1 DEF Follows, InBlock
<1> QED BY <1>2, <1>3

LEMMA ReadParameter ==
  ASSUME NEW s, NEW at \in Nat \ {0}, Follows(s, "parameters", at), s[at] # "SEPARATOR"
  PROVE  Follows(s, "parameters", at + 1)
<1>1. PICK p \in 1 .. at :
        /\ Started(s, p) /\ p < at
        /\ \A i \in p + 2 .. at - 1 : s[i] # "SEPARATOR"
  BY DEF Follows, InParameters
<1>2. \A i \in p + 2 .. (at + 1) - 1 : i = at \/ i \in p + 2 .. at - 1
  OBVIOUS
<1>3. p \in 1 .. at + 1 /\ p < at + 1 /\ at + 1 # p + 1
  BY <1>1
<1>4. InParameters(s, at + 1)
  BY <1>1, <1>2, <1>3 DEF InParameters
<1> QED BY <1>4 DEF Follows, InBlock

LEMMA ReadClose ==
  ASSUME NEW s, NEW at \in Nat \ {0}, Follows(s, "parameters", at), s[at] = "SEPARATOR"
  PROVE  Follows(s, "body", at + 1)
<1>1. PICK p \in 1 .. at :
        /\ Started(s, p) /\ p < at /\ (at = p + 1 => s[at] # "SEPARATOR")
        /\ \A i \in p + 2 .. at - 1 : s[i] # "SEPARATOR"
  BY DEF Follows, InParameters
<1>2. p + 2 <= at
  BY <1>1
<1>3. Headed(s, p, at) /\ p \in 1 .. at + 1 /\ at \in 1 .. at + 1
  BY <1>1, <1>2 DEF Headed
<1> QED BY <1>3 DEF Follows, InBlock

LEMMA NoBlock ==
  ASSUME NEW s, NEW at \in Nat \ {0}, Follows(s, "body", at), s[at] # "SEPARATOR"
  PROVE  Follows(s, "function done", at)
<1>1. PICK p, close \in 1 .. at : Headed(s, p, close) /\ at = close + 1
  BY DEF Follows
<1>2. IsFunction(s, p, at) /\ Reached(s, p) /\ p < at
  <2>1. close \in p + 2 .. at - 1
    BY <1>1 DEF Headed
  <2> QED BY <1>1, <2>1 DEF Headed, Started, IsFunction
<1> QED BY <1>2 DEF Follows, InBlock

LEMMA ReadBlock ==
  ASSUME NEW s, NEW at \in Nat \ {0}, Follows(s, "body", at), s[at] = "SEPARATOR"
  PROVE  Follows(s, "block", at + 1)
<1>1. PICK p, close \in 1 .. at : Headed(s, p, close) /\ at = close + 1
  BY DEF Follows
<1>2. InBody(s, at + 1)
  <2>1. p \in 1 .. at + 1 /\ close \in 1 .. at + 1 /\ close + 1 < at + 1
    BY <1>1
  <2> QED BY <1>1, <2>1 DEF InBody
<1> QED BY <1>2 DEF Follows, InBlock

LEMMA WithinBlock ==
  ASSUME NEW s, NEW at, NEW here \in InBlock, NEW there \in InBlock, Follows(s, here, at)
  PROVE  Follows(s, there, at)
BY DEF Follows, InBlock

LEMMA ReadExpression ==
  ASSUME NEW s, NEW at \in Nat \ {0}, NEW here \in InBlock, NEW there \in InBlock,
         Follows(s, here, at), s[at] \in ExpressionTypes
  PROVE  Follows(s, there, at + 1)
<1>1. PICK p \in 1 .. at, close \in 1 .. at :
        /\ Headed(s, p, close) /\ s[close + 1] = "SEPARATOR" /\ close + 1 < at
        /\ \A i \in close + 2 .. at - 1 : s[i] \in ExpressionTypes
  BY DEF Follows, InBody
<1>2. \A i \in close + 2 .. (at + 1) - 1 : i = at \/ i \in close + 2 .. at - 1
  OBVIOUS
<1>3. p \in 1 .. at + 1 /\ close \in 1 .. at + 1 /\ close + 1 < at + 1
  BY <1>1
<1>4. InBody(s, at + 1)
  BY <1>1, <1>2, <1>3 DEF InBody
<1> QED BY <1>4 DEF Follows, InBlock

LEMMA ReadEndOfBlock ==
  ASSUME NEW s, NEW at \in Nat \ {0}, Follows(s, "block", at), s[at] = "SEPARATOR"
  PROVE  Follows(s, "function done", at + 1)
<1>1. PICK p \in 1 .. at, close \in 1 .. at :
        /\ Headed(s, p, close) /\ s[close + 1] = "SEPARATOR" /\ close + 1 < at
        /\ \A i \in close + 2 .. at - 1 : s[i] \in ExpressionTypes
  BY DEF Follows, InBody, InBlock
<1>2. close \in p + 2 .. (at + 1) - 1 /\ close + 2 < at + 1 /\ (at + 1) - 1 = at /\ (at + 1) - 2 = at - 1
  BY <1>1 DEF Headed
<1>3. IsFunction(s, p, at + 1)
  BY <1>1, <1>2 DEF Headed, Started, IsFunction
<1>4. Reached(s, p) /\ p \in 1 .. at + 1 /\ p < at + 1
  BY <1>1 DEF Headed, Started
<1> QED BY <1>3, <1>4 DEF Follows, InBlock

LEMMA ReadFunction ==
  ASSUME NEW s, NEW at \in Nat, Follows(s, "function done", at)
  PROVE  Follows(s, "program", at)
<1>1. Reached(s, at)
  BY ReachedNext DEF Follows
<1> QED BY <1>1 DEF Follows, InBlock

(* The descent reads the stream.                                           *)
LEMMA TokenAt ==
  ASSUME Inv, Descending
  PROVE  /\ index + 1 \in Nat \ {0} /\ index + 1 \in DOMAIN Stream /\ Len(tokens) \in Nat
         /\ current # 0 /\ \A t : Is(t) <=> Stream[index + 1] = t
<1>1. CursorType /\ Cursor /\ Parsing /\ tokens # <<>>
  BY Apart DEF Descending
<1>2. index \in Nat /\ index <= Len(tokens) /\ Len(tokens) \in Nat
  BY <1>1, TokenizerConstantsOK DEF CursorType, TokenizerTypeOK
<1>3. current = IF index = 0 THEN 1 ELSE index
  BY <1>1 DEF Cursor
<1>4. current # 0 /\ current = IF index + 1 = 1 THEN 1 ELSE (index + 1) - 1
  BY <1>2, <1>3
<1>5. index + 1 \in 1 .. Len(tokens) + 1
  BY <1>2
<1>6. Stream[index + 1] = tokens[current].type
  BY <1>4, <1>5 DEF Stream
<1>7. DOMAIN Stream = 1 .. Len(tokens) + 1
  BY DEF Stream
<1> HIDE DEF Stream
<1> QED BY <1>2, <1>4, <1>5, <1>6, <1>7 DEF Is

LEMMA TryExpectReads ==
  ASSUME Inv, Descending, ~Stuck, TryExpect("SEPARATOR")
  PROVE  \/ Stream[index + 1] = "SEPARATOR" /\ index' + 1 = (index + 1) + 1
         \/ Stream[index + 1] # "SEPARATOR" /\ index' + 1 = index + 1
<1>1. \A t : Is(t) <=> Stream[index + 1] = t
  BY TokenAt
<1>2. CASE Is("SEPARATOR")
  <2>1. ~Is("EOF")
    BY <1>1, <1>2
  <2>2. CanAdvance
    BY <2>1 DEF Stuck
  <2> QED BY <1>1, <1>2, <2>2 DEF TryExpect, Expected, Advance
<1>3. CASE ~Is("SEPARATOR")
  BY <1>1, <1>3 DEF TryExpect, Expected, cursor
<1> QED BY <1>2, <1>3

(* Once nodes have run out, or the last token is reached, nothing changes. *)
LEMMA RoomGone ==
  ASSUME Inv, Descend, pc # "flat", ~Room
  PROVE  ~Room'
<1>1. used' = used /\ maxNodes' = maxNodes
  BY DEF Descend, BeginFunction, OpenParameters, SkipParameter, CloseParameters, BeginBlock,
         BeginStatement, ParseExpression, EndStatement, EndBlock, EndFunction, EndProgram,
         ReturnAst, Spin, Allocate, tree
<1> QED BY <1>1 DEF Room

LEMMA StuckStays ==
  ASSUME Inv, Descend, Stuck
  PROVE  Stuck' /\ UNCHANGED cursor
<1>1. UNCHANGED cursor
  BY DEF Descend, BeginFunction, OpenParameters, SkipParameter, CloseParameters, BeginBlock,
         BeginStatement, ParseExpression, EndStatement, EndBlock, EndFunction, EndProgram,
         ReturnAst, Spin, TryExpect, TryAdvance, Expected, Advance, Stuck, cursor
<1>2. tokens' = tokens
  BY DEF Descend, tokenizer
<1> QED BY <1>1, <1>2 DEF Stuck, CanAdvance, Is, cursor

(* A step of the descent reads on in the grammar.                          *)
LEMMA FollowsStep ==
  ASSUME Inv, Descending, Descend, ~EndProgram,
         pc' \notin {"overrun", "spinning"}, Room, ~Stuck,
         Follows(Stream, pc, index + 1)
  PROVE  Follows(Stream', pc', index' + 1)
<1> DEFINE s == Stream
           at == index + 1
           there == index' + 1
<1>1. Stream' = Stream
  BY DEF Stream, Descend, tokenizer
<1>2. Follows(s, pc, at)
  OBVIOUS
<1>3. /\ at \in Nat \ {0} /\ at \in DOMAIN Stream /\ Len(tokens) \in Nat
      /\ current # 0 /\ \A t : Is(t) <=> s[at] = t
  BY TokenAt
<1>4. /\ Advance => index' + 1 = at + 1
      /\ UNCHANGED cursor => index' + 1 = at
      /\ TryExpect("SEPARATOR") =>
           \/ s[at] = "SEPARATOR" /\ index' + 1 = at + 1
           \/ s[at] # "SEPARATOR" /\ index' + 1 = at
  BY TryExpectReads DEF Advance, cursor
<1>5. Room /\ ~Stuck
  OBVIOUS
<1> HIDE DEF s, at, there
<1> SUFFICES Follows(s, pc', there)
  BY <1>1 DEF s, there
<1>6. CASE BeginFunction
  <2>1. pc = "program" /\ s[at] = "IDENTIFIER" /\ pc' = "function" /\ there = at + 1
    BY <1>5, <1>3, <1>4, <1>6 DEF BeginFunction, Expected, there
  <2> QED BY <1>2, <1>3, <2>1, ReadName
<1>7. CASE OpenParameters
  <2>1. pc = "function" /\ pc' = "parameters" /\ there = IF s[at] = "SEPARATOR" THEN at + 1 ELSE at
    BY <1>4, <1>7 DEF OpenParameters, there
  <2> QED BY <1>2, <1>3, <2>1, ReadOpen
<1>8. CASE SkipParameter
  <2>1. pc = "parameters" /\ pc' = "parameters" /\ s[at] # "SEPARATOR" /\ there = at + 1
    BY <1>3, <1>4, <1>8 DEF SkipParameter, there
  <2> QED BY <1>2, <1>3, <2>1, ReadParameter
<1>9. CASE CloseParameters
  <2>1. pc = "parameters" /\ pc' = "body" /\ s[at] = "SEPARATOR" /\ there = at + 1
    BY <1>3, <1>4, <1>9 DEF CloseParameters, there
  <2> QED BY <1>2, <1>3, <2>1, ReadClose
<1>10. CASE BeginBlock
  <2>1. pc = "body" /\ TryExpect("SEPARATOR")
    BY <1>10 DEF BeginBlock
  <2>2. CASE s[at] = "SEPARATOR"
    <3>1. there = at + 1
      BY <1>4, <2>1, <2>2 DEF there
    <3>2. Expected("SEPARATOR")
      <4>1. Is("SEPARATOR") /\ ~Is("EOF")
        BY <1>3, <2>2
      <4> QED BY <1>5, <4>1 DEF Stuck, Expected
    <3>3. pc' = "block"
      BY <1>5, <1>10, <3>2 DEF BeginBlock
    <3> QED BY <1>2, <1>3, <2>1, <2>2, <3>1, <3>3, ReadBlock
  <2>3. CASE s[at] # "SEPARATOR"
    <3>1. there = at /\ ~Expected("SEPARATOR")
      BY <1>3, <1>4, <2>1, <2>3 DEF Expected, there
    <3>2. pc' = "function done"
      BY <1>10, <3>1 DEF BeginBlock
    <3> QED BY <1>2, <1>3, <2>1, <2>3, <3>1, <3>2, NoBlock
  <2> QED BY <2>2, <2>3
<1>11. "block" \in InBlock /\ "statement" \in InBlock /\ "statement done" \in InBlock
  BY DEF InBlock
<1>12. CASE BeginStatement
  <2>1. pc = "block" /\ pc' = "statement" /\ there = at
    BY <1>4, <1>12 DEF BeginStatement, there
  <2> QED BY <1>2, <1>11, <2>1, WithinBlock
<1>13. CASE ParseExpression
  <2>1. pc = "statement" /\ pc' = "statement done"
    BY <1>13 DEF ParseExpression
  <2>2. CASE s[at] \in ExpressionTypes
    <3>1. TryAdvance
      BY <1>5, <1>3, <1>13, <2>2 DEF ParseExpression
    <3>2. CanAdvance
      <4>1. ~Is("EOF")
        BY <1>3, <2>2 DEF ExpressionTypes
      <4> QED BY <1>5, <4>1 DEF Stuck
    <3>3. there = at + 1
      BY <1>4, <3>1, <3>2 DEF TryAdvance, there
    <3> QED BY <1>2, <1>3, <1>11, <2>1, <2>2, <3>3, ReadExpression
  <2>3. CASE s[at] \notin ExpressionTypes
    <3>1. UNCHANGED cursor
      BY <1>3, <1>13, <2>3 DEF ParseExpression, ExpressionTypes
    <3>2. there = at
      BY <1>4, <3>1 DEF there
    <3> QED BY <1>2, <1>11, <2>1, <3>2, WithinBlock
  <2> QED BY <2>2, <2>3
<1>14. CASE EndStatement
  <2>1. pc = "statement done" /\ pc' = "block" /\ there = at
    BY <1>4, <1>14 DEF EndStatement, LinkUnchecked, there
  <2> QED BY <1>2, <1>11, <2>1, WithinBlock
<1>15. CASE EndBlock
  <2>1. pc = "block" /\ pc' = "function done" /\ s[at] = "SEPARATOR" /\ there = at + 1
    BY <1>3, <1>4, <1>15 DEF EndBlock, there
  <2> QED BY <1>2, <1>3, <2>1, ReadEndOfBlock
<1>16. CASE EndFunction
  <2>1. pc = "function done" /\ pc' = "program" /\ there = at
    BY <1>4, <1>16 DEF EndFunction, LinkUnchecked, there
  <2> QED BY <1>2, <1>3, <2>1, ReadFunction
<1>17. ~ReturnAst /\ ~Spin
  BY DEF Descending, ReturnAst, Spin
<1> QED BY <1>6, <1>7, <1>8, <1>9, <1>10, <1>12, <1>13, <1>14, <1>15, <1>16, <1>17
       DEF Descend

LEMMA GDescend ==
  ASSUME Inv, GInv, Descend
  PROVE  GInv'
<1> DEFINE s == Stream
           at == index + 1
<1>a. tokens' = tokens /\ maxNodes' = maxNodes
  BY DEF Descend, tokenizer
<1>b. Stream' = Stream
  BY <1>a DEF Stream
<1>c. Parsing /\ pc \notin {"overrun", "spinning"}
  BY DEF Descend, BeginFunction, OpenParameters, SkipParameter, CloseParameters, BeginBlock,
         BeginStatement, ParseExpression, EndStatement, EndBlock, EndFunction, EndProgram,
         ReturnAst, Spin, SpinsAt, Parsing
<1>d. pc' = "flat" => EndProgram
  BY DEF Descend, BeginFunction, OpenParameters, SkipParameter, CloseParameters, BeginBlock,
         BeginStatement, ParseExpression, EndStatement, EndBlock, EndFunction, EndProgram,
         ReturnAst, Spin, LinkUnchecked
<1>1. CASE pc = "flat"
  <2>1. pc' = "idle"
    BY <1>1 DEF Descend, BeginFunction, OpenParameters, SkipParameter, CloseParameters,
         BeginBlock, BeginStatement, ParseExpression, EndStatement, EndBlock, EndFunction,
         EndProgram, ReturnAst, Spin, SpinsAt
  <2> QED BY <2>1 DEF GInv, EndsInGrammar, Descending, Parsing
<1>2. CASE pc # "flat" /\ tokens = <<>>
  <2>1. Grammatical' /\ ~Descending'
    BY <1>a, <1>2 DEF Grammatical, Descending
  <2> QED BY <2>1 DEF GInv, EndsInGrammar
<1>3. CASE pc # "flat" /\ ~Room
  <2>1. ~Room'
    BY <1>3, RoomGone
  <2> QED BY <2>1 DEF GInv, EndsInGrammar
<1>4. CASE pc # "flat" /\ tokens # <<>> /\ Stuck
  <2>1. Stuck'
    BY <1>4, StuckStays
  <2>2. Descending
    BY <1>c, <1>4 DEF Descending
  <2>3. ~EndProgram
    BY <1>4, <2>2, TokenAt DEF EndProgram, Stuck
  <2> QED BY <1>d, <2>1, <2>3 DEF GInv, EndsInGrammar
<1>5. CASE pc # "flat" /\ tokens # <<>> /\ Room /\ ~Stuck
  <2>1. Descending
    BY <1>c, <1>5 DEF Descending
  <2>2. Follows(s, pc, at)
    BY <1>5, <2>1 DEF GInv
  <2>3. CASE EndProgram
    <3>1. pc = "program" /\ pc' = "flat" /\ Is("EOF")
      BY <2>1, <2>3, TokenAt DEF EndProgram
    <3>2. Reached(s, at) /\ s[at] = "EOF" /\ at \in DOMAIN Stream /\ Len(tokens) \in Nat
      BY <2>1, <2>2, <3>1, TokenAt DEF Follows
    <3>3. Grammatical
      BY <3>2, GrammarReached
    <3>4. Grammatical'
      BY <1>a, <1>b, <3>3 DEF Grammatical
    <3> QED BY <3>1, <3>4 DEF GInv, EndsInGrammar, Descending
  <2>4. CASE ~EndProgram
    <3>1. pc' # "flat"
      BY <1>d, <2>4
    <3>2. pc' \in {"overrun", "spinning"} \/ Follows(Stream', pc', index' + 1)
      BY <1>5, <2>1, <2>2, <2>4, FollowsStep
    <3> QED BY <3>1, <3>2 DEF GInv, EndsInGrammar, Descending
  <2> QED BY <2>3, <2>4
<1> QED BY <1>1, <1>2, <1>3, <1>4, <1>5

LEMMA GStep == Inv /\ GInv /\ [Next]_vars => GInv'
<1> SUFFICES ASSUME Inv, GInv, [Next]_vars PROVE GInv'
  OBVIOUS
<1>1. CASE Descend
  BY <1>1, GDescend
<1>2. CASE UseTokenizer \/ ScanFails \/ \E input \in Inputs : ParseString(input)
  <2>1. pc' \in {"idle", "scan"}
    BY <1>2 DEF UseTokenizer, ScanFails, ParseString, parser
  <2> QED BY <2>1 DEF GInv, EndsInGrammar, Descending, Parsing
<1>3. CASE ScanStep
  <2>1. Scanning /\ Cursor /\ pc' = pc
    BY <1>3 DEF ScanStep, Scan, SkipBlank, Match, Unmatched, EndOfInput, Inv, parser
  <2>2. pc' \in {"idle", "scan"}
    BY <2>1 DEF Cursor, Parsing
  <2> QED BY <2>2 DEF GInv, EndsInGrammar, Descending, Parsing
<1>4. CASE BeginProgram
  <2>1. pc' = "program" /\ index' + 1 = 1
    BY <1>4 DEF BeginProgram
  <2>2. Follows(Stream', pc', index' + 1)
    BY <2>1, ReachedOne DEF Follows, InBlock
  <2> QED BY <2>1, <2>2 DEF GInv, EndsInGrammar
<1>5. CASE UNCHANGED vars
  <2>1. tokens' = tokens /\ pc' = pc /\ index' = index /\ current' = current
        /\ used' = used /\ maxNodes' = maxNodes
    BY <1>5 DEF vars, parser, tokenizer, cursor, tree
  <2>2. Stream' = Stream
    BY <2>1 DEF Stream
  <2>3. Grammatical' = Grammatical
    BY <2>1, <2>2 DEF Grammatical
  <2>4. Room' = Room /\ Stuck' = Stuck /\ Descending' = Descending
    BY <2>1 DEF Room, Stuck, CanAdvance, Is, Descending, Parsing
  <2> QED BY <2>1, <2>2, <2>3, <2>4 DEF GInv, EndsInGrammar
<1> QED BY <1>1, <1>2, <1>3, <1>4, <1>5 DEF Next

LEMMA GInit == Init => GInv
BY DEF Init, GInv, EndsInGrammar, Descending, Parsing

(* When parse_tokens ends, and no node was missing, the tokens were a      *)
(* program: functions one after the other up to an EOF, where the first    *)
(* token is read twice.                                                    *)
THEOREM EndsOnPrograms == Spec => []EndsInGrammar
<1>1. GInv => EndsInGrammar
  BY DEF GInv
<1> QED BY InitInv, InvStep, GInit, GStep, <1>1, PTL DEF Spec
-----------------------------------------------------------------------------
(* A grammatical stream is never left: it divides into functions in one    *)
(* way only, and before its EOF there is a token to go on with.            *)

LEMMA OneFunction ==
  ASSUME NEW s, NEW p \in Nat, NEW q \in Nat, NEW r \in Nat,
         IsFunction(s, p, q), IsFunction(s, p, r)
  PROVE  q = r
<1>1. PICK c \in p + 2 .. q - 1 :
        /\ s[c] = "SEPARATOR" /\ \A i \in p + 2 .. c - 1 : s[i] # "SEPARATOR"
        /\ \/ q = c + 1 /\ s[q] # "SEPARATOR"
           \/ /\ c + 2 < q /\ s[c + 1] = "SEPARATOR" /\ s[q - 1] = "SEPARATOR"
              /\ \A i \in c + 2 .. q - 2 : s[i] \in ExpressionTypes
  BY DEF IsFunction
<1>2. PICK d \in p + 2 .. r - 1 :
        /\ s[d] = "SEPARATOR" /\ \A i \in p + 2 .. d - 1 : s[i] # "SEPARATOR"
        /\ \/ r = d + 1 /\ s[r] # "SEPARATOR"
           \/ /\ d + 2 < r /\ s[d + 1] = "SEPARATOR" /\ s[r - 1] = "SEPARATOR"
              /\ \A i \in d + 2 .. r - 2 : s[i] \in ExpressionTypes
  BY DEF IsFunction
<1>3. c = d
  <2>1. c < d => c \in p + 2 .. d - 1
    OBVIOUS
  <2>2. d < c => d \in p + 2 .. c - 1
    OBVIOUS
  <2>3. ~(c < d) /\ ~(d < c)
    BY <1>1, <1>2, <2>1, <2>2
  <2> QED BY <2>3
<1>4. "SEPARATOR" \notin ExpressionTypes
  BY DEF ExpressionTypes
<1>5. CASE q = c + 1 /\ s[q] # "SEPARATOR"
  BY <1>2, <1>3, <1>5
<1>6. CASE r = d + 1 /\ s[r] # "SEPARATOR"
  BY <1>1, <1>3, <1>6
<1>7. CASE /\ c + 2 < q /\ s[q - 1] = "SEPARATOR" /\ \A i \in c + 2 .. q - 2 : s[i] \in ExpressionTypes
           /\ c + 2 < r /\ s[r - 1] = "SEPARATOR" /\ \A i \in c + 2 .. r - 2 : s[i] \in ExpressionTypes
  <2>1. q < r => q - 1 \in c + 2 .. r - 2
    BY <1>7
  <2>2. r < q => r - 1 \in c + 2 .. q - 2
    BY <1>7
  <2>3. ~(q < r) /\ ~(r < q)
    BY <1>4, <1>7, <2>1, <2>2
  <2> QED BY <2>3
<1> QED BY <1>1, <1>2, <1>3, <1>5, <1>6, <1>7

Divides(s, last, starts) ==
  /\ starts \in SUBSET (1 .. last) /\ 1 \in starts
  /\ \A p \in starts : s[p] = "EOF" \/ \E q \in starts : q > p /\ IsFunction(s, p, q)

LEMMA ReachedStarts ==
  ASSUME NEW s, NEW last \in Nat, NEW starts, Divides(s, last, starts),
         NEW at \in Nat, Reached(s, at)
  PROVE  at \in starts
<1>1. PICK here \in SUBSET (1 .. at) :
        /\ 1 \in here /\ at \in here
        /\ \A a \in here : a = at \/ \E b \in here : b > a /\ IsFunction(s, a, b)
  BY DEF Reached
<1> DEFINE left == {n \in Nat : at - n \in here /\ at - n \in starts}
<1>2. at - 1 \in left
  <2>1. at - 1 \in Nat /\ at - (at - 1) = 1
    BY <1>1
  <2> QED BY <1>1, <2>1 DEF Divides
<1>3. PICK n \in left : \A m \in left : n <= m
  <2>1. left \in SUBSET Nat /\ left # {}
    BY <1>2
  <2> HIDE DEF left
  <2> QED BY <2>1, LeastElement
<1> DEFINE a == at - n
<1>4. a \in here /\ a \in starts /\ a \in Nat /\ n \in Nat
  <2>1. a \in here /\ a \in starts /\ n \in Nat
    OBVIOUS
  <2> QED BY <1>1, <2>1
<1>5. CASE a = at
  BY <1>4, <1>5
<1>6. CASE a # at
  <2>1. PICK b \in here : b > a /\ IsFunction(s, a, b)
    <3> HIDE DEF a
    <3> QED BY <1>1, <1>4, <1>6
  <2>2. s[a] # "EOF"
    <3>1. s[a] = "IDENTIFIER"
      BY <2>1 DEF IsFunction
    <3> QED BY <3>1
  <2>3. PICK q \in starts : q > a /\ IsFunction(s, a, q)
    <3> HIDE DEF a
    <3> QED BY <1>4, <2>2 DEF Divides
  <2>4. b \in Nat /\ q \in Nat /\ b <= at
    BY <1>1 DEF Divides
  <2>5. b = q
    <3> HIDE DEF a
    <3> QED BY <1>4, <2>1, <2>3, <2>4, OneFunction
  <2>6. at - b \in Nat /\ at - (at - b) = b /\ at - b < n
    BY <1>4, <2>1, <2>4
  <2>7. at - b \in left
    BY <2>1, <2>3, <2>5, <2>6
  <2> QED BY <1>3, <1>4, <2>6, <2>7
<1> QED BY <1>5, <1>6

Where == {"program", "function", "parameters", "body", "block", "statement", "statement done",
          "function done"}

LEMMA GoesOnFrom ==
  ASSUME NEW s, NEW last \in Nat, NEW starts, Divides(s, last, starts),
         NEW at \in 1 .. last, NEW where \in Where, Follows(s, where, at)
  PROVE  /\ s[at] = "EOF" \/ at < last
         /\ where = "program" => s[at] \in {"EOF", "IDENTIFIER"}
         /\ where = "parameters" => at < last
<1>1. ASSUME NEW p \in 1 .. at, Reached(s, p)
      PROVE  s[p] = "EOF" \/ \E q \in 1 .. last : q > p /\ IsFunction(s, p, q)
  <2>1. p \in starts
    BY <1>1, ReachedStarts
  <2>2. \A q \in starts : q \in 1 .. last
    BY DEF Divides
  <2> QED BY <2>1, <2>2 DEF Divides
<1>2. ASSUME NEW p \in 1 .. at, Started(s, p)
      PROVE  \E q \in 1 .. last : q > p /\ IsFunction(s, p, q)
  <2>1. Reached(s, p) /\ s[p] # "EOF"
    BY <1>2 DEF Started
  <2> QED BY <1>1, <2>1
<1>3. CASE where = "program"
  <2>1. s[at] = "EOF" \/ \E q \in 1 .. last : q > at /\ IsFunction(s, at, q)
    BY <1>1, <1>3 DEF Follows
  <2>2. s[at] = "EOF" \/ (at < last /\ s[at] = "IDENTIFIER")
    BY <2>1 DEF IsFunction
  <2> QED BY <1>3, <2>2
<1>4. CASE where = "function done"
  <2>1. PICK p \in 1 .. at : Reached(s, p) /\ p < at /\ IsFunction(s, p, at)
    BY <1>4 DEF Follows
  <2>2. Reached(s, at)
    BY <2>1, ReachedNext
  <2>3. s[at] = "EOF" \/ \E q \in 1 .. last : q > at /\ IsFunction(s, at, q)
    BY <1>1, <2>2
  <2>4. s[at] = "EOF" \/ at < last
    BY <2>3
  <2> QED BY <1>4, <2>4
<1>5. CASE where = "function"
  <2>1. PICK p \in 1 .. at : Started(s, p) /\ at = p + 1
    BY <1>5 DEF Follows
  <2>2. PICK q \in 1 .. last : IsFunction(s, p, q)
    BY <1>2, <2>1
  <2> QED BY <1>5, <2>1, <2>2 DEF IsFunction
<1>6. CASE where = "parameters"
  <2>1. PICK p \in 1 .. at : Started(s, p) /\ \A i \in p + 2 .. at - 1 : s[i] # "SEPARATOR"
    BY <1>6 DEF Follows, InParameters
  <2>2. PICK q \in 1 .. last : IsFunction(s, p, q)
    BY <1>2, <2>1
  <2>3. PICK c \in p + 2 .. q - 1 : s[c] = "SEPARATOR"
    BY <2>2 DEF IsFunction
  <2>4. ~(c <= at - 1)
    BY <2>1, <2>3
  <2> QED BY <1>6, <2>4
<1>7. CASE where = "body"
  <2>1. PICK p \in 1 .. at, c \in 1 .. at : Headed(s, p, c) /\ at = c + 1
    BY <1>7 DEF Follows
  <2>2. PICK q \in 1 .. last : IsFunction(s, p, q)
    BY <1>2, <2>1 DEF Headed
  <2>3. PICK d \in p + 2 .. q - 1 :
          /\ s[d] = "SEPARATOR" /\ \A i \in p + 2 .. d - 1 : s[i] # "SEPARATOR"
          /\ q = d + 1 \/ d + 2 < q
    BY <2>2 DEF IsFunction
  <2>4. c = d
    <3>1. c \in p + 2 .. c /\ s[c] = "SEPARATOR" /\ \A i \in p + 2 .. c - 1 : s[i] # "SEPARATOR"
      BY <2>1 DEF Headed
    <3>2. ~(c <= d - 1) /\ ~(d <= c - 1)
      BY <2>3, <3>1
    <3> QED BY <3>2
  <2>5. q = at \/ at < q
    BY <2>1, <2>3, <2>4
  <2>6. q = at => Reached(s, at)
    BY <2>1, <2>2, ReachedNext DEF Headed, Started
  <2>7. s[at] = "EOF" \/ at < last
    BY <1>1, <2>5, <2>6
  <2> QED BY <1>7, <2>7
<1>8. CASE where \in InBlock
  <2>1. PICK p \in 1 .. at, c \in 1 .. at :
          /\ Headed(s, p, c) /\ s[c + 1] = "SEPARATOR" /\ c + 1 < at
          /\ \A i \in c + 2 .. at - 1 : s[i] \in ExpressionTypes
    BY <1>8 DEF Follows, InBody
  <2>2. PICK q \in 1 .. last : IsFunction(s, p, q)
    BY <1>2, <2>1 DEF Headed
  <2>3. PICK d \in p + 2 .. q - 1 :
          /\ s[d] = "SEPARATOR" /\ \A i \in p + 2 .. d - 1 : s[i] # "SEPARATOR"
          /\ \/ q = d + 1 /\ s[q] # "SEPARATOR"
             \/ d + 2 < q /\ s[q - 1] = "SEPARATOR"
    BY <2>2 DEF IsFunction
  <2>4. c = d
    <3>1. c \in p + 2 .. c /\ s[c] = "SEPARATOR" /\ \A i \in p + 2 .. c - 1 : s[i] # "SEPARATOR"
      BY <2>1 DEF Headed
    <3>2. ~(c <= d - 1) /\ ~(d <= c - 1)
      BY <2>3, <3>1
    <3> QED BY <3>2
  <2>5. c + 2 < q /\ s[q - 1] = "SEPARATOR"
    BY <2>1, <2>3, <2>4
  <2>6. "SEPARATOR" \notin ExpressionTypes
    BY DEF ExpressionTypes
  <2>7. ~(q - 1 <= at - 1)
    BY <2>1, <2>5, <2>6
  <2>8. where # "program"
    BY <1>8 DEF InBlock
  <2> QED BY <2>7, <2>8
<1> QED BY <1>3, <1>4, <1>5, <1>6, <1>7, <1>8 DEF Where, InBlock

(* GInv, without the places at which the descent sticks, and without the   *)
(* loops that spin there.                                                  *)
Keeping ==
  /\ Descending /\ Room /\ Grammatical => Follows(Stream, pc, index + 1)
  /\ Parsing /\ tokens = <<>> => pc \in {"program", "flat"}
  /\ NoLoopSpins

LEMMA KeepingOn ==
  ASSUME Inv, Keeping, Descending, Room, Grammatical
  PROVE  /\ ~Stuck /\ (pc = "program" => Is("EOF") \/ Expected("IDENTIFIER"))
         /\ pc = "parameters" => CanAdvance
<1> DEFINE s == Stream
           at == index + 1
           last == Len(tokens) + 1
<1>1. /\ at \in 1 .. last /\ last \in Nat /\ DOMAIN s = 1 .. last
      /\ \A t : Is(t) <=> s[at] = t
      /\ CanAdvance <=> at < last
  <2>1. /\ index + 1 \in Nat \ {0} /\ index + 1 \in DOMAIN Stream /\ Len(tokens) \in Nat
        /\ \A t : Is(t) <=> Stream[index + 1] = t
    BY TokenAt
  <2>2. DOMAIN Stream = 1 .. Len(tokens) + 1
    BY DEF Stream
  <2>3. index \in Nat
    BY Apart DEF CursorType
  <2> QED BY <2>1, <2>2, <2>3 DEF CanAdvance
<1>2. PICK starts : Divides(s, last, starts)
  <2>1. PICK starts \in SUBSET DOMAIN s :
          /\ 1 \in starts
          /\ \A p \in starts : s[p] = "EOF" \/ \E q \in starts : q > p /\ IsFunction(s, p, q)
    BY DEF Grammatical, Descending
  <2> HIDE DEF s, last
  <2> QED BY <1>1, <2>1 DEF Divides
<1>3. pc \in Where
  <2>1. pc \in Pcs
    BY Apart
  <2> QED BY <2>1 DEF Pcs, Where, Descending, Parsing
<1>4. Follows(s, pc, at)
  BY DEF Keeping
<1> HIDE DEF s, at, last
<1>5. (s[at] = "EOF" \/ at < last) /\ (pc = "program" => s[at] \in {"EOF", "IDENTIFIER"})
      /\ (pc = "parameters" => at < last)
  BY <1>1, <1>2, <1>3, <1>4, GoesOnFrom
<1> QED BY <1>1, <1>5 DEF Stuck, Expected

(* A loop that spins has run out of nodes, or strayed from the grammar.    *)
LEMMA KeepingOut ==
  ASSUME Inv, Keeping, Spin, Room
  PROVE  ~Grammatical
<1>1. pc \in {"program", "parameters", "block"} /\ SpinsAt(pc)
  BY DEF Spin, SpinsAt
<1>2. tokens # <<>>
  <2>1. SUFFICES ASSUME tokens = <<>> PROVE FALSE
    OBVIOUS
  <2>2. current = 0 /\ pc = "program"
    BY <1>1, <2>1 DEF Inv, Cursor, Keeping, Parsing
  <2> QED BY <1>1, <2>2 DEF SpinsAt
<1>3. Descending
  BY <1>1, <1>2 DEF Descending, Parsing
<1> QED BY <1>1, <1>3, KeepingOn DEF SpinsAt

LEMMA KeepingStep == Inv /\ Keeping /\ [Next]_vars => Keeping'
<1> SUFFICES ASSUME Inv, Keeping, [Next]_vars PROVE Keeping'
  OBVIOUS
<1>1. CASE Descend
  <2>1. tokens' = tokens /\ maxNodes' = maxNodes
    BY <1>1 DEF Descend, tokenizer
  <2>2. Stream' = Stream
    BY <2>1 DEF Stream
  <2>3. Grammatical' = Grammatical
    BY <2>1, <2>2 DEF Grammatical
  <2>4. Parsing /\ pc \notin {"overrun", "spinning"}
    BY <1>1 DEF Descend, BeginFunction, OpenParameters, SkipParameter, CloseParameters, BeginBlock,
         BeginStatement, ParseExpression, EndStatement, EndBlock, EndFunction, EndProgram,
         ReturnAst, Spin, SpinsAt, Parsing
  <2>5. (pc = "flat" => ~Parsing') /\ (EndProgram => pc' = "flat")
    BY <1>1 DEF Descend, BeginFunction, OpenParameters, SkipParameter, CloseParameters, BeginBlock,
         BeginStatement, ParseExpression, EndStatement, EndBlock, EndFunction, EndProgram,
         ReturnAst, Spin, SpinsAt, Parsing
  <2>6. ASSUME Descending', Room', Grammatical'
        PROVE  Follows(Stream', pc', index' + 1)
    <3>1. /\ Descending /\ pc # "flat" /\ ~EndProgram
          /\ pc' \notin {"overrun", "spinning"}
      BY <2>1, <2>4, <2>5, <2>6 DEF Descending
    <3>2. Room
      BY <1>1, <2>6, <3>1, RoomGone
    <3>3. ~Stuck /\ Follows(Stream, pc, index + 1)
      BY <2>3, <2>6, <3>1, <3>2, KeepingOn DEF Keeping
    <3> QED BY <1>1, <3>1, <3>2, <3>3, FollowsStep
  <2>7. ASSUME Parsing', tokens' = <<>>
        PROVE  pc' \in {"program", "flat"}
    <3>1. pc = "program" /\ current = 0
      BY <2>1, <2>4, <2>5, <2>7 DEF Keeping, Inv, Cursor
    <3>2. BeginFunction \/ EndProgram
      BY <1>1, <3>1 DEF Descend, OpenParameters, SkipParameter, CloseParameters, BeginBlock,
         BeginStatement, ParseExpression, EndStatement, EndBlock, EndFunction, ReturnAst,
         Spin, SpinsAt
    <3>3. ~BeginFunction
      BY <3>1 DEF BeginFunction, Expected, Is
    <3> QED BY <2>5, <3>2, <3>3
  <2>8. ASSUME pc' = "spinning", Room'
        PROVE  ~Grammatical'
    <3>1. Spin
      BY <1>1, <2>4, <2>8 DEF Descend, BeginFunction, OpenParameters, SkipParameter,
         CloseParameters, BeginBlock, BeginStatement, ParseExpression, EndStatement, EndBlock,
         EndFunction, EndProgram, ReturnAst, LinkUnchecked
    <3>2. Room
      BY <1>1, <2>8, <3>1, RoomGone DEF Spin, SpinsAt
    <3> QED BY <2>3, <3>1, <3>2, KeepingOut
  <2> QED BY <2>6, <2>7, <2>8 DEF Keeping, NoLoopSpins
<1>2. CASE UseTokenizer \/ ScanFails \/ \E input \in Inputs : ParseString(input)
  <2>1. pc' \in {"idle", "scan"}
    BY <1>2 DEF UseTokenizer, ScanFails, ParseString, parser
  <2> QED BY <2>1 DEF Keeping, Descending, Parsing, NoLoopSpins
<1>3. CASE ScanStep
  <2>1. Scanning /\ Cursor /\ pc' = pc
    BY <1>3 DEF ScanStep, Scan, SkipBlank, Match, Unmatched, EndOfInput, Inv, parser
  <2>2. pc' \in {"idle", "scan"}
    BY <2>1 DEF Cursor, Parsing
  <2> QED BY <2>2 DEF Keeping, Descending, Parsing, NoLoopSpins
<1>4. CASE BeginProgram
  <2>1. pc' = "program" /\ index' + 1 = 1
    BY <1>4 DEF BeginProgram
  <2>2. Follows(Stream', pc', index' + 1)
    BY <2>1, ReachedOne DEF Follows, InBlock
  <2> QED BY <2>1, <2>2 DEF Keeping, NoLoopSpins
<1>5. CASE UNCHANGED vars
  <2>1. tokens' = tokens /\ pc' = pc /\ index' = index /\ used' = used /\ maxNodes' = maxNodes
    BY <1>5 DEF vars, parser, tokenizer, cursor, tree
  <2>2. Stream' = Stream
    BY <2>1 DEF Stream
  <2>3. Grammatical' = Grammatical
    BY <2>1, <2>2 DEF Grammatical
  <2>4. Room' = Room /\ Descending' = Descending /\ Parsing' = Parsing
    BY <2>1 DEF Room, Descending, Parsing
  <2> QED BY <2>1, <2>2, <2>3, <2>4 DEF Keeping, NoLoopSpins
<1> QED BY <1>1, <1>2, <1>3, <1>4, <1>5 DEF Next

LEMMA KeepingInit == Init => Keeping
BY DEF Init, Keeping, Descending, Parsing, NoLoopSpins

(* On a grammatical stream no loop of the descent spins as long as there   *)
(* are nodes.                                                              *)
THEOREM NeverSpins == Spec => []NoLoopSpins
<1>1. Keeping => NoLoopSpins
  BY DEF Keeping
<1> QED BY InitInv, InvStep, KeepingInit, KeepingStep, <1>1, PTL DEF Spec
-----------------------------------------------------------------------------
(* Work goes down.                                                         *)

Counted(l, i, m, u, a) == 5 * ((l - i) + (m - u)) + a

(* It is enough to come nearer the end with what has been read and taken,  *)
(* or to read or take, and to be less than a round farther from the end.   *)
LEMMA CountsDown ==
  ASSUME NEW l \in Nat, NEW m \in Nat, NEW i \in Nat, NEW u \in Nat, NEW a \in Nat,
         NEW j, NEW v, NEW b \in Nat, j = i \/ j = i + 1, v = u \/ v = u + 1,
         b < a \/ (b < a + 5 /\ (j = i + 1 \/ v = u + 1))
  PROVE  Counted(l, j, m, v, b) < Counted(l, i, m, u, a)
BY DEF Counted

LEMMA WorkStep ==
  ASSUME Inv, Descend
  PROVE  Work' < Work
<1>1. /\ Len(tokens) \in Nat /\ index \in Nat /\ used \in Nat /\ maxNodes \in Nat
      /\ index <= Len(tokens) /\ used <= maxNodes
  <2>1. PoolType /\ CursorType /\ Cursor /\ Parsing
    BY Apart DEF Descend, BeginFunction, OpenParameters, SkipParameter, CloseParameters,
         BeginBlock, BeginStatement, ParseExpression, EndStatement, EndBlock, EndFunction,
         EndProgram, ReturnAst, Spin, SpinsAt, Parsing
  <2>2. TokenizerTypeOK /\ index \in 0 .. Capacity /\ index <= Len(tokens)
    BY <2>1 DEF CursorType
  <2>3. Len(tokens) \in Nat /\ index \in Nat
    BY <2>2, TokenizerConstantsOK DEF TokenizerTypeOK
  <2>4. used \in Nat /\ maxNodes \in Nat /\ used <= maxNodes
    BY <2>1 DEF PoolType
  <2> QED BY <2>2, <2>3, <2>4
<1>2. tokens' = tokens /\ maxNodes' = maxNodes
  BY DEF Descend, tokenizer
<1>3. /\ Advance => index' = index + 1
      /\ UNCHANGED cursor => index' = index
      /\ TryAdvance => index' = index \/ index' = index + 1
      /\ \A t : TryExpect(t) => index' = index \/ index' = index + 1
      /\ \A t : Expected(t) /\ TryExpect(t) => index' = index + 1
      /\ \A t : Allocate(t) => used' = used + 1
      /\ UNCHANGED tree => used' = used
  BY DEF Advance, TryAdvance, TryExpect, Allocate, cursor, tree
<1>4. CASE ReturnAst
  <2>1. pc = "flat" /\ pc' = "idle"
    BY <1>4 DEF ReturnAst
  <2>2. Work' = 0 /\ Work = Counted(Len(tokens), index, maxNodes, used, 1)
    BY <2>1 DEF Work, Ahead, Counted
  <2> QED BY <1>1, <2>2 DEF Counted
<1>5. CASE ~ReturnAst
  <2> DEFINE from == Ahead(pc)
             to == Ahead(pc')
  <2>1. SUFFICES /\ pc \notin {"idle", "scan"} /\ pc' \notin {"idle", "scan"}
                 /\ index' = index \/ index' = index + 1
                 /\ used' = used \/ used' = used + 1
                 /\ from \in Nat /\ to \in Nat
                 /\ \/ to < from
                    \/ /\ to < from + 5
                       /\ index' = index + 1 \/ used' = used + 1
    <3>1. Work = Counted(Len(tokens), index, maxNodes, used, Ahead(pc))
      BY <2>1 DEF Work, Counted
    <3>2. Work' = Counted(Len(tokens), index', maxNodes, used', Ahead(pc'))
      BY <1>2, <2>1 DEF Work, Counted
    <3> QED BY <1>1, <2>1, <3>1, <3>2, CountsDown
  <2>2. /\ Ahead("program") = 2 /\ Ahead("function") = 6 /\ Ahead("parameters") = 5
        /\ Ahead("body") = 4 /\ Ahead("block") = 4 /\ Ahead("statement") = 6
        /\ Ahead("statement done") = 5 /\ Ahead("function done") = 3 /\ Ahead("flat") = 1
        /\ Ahead("overrun") = 0 /\ Ahead("spinning") = 0
    BY DEF Ahead
  <2>3. CASE BeginFunction
    <3>1. pc = "program" /\ pc' \in {"function", "program"} /\ index' = index + 1
          /\ (used' = used \/ used' = used + 1)
      BY <1>3, <2>3 DEF BeginFunction
    <3>2. from = 2 /\ to \in {2, 6}
      BY <2>2, <3>1
    <3>3. pc \notin {"idle", "scan"} /\ pc' \notin {"idle", "scan"}
      BY <3>1
    <3> HIDE DEF from, to
    <3> QED BY <3>1, <3>2, <3>3
  <2>4. CASE OpenParameters
    <3>1. pc = "function" /\ pc' = "parameters" /\ (index' = index \/ index' = index + 1) /\ used' = used
      BY <1>3, <2>4 DEF OpenParameters
    <3>2. from = 6 /\ to = 5
      BY <2>2, <3>1
    <3>3. pc \notin {"idle", "scan"} /\ pc' \notin {"idle", "scan"}
      BY <3>1
    <3> HIDE DEF from, to
    <3> QED BY <3>1, <3>2, <3>3
  <2>5. CASE SkipParameter
    <3>1. pc = "parameters" /\ pc' = "parameters" /\ index' = index + 1 /\ used' = used
      BY <1>3, <2>5 DEF SkipParameter
    <3>2. from = 5 /\ to = 5
      BY <2>2, <3>1
    <3>3. pc \notin {"idle", "scan"} /\ pc' \notin {"idle", "scan"}
      BY <3>1
    <3> HIDE DEF from, to
    <3> QED BY <3>1, <3>2, <3>3
  <2>6. CASE CloseParameters
    <3>1. pc = "parameters" /\ pc' = "body" /\ (index' = index \/ index' = index + 1) /\ used' = used
      BY <1>3, <2>6 DEF CloseParameters
    <3>2. from = 5 /\ to = 4
      BY <2>2, <3>1
    <3>3. pc \notin {"idle", "scan"} /\ pc' \notin {"idle", "scan"}
      BY <3>1
    <3> HIDE DEF from, to
    <3> QED BY <3>1, <3>2, <3>3
  <2>7. CASE BeginBlock
    <3>1. /\ pc = "body" /\ (index' = index \/ index' = index + 1)
          /\ \/ pc' = "block" /\ used' = used + 1
             \/ pc' = "function done" /\ used' = used
      BY <1>3, <2>7 DEF BeginBlock
    <3>2. from = 4 /\ ((to = 4 /\ used' = used + 1) \/ (to = 3 /\ used' = used))
      BY <2>2, <3>1
    <3>3. pc \notin {"idle", "scan"} /\ pc' \notin {"idle", "scan"}
          /\ (index' = index \/ index' = index + 1) /\ (used' = used \/ used' = used + 1)
      BY <3>1
    <3> HIDE DEF from, to
    <3> QED BY <3>2, <3>3
  <2>8. CASE BeginStatement
    <3>1. pc = "block" /\ pc' = "statement" /\ index' = index /\ used' = used + 1
      BY <1>3, <2>8 DEF BeginStatement
    <3>2. from = 4 /\ to = 6
      BY <2>2, <3>1
    <3>3. pc \notin {"idle", "scan"} /\ pc' \notin {"idle", "scan"}
      BY <3>1
    <3> HIDE DEF from, to
    <3> QED BY <3>1, <3>2, <3>3
  <2>9. CASE ParseExpression
    <3>1. pc = "statement" /\ pc' = "statement done" /\ (index' = index \/ index' = index + 1)
          /\ (used' = used \/ used' = used + 1)
      BY <1>3, <2>9 DEF ParseExpression, cursor, tree
    <3>2. from = 6 /\ to = 5
      BY <2>2, <3>1
    <3>3. pc \notin {"idle", "scan"} /\ pc' \notin {"idle", "scan"}
          /\ (index' = index \/ index' = index + 1) /\ (used' = used \/ used' = used + 1)
      BY <3>1
    <3> HIDE DEF from, to
    <3> QED BY <3>2, <3>3
  <2>10. CASE EndStatement
    <3>1. pc = "statement done" /\ pc' \in {"block", "overrun"} /\ index' = index /\ used' = used
      BY <1>3, <2>10 DEF EndStatement, LinkUnchecked
    <3>2. from = 5 /\ to \in {0, 4}
      BY <2>2, <3>1
    <3>3. pc \notin {"idle", "scan"} /\ pc' \notin {"idle", "scan"}
          /\ (index' = index \/ index' = index + 1) /\ (used' = used \/ used' = used + 1)
      BY <3>1
    <3> HIDE DEF from, to
    <3> QED BY <3>2, <3>3
  <2>11. CASE EndBlock
    <3>1. pc = "block" /\ pc' = "function done" /\ (index' = index \/ index' = index + 1) /\ used' = used
      BY <1>3, <2>11 DEF EndBlock
    <3>2. from = 4 /\ to = 3
      BY <2>2, <3>1
    <3>3. pc \notin {"idle", "scan"} /\ pc' \notin {"idle", "scan"}
          /\ (index' = index \/ index' = index + 1) /\ (used' = used \/ used' = used + 1)
      BY <3>1
    <3> HIDE DEF from, to
    <3> QED BY <3>2, <3>3
  <2>12. CASE EndFunction
    <3>1. pc = "function done" /\ pc' \in {"program", "overrun"} /\ index' = index /\ used' = used
      BY <1>3, <2>12 DEF EndFunction, LinkUnchecked
    <3>2. from = 3 /\ to \in {0, 2}
      BY <2>2, <3>1
    <3>3. pc \notin {"idle", "scan"} /\ pc' \notin {"idle", "scan"}
          /\ (index' = index \/ index' = index + 1) /\ (used' = used \/ used' = used + 1)
      BY <3>1
    <3> HIDE DEF from, to
    <3> QED BY <3>2, <3>3
  <2>13. CASE EndProgram
    <3>1. pc = "program" /\ pc' = "flat" /\ index' = index /\ used' = used
      BY <1>3, <2>13 DEF EndProgram
    <3>2. from = 2 /\ to = 1
      BY <2>2, <3>1
    <3>3. pc \notin {"idle", "scan"} /\ pc' \notin {"idle", "scan"}
      BY <3>1
    <3> HIDE DEF from, to
    <3> QED BY <3>1, <3>2, <3>3
  <2>14. CASE Spin
    <3>1. pc \in {"program", "parameters", "block"} /\ pc' = "spinning" /\ index' = index /\ used' = used
      BY <1>3, <2>14 DEF Spin, SpinsAt
    <3>2. from \in {2, 4, 5} /\ to = 0
      BY <2>2, <3>1
    <3>3. pc \notin {"idle", "scan"} /\ pc' \notin {"idle", "scan"}
      BY <3>1
    <3> HIDE DEF from, to
    <3> QED BY <3>1, <3>2, <3>3
  <2> QED BY <1>5, <2>3, <2>4, <2>5, <2>6, <2>7, <2>8, <2>9, <2>10, <2>11, <2>12, <2>13, <2>14 DEF Descend
<1> QED BY <1>4, <1>5

LEMMA WorkCounts ==
  ASSUME Inv
  PROVE  Work \in Nat
<1>1. Ahead(pc) \in Nat
  BY DEF Ahead
<1>2. CASE ~Parsing
  BY <1>2 DEF Work, Parsing
<1>3. CASE Parsing
  <2> DEFINE a == Ahead(pc)
  <2>1. PoolType /\ CursorType
    BY Apart
  <2>2. /\ Len(tokens) \in Nat /\ index \in Nat /\ index <= Len(tokens)
        /\ used \in Nat /\ maxNodes \in Nat /\ used <= maxNodes
    BY <1>3, <2>1, TokenizerConstantsOK DEF CursorType, TokenizerTypeOK, PoolType
  <2>3. Work = 5 * ((Len(tokens) - index) + (maxNodes - used)) + a
    BY <1>3 DEF Work, Parsing
  <2> HIDE DEF a
  <2>4. a \in Nat
    BY <1>1 DEF a
  <2> QED BY <2>2, <2>3, <2>4
<1> QED BY <1>2, <1>3

(* On every stream of tokens, parse_tokens comes in a bounded number of    *)
(* steps (five for each token and node, and the way to the end of a round) *)
(* to its return, to a write behind an array of children, or to a loop     *)
(* that it goes round for ever.  The last is a step of its own, and        *)
(* NeverSpins and EndsOnPrograms say on which streams it is taken.         *)
THEOREM AlwaysAdvances == Spec => DescentAdvances
<1> DEFINE Counts == Work \in Nat
<1>1. Inv => Counts
  BY WorkCounts
<1>2. Inv /\ Counts /\ Counts' /\ [Next]_vars => [Descend => Work' \in 0 .. Work - 1]_vars
  <2>1. SUFFICES ASSUME Inv, Counts, Counts', Descend PROVE Work' \in 0 .. Work - 1
    OBVIOUS
  <2>2. Work' < Work
    BY <2>1, WorkStep
  <2> QED BY <2>1, <2>2
<1> HIDE DEF Counts
<1> QED BY InitInv, InvStep, <1>1, <1>2, PTL DEF Spec, DescentAdvances
=============================================================================
