------------------------------ MODULE Patricia -------------------------------
(***************************************************************************)
(* The tries of patricia.c: nodes that branch on one bit, some holding a     *)
(* prefix, others only glue between two children; and their use for limits   *)
(* of connections, counted in the nodes' data.  A prefix is kept with the    *)
(* whole address it was made from, of which its first len bits count.        *)
(***************************************************************************)
EXTENDS Naturals, FiniteSets, SequencesExt

CONSTANTS
  Address,   \* addresses, sequences of Bits bits
  Bits,      \* maxbits
  PerPrefix, \* number_per_cidr
  MaxNodes   \* bound on the nodes in memory

Node == 1..MaxNodes
Nil == 0
NoPrefix == [addr |-> <<>>, len |-> 0]
Masked == [addr : Address, len : 1..Bits]
Free == [bit |-> 0, prefix |-> NoPrefix, l |-> Nil, r |-> Nil, parent |-> Nil, data |-> 0]

VARIABLES
  trie,      \* head, and the nodes
  asked      \* the address a connection was last given back for
patriciaVars == <<trie, asked>>

BIT_TEST(addr, bit) == addr[bit + 1] = 1
Used(t) == {n \in Node : t.node[n] # Free}
Holding(t, n) == t.node[n].prefix # NoPrefix
comp_with_mask(a, b, len) == SubSeq(a, 1, len) = SubSeq(b, 1, len)
FreeNode(t) == CHOOSE n \in Node \ Used(t) : \A m \in Node \ Used(t) : n <= m

-----------------------------------------------------------------------------
(* Looking for a prefix. *)

\* Down to the first node whose bit is not less than len, or out of the tree; the nodes
\* with a prefix met before it are put on the stack.
RECURSIVE Down(_, _, _, _)
Down(t, n, p, stack) ==
  IF n = Nil \/ t.node[n].bit >= p.len THEN [at |-> n, stack |-> stack]
  ELSE Down(t, IF BIT_TEST(p.addr, t.node[n].bit) THEN t.node[n].r ELSE t.node[n].l, p,
            IF Holding(t, n) THEN <<n>> \o stack ELSE stack)

Covers(t, n, p) == /\ t.node[n].prefix.len <= p.len
                   /\ comp_with_mask(t.node[n].prefix.addr, p.addr, t.node[n].prefix.len)

patricia_search_exact(t, p) ==
  LET n == Down(t, t.head, p, <<>>).at
  IN IF n = Nil \/ t.node[n].bit > p.len \/ ~Holding(t, n) \/ ~comp_with_mask(t.node[n].prefix.addr, p.addr, p.len)
     THEN Nil ELSE n

patricia_search_best(t, p) ==
  LET d     == Down(t, t.head, p, <<>>)
      stack == IF d.at # Nil /\ Holding(t, d.at) THEN <<d.at>> \o d.stack ELSE d.stack
      hits  == SelectSeq(stack, LAMBDA n : Covers(t, n, p))
  IN IF hits = <<>> THEN Nil ELSE Head(hits)

-----------------------------------------------------------------------------
(* Making a node. *)

\* Down to a node with a prefix to compare with.
RECURSIVE Compared(_, _, _)
Compared(t, n, p) ==
  LET x    == t.node[n]
      next == IF x.bit < Bits /\ BIT_TEST(p.addr, x.bit) THEN x.r ELSE x.l
  IN IF (x.bit >= p.len /\ Holding(t, n)) \/ next = Nil THEN n ELSE Compared(t, next, p)

\* The first bit in which the addresses differ, no further than both prefixes reach.
DifferBit(t, n, p) ==
  LET check == IF t.node[n].bit < p.len THEN t.node[n].bit ELSE p.len
      a == t.node[n].prefix.addr
      off == {i \in 1..check : a[i] # p.addr[i]}
  IN IF off = {} THEN check ELSE (CHOOSE i \in off : \A j \in off : i <= j) - 1

RECURSIVE Climb(_, _, _)
Climb(t, n, bit) == LET up == t.node[n].parent
                    IN IF up # Nil /\ t.node[up].bit >= bit THEN Climb(t, up, bit) ELSE n

\* Where n hung, m hangs.
Replace(t, n, m) ==
  LET up == t.node[n].parent
  IN IF up = Nil THEN [t EXCEPT !.head = m]
     ELSE IF t.node[up].r = n THEN [t EXCEPT !.node[up].r = m] ELSE [t EXCEPT !.node[up].l = m]

\* Mutation: the sides of the glue are taken from the address of the node that was there.
Glued_swapped(t, n, new, p, bit) ==
  LET g  == FreeNode(t)
      up == t.node[n].parent
      right == ~BIT_TEST(p.addr, bit)
      s == [t EXCEPT !.node[g] = [Free EXCEPT !.bit = bit, !.parent = up, !.r = IF right THEN new ELSE n,
                                              !.l = IF right THEN n ELSE new],
                     !.node[new].parent = g]
  IN [Replace(s, n, g) EXCEPT !.node[n].parent = g]
Glued(t, n, new, p, bit) ==
  LET g  == FreeNode(t)
      up == t.node[n].parent
      right == BIT_TEST(p.addr, bit)
      s == [t EXCEPT !.node[g] = [Free EXCEPT !.bit = bit, !.parent = up, !.r = IF right THEN new ELSE n,
                                              !.l = IF right THEN n ELSE new],
                     !.node[new].parent = g]
  IN [Replace(s, n, g) EXCEPT !.node[n].parent = g]

\* The new node as a child of n, as its parent, or beside it under glue; near is the
\* address it was compared with, which is below n.
Inserted(t, n, p, bit, near) ==
  LET new   == FreeNode(t)
      s     == [t EXCEPT !.node[new] = [Free EXCEPT !.bit = p.len, !.prefix = p]]
      up    == t.node[n].parent
      over  == IF p.len < Bits /\ BIT_TEST(near, p.len) THEN [s EXCEPT !.node[new].r = n]
               ELSE [s EXCEPT !.node[new].l = n]
  IN [node |-> new,
      t |-> CASE t.node[n].bit = bit ->
                   IF t.node[n].bit < Bits /\ BIT_TEST(p.addr, t.node[n].bit)
                   THEN [s EXCEPT !.node[new].parent = n, !.node[n].r = new]
                   ELSE [s EXCEPT !.node[new].parent = n, !.node[n].l = new]
              [] t.node[n].bit # bit /\ p.len = bit ->
                   [Replace([over EXCEPT !.node[new].parent = up], n, new) EXCEPT !.node[n].parent = new]
              [] OTHER -> Glued(s, n, new, p, bit)]

patricia_lookup(t, p) ==
  LET at  == Compared(t, t.head, p)
      bit == DifferBit(t, at, p)
      n   == Climb(t, at, bit)
      new == FreeNode(t)
  IN IF t.head = Nil
     THEN [node |-> new, t |-> [t EXCEPT !.head = new, !.node[new] = [Free EXCEPT !.bit = p.len, !.prefix = p]]]
     ELSE IF bit = p.len /\ t.node[n].bit = p.len
     THEN [node |-> n, t |-> IF Holding(t, n) THEN t ELSE [t EXCEPT !.node[n].prefix = p]]
     ELSE Inserted(t, n, p, bit, t.node[at].prefix.addr)

-----------------------------------------------------------------------------
(* Removing a node, and the glue that would be left with one child. *)

patricia_remove(t, n) ==
  LET x  == t.node[n]
      up == x.parent
      child == IF x.r # Nil THEN x.r ELSE x.l
      gone == [t EXCEPT !.node[n] = Free]
      \* A leaf: its sibling takes the place of their parent, when that is glue.
      sibling == IF t.node[up].r = n THEN t.node[up].l ELSE t.node[up].r
      cut == IF t.node[up].r = n THEN [gone EXCEPT !.node[up].r = Nil] ELSE [gone EXCEPT !.node[up].l = Nil]
      short == [Replace(cut, up, sibling) EXCEPT !.node[sibling].parent = t.node[up].parent, !.node[up] = Free]
  IN IF x.r # Nil /\ x.l # Nil THEN [t EXCEPT !.node[n].prefix = NoPrefix, !.node[n].data = 0]
     ELSE IF x.r = Nil /\ x.l = Nil
     THEN IF up = Nil THEN [gone EXCEPT !.head = Nil] ELSE IF Holding(t, up) THEN cut ELSE short
     ELSE [Replace(t, n, child) EXCEPT !.node[child].parent = up, !.node[n] = Free]

EmptyTrie == [head |-> Nil, node |-> [n \in Node |-> Free]]
patricia_clear == trie' = EmptyTrie /\ asked' = <<>>

-----------------------------------------------------------------------------
(* Connections counted. *)

\* A connection of a class, by the class's number of bits, or of an address for the
\* throttle, by all of them.  exceed: the limit does not hold for it.
class_ip_limit_add(p, exceed) ==
  LET f == patricia_lookup(trie, p)
  IN /\ Cardinality(Used(trie)) + 2 <= MaxNodes /\ asked' = <<>>
     /\ trie' = IF f.t.node[f.node].data >= PerPrefix /\ ~exceed THEN f.t
                ELSE [f.t EXCEPT !.node[f.node].data = @ + 1]

Whole(a) == [addr |-> a, len |-> Bits]
Less(n) == IF n = Nil THEN trie
           ELSE IF trie.node[n].data = 1 THEN patricia_remove(trie, n)
           ELSE [trie EXCEPT !.node[n].data = @ - 1]
class_ip_limit_remove(a) == asked' = a /\ trie' = Less(patricia_search_best(trie, Whole(a)))
\* The tries of the throttle hold whole addresses only.
ipcache_record_remove(a) == /\ \A n \in Used(trie) : Holding(trie, n) => trie.node[n].prefix.len = Bits
                            /\ asked' = a /\ trie' = Less(patricia_search_exact(trie, Whole(a)))

PatriciaInit == trie = EmptyTrie /\ asked = <<>>
PatriciaNext == \/ \E p \in Masked, exceed \in BOOLEAN : class_ip_limit_add(p, exceed)
                \/ \E a \in Address : class_ip_limit_remove(a) \/ ipcache_record_remove(a)
                \/ patricia_clear

-----------------------------------------------------------------------------
(* Properties *)

Stands(n) == SubSeq(trie.node[n].prefix.addr, 1, trie.node[n].prefix.len)
Holders == {n \in Node : Holding(trie, n)}

\* Whatever order prefixes are added and removed in, glue made and taken out again, and
\* whatever bits the addresses have past their prefixes, the trie counts as a table of
\* prefixes does: nothing is lost, found twice or given back from another prefix
\* (patricia.c:394, 496 and 738, conf_class.c:200 and 221, ipcache.c:79).
Table == INSTANCE PrefixCounts WITH
  counts <- [p \in {Stands(n) : n \in Holders} |-> trie.node[CHOOSE n \in Holders : Stands(n) = p].data]
PrefixesCounted == Table!PrefixSpec
=============================================================================
