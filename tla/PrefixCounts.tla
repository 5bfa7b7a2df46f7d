---------------------------- MODULE PrefixCounts -----------------------------
(***************************************************************************)
(* What a trie of network prefixes is for: connections are counted by the    *)
(* prefix they are of, and given back from the longest prefix counted that   *)
(* their address lies in.                                                    *)
(***************************************************************************)
EXTENDS Naturals, Sequences, SequencesExt

CONSTANTS Address, Bits

Prefix == {SubSeq(a, 1, n) : a \in Address, n \in 1..Bits}

VARIABLES
  counts,     \* of the prefixes that have any
  asked       \* the address last given back, none after other calls

Live == DOMAIN counts
Around(a) == {p \in Live : IsPrefix(p, a)}
Best(a) == CHOOSE p \in Around(a) : \A q \in Around(a) : Len(q) <= Len(p)

Set(p, n) == counts' = [q \in (IF n = 0 THEN Live \ {p} ELSE Live \cup {p}) |-> IF q = p THEN n ELSE counts[q]]
Add(p) == asked' = <<>> /\ Set(p, IF p \in Live THEN counts[p] + 1 ELSE 1)
Refuse == asked' = <<>> /\ UNCHANGED counts
Drop(a) == asked' = a /\ IF Around(a) = {} THEN UNCHANGED counts ELSE Set(Best(a), counts[Best(a)] - 1)
Clear == asked' = <<>> /\ counts' = <<>>

PrefixInit == counts = <<>> /\ asked = <<>>
PrefixNext == \/ \E p \in Prefix : Add(p)
              \/ \E a \in Address : Drop(a)
              \/ Refuse \/ Clear
PrefixSpec == PrefixInit /\ [][PrefixNext]_<<counts, asked>>
=============================================================================
