------------------------------- MODULE Streams -------------------------------
(***************************************************************************)
(* What the queues of a server promise its connections: each is sent whole  *)
(* messages, each at most once, and the bytes of what it was sent leave in  *)
(* order; what it says is acted on line by line, however the bytes arrive.  *)
(***************************************************************************)
EXTENDS Naturals, FiniteSets, SequencesExt

CONSTANTS
  Client,
  Message,      \* what may be sent
  LineSize      \* characters of a line that are kept

VARIABLES
  open,         \* connections that are up
  gone,         \* those whose other side ended first
  accepted,     \* bytes a connection is to get, from its first
  wrote,        \* those handed to its socket
  received,     \* characters it has said
  lines         \* lines acted on
streamVars == <<open, gone, accepted, wrote, received, lines>>

Bytes(m) == <<[of |-> m, part |-> 1], [of |-> m, part |-> 2]>>
Sent(bytes) == {b.of : b \in ToSet(bytes)}

\* The lines of a text: what stands between ends of line, empty ones left out, each cut
\* to its size.  What follows the last end of line is not a line yet.
Eol == "n"
LinesOf(text) ==
  LET first == {i \in DOMAIN text : text[i] # Eol /\ (i = 1 \/ text[i - 1] = Eol)}
      ends  == {i \in DOMAIN text : text[i] = Eol}
      End(i) == CHOOSE e \in ends : e > i /\ \A f \in ends : f > i => e <= f
      whole == SetToSortSeq({i \in first : \E e \in ends : e > i}, LAMBDA i, j : i < j)
      Cut(i) == LET n == End(i) - i IN SubSeq(text, i, i + (IF n < LineSize THEN n ELSE LineSize) - 1)
  IN [k \in DOMAIN whole |-> Cut(whole[k])]

\* Bytes of new messages, each whole but perhaps the last, and each once.
After(bytes, n) == SubSeq(bytes, n + 1, Len(bytes))
New(c, bytes) ==
  LET ms == [i \in 1..((Len(bytes) + 1) \div 2) |-> bytes[2 * i - 1].of]
  IN /\ IsInjective(ms) /\ ToSet(ms) \subseteq Message \ Sent(accepted[c])
     /\ IsPrefix(bytes, FlattenSeq([i \in DOMAIN ms |-> Bytes(ms[i])]))
Added(c, bytes) == IsPrefix(accepted[c], bytes) /\ New(c, After(bytes, Len(accepted[c])))
Accepts(c) == Added(c, accepted'[c]) /\ (Len(accepted'[c]) - Len(accepted[c])) % 2 = 0
Writes(c) == IsPrefix(wrote[c], wrote'[c]) /\ IsPrefix(wrote'[c], accepted'[c])
Hears(c)  == IsPrefix(received[c], received'[c])
Acts(c)   == IsPrefix(lines[c], lines'[c]) /\ IsPrefix(lines'[c], LinesOf(received'[c]))

\* One that closes may still be told things.  What it was to get ends anywhere, and nothing is
\* left out before that; only when the other side has ended is what waited left out.
Closes(c) ==
  /\ accepted'[c] = wrote'[c] /\ IsPrefix(wrote[c], wrote'[c])
  /\ IF gone'[c] THEN New(c, After(wrote'[c], Len(wrote[c])))
     ELSE IsPrefix(wrote'[c], accepted[c]) \/ Added(c, wrote'[c])
Still(c)  == /\ open'[c] = open[c] /\ gone'[c] = gone[c] /\ accepted'[c] = accepted[c] /\ wrote'[c] = wrote[c]
             /\ received'[c] = received[c] /\ lines'[c] = lines[c]

StreamsInit ==
  /\ open \in [Client -> BOOLEAN] /\ gone = [c \in Client |-> FALSE]
  /\ \A c \in Client : accepted[c] = <<>> /\ wrote[c] = <<>> /\ received[c] = <<>> /\ lines[c] = <<>>

StreamsNext ==
  \A c \in Client :
    \/ Still(c)
    \/ open[c] /\ open'[c] /\ gone'[c] = gone[c] /\ Accepts(c) /\ Writes(c) /\ Hears(c) /\ Acts(c)
    \/ open[c] /\ ~open'[c] /\ Closes(c) /\ Hears(c) /\ Acts(c)

StreamsSpec == StreamsInit /\ [][StreamsNext]_streamVars
=============================================================================
