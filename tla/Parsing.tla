------------------------------- MODULE Parsing -------------------------------
(***************************************************************************)
(* What the server reads out of texts: masks and what they match (match.c), *)
(* commands split into parameters (parse.c), and the identifiers it gives   *)
(* its users (id.c).  A text is a sequence of characters.                  *)
(***************************************************************************)
EXTENDS Integers, FiniteSets, SequencesExt

CONSTANTS
  Lower,        \* characters, and the lower case of each
  Names, Masks, Lines,      \* texts to be tried
  MaxParams,    \* parameters a command may have at most
  Letters, Digits,   \* what the last places of an identifier count through: A..Z, 0..9
  Places, MaxUsers

VARIABLES
  read,         \* the mask or line read last
  new_uid,      \* places of the identifier given last
  uids,         \* identifiers of the users there are
  recent        \* those given last, as many as there are others to give
parsingVars == <<read, new_uid, uids, recent>>

Wild == {"*", "?"}
\* Of a character, none behind the end.
At(s, i) == IF i <= Len(s) THEN s[i] ELSE "end"
Fold(c) == IF c \in DOMAIN Lower THEN Lower[c] ELSE c

irccmp(s, t) == Len(s) = Len(t) /\ \A i \in DOMAIN s : Fold(s[i]) = Fold(t[i])

-----------------------------------------------------------------------------
(* match: from m in the mask and n in the name; t is where both were after the last star, *)
(* and from there it goes on, one character later, when something does not match.        *)

NoStar == [m |-> 1, n |-> 1]
RECURSIVE Skip(_, _, _, _, _)
\* Wildcards: each ? takes a character.
Skip(mask, name, m, n, star) ==
  CASE At(mask, m) = "*" -> Skip(mask, name, m + 1, n, TRUE)
    [] At(mask, m) = "?" -> IF At(name, n) = "end" THEN [m |-> m, n |-> n, star |-> star, short |-> TRUE]
                            ELSE Skip(mask, name, m + 1, n + 1, star)
    [] OTHER             -> [m |-> m, n |-> n, star |-> star, short |-> FALSE]

RECURSIVE Match(_, _, _, _, _)
\* Mutation: once gone back to, a star is forgotten.
Backtrack_once(mask, name, t) ==
  IF t.m = 1 \/ At(name, t.n + 1) = "end" THEN FALSE ELSE Match(mask, name, t.m, t.n + 1, NoStar)
Backtrack(mask, name, t) ==
  IF t.m = 1 \/ At(name, t.n + 1) = "end" THEN FALSE
  ELSE Match(mask, name, t.m, t.n + 1, [t EXCEPT !.n = @ + 1])
Plain(mask, name, m, n, t) ==
  IF At(name, n) = "end" THEN At(mask, m) = "end"
  ELSE IF At(mask, m) = "end" \/ Fold(mask[m]) # Fold(name[n]) THEN Backtrack(mask, name, t)
  ELSE Match(mask, name, m + 1, n + 1, t)
\* The first character of the name, from n on, that a character of the mask can be.
Scan(name, n, Is(_)) == CHOOSE i \in n..Len(name) + 1 : (i = Len(name) + 1 \/ Is(name[i])) /\ \A j \in n..i - 1 : ~Is(name[j])
Starred(mask, name, w) ==
  CASE At(mask, w.m) = "end" -> TRUE
    [] At(mask, w.m) = "\\"  ->
         LET m == w.m + 1
         IN At(mask, m) # "end" /\ Plain(mask, name, m, Scan(name, w.n, LAMBDA c : c = mask[m]), [m |-> m, n |-> w.n])
    [] OTHER -> Plain(mask, name, w.m, Scan(name, w.n, LAMBDA c : Fold(c) = Fold(mask[w.m])), [m |-> w.m, n |-> w.n])
Match(mask, name, m, n, t) ==
  CASE At(mask, m) = "end" -> At(name, n) = "end" \/ Backtrack(mask, name, t)
    [] At(mask, m) = "\\"  -> IF At(mask, m + 1) = At(name, n) THEN Match(mask, name, m + 2, n + 1, t)
                              ELSE Backtrack(mask, name, t)
    [] At(mask, m) \in Wild ->
         LET w == Skip(mask, name, m, n, FALSE)
         IN IF w.short THEN Backtrack(mask, name, t)
            ELSE IF w.star THEN Starred(mask, name, w) ELSE Plain(mask, name, w.m, w.n, t)
    [] OTHER -> Plain(mask, name, m, n, t)
match(mask, name) == Match(mask, name, 1, 1, NoStar)

\* collapse: from the first star that another wildcard follows on, each run of wildcards
\* becomes its question marks and then one star.
RECURSIVE Squeezed(_, _, _)
Squeezed(mask, i, star) ==
  LET c == At(mask, i)
      out == IF star /\ c # "?" THEN <<"*">> ELSE <<>>
  IN CASE c = "*" -> Squeezed(mask, i + 1, TRUE)
       [] c = "end" -> out
       [] c = "\\" /\ At(mask, i + 1) \in Wild -> out \o SubSeq(mask, i, i + 1) \o Squeezed(mask, i + 2, FALSE)
       [] OTHER -> out \o <<c>> \o Squeezed(mask, i + 1, star /\ c = "?")
RECURSIVE Collapsed(_, _)
Collapsed(mask, i) ==
  LET next == At(mask, i + 1) \in Wild
  IN CASE At(mask, i) = "end" -> <<>>
       [] At(mask, i) = "*" /\ next -> Squeezed(mask, i, FALSE)
       [] At(mask, i) = "\\" /\ next -> SubSeq(mask, i, i + 1) \o Collapsed(mask, i + 2)
       [] OTHER -> <<mask[i]>> \o Collapsed(mask, i + 1)
collapse(mask) == Collapsed(mask, 1)

-----------------------------------------------------------------------------
(* A line behind its command, in parameters: the last may hold blanks. *)

RECURSIVE Params(_, _, _, _)
Params(line, most, numeric, found) ==
  LET gaps == {i \in DOMAIN line : line[i] # " "}
      from == CHOOSE i \in gaps : \A j \in gaps : i <= j
      rest == SubSeq(line, from, Len(line))
      ends == {i \in DOMAIN rest : rest[i] = " "}
      to   == CHOOSE i \in ends : \A j \in ends : i <= j
  IN IF gaps = {} THEN found
     ELSE IF rest[1] = ":" THEN Append(found, IF numeric THEN rest ELSE Tail(rest))
     ELSE IF Len(found) + 1 >= most THEN Append(found, rest)
     ELSE IF ends = {} THEN Append(found, rest)
     ELSE Params(SubSeq(rest, to, Len(rest)), most, numeric, Append(found, SubSeq(rest, 1, to - 1)))
parse(line, args_max, numeric) ==
  Params(line, IF numeric THEN 2 ELSE IF args_max > MaxParams THEN MaxParams ELSE args_max, numeric, <<>>)

-----------------------------------------------------------------------------
(* Identifiers: letters, then digits, then letters again and one more in the place before. *)

Order_ == Letters \o Digits
NextIn(x) == LET i == CHOOSE j \in DOMAIN Order_ : Order_[j] = x IN Order_[(i % Len(Order_)) + 1]
Carries(u, i) == \A j \in i + 1..Places : u[j] = Last(Digits)
add_one_to_uid(u) == [i \in 1..Places |-> IF Carries(u, i) THEN NextIn(u[i]) ELSE u[i]]
init_uid == [i \in 1..Places |-> Last(Digits)]
\* The next that no user has.
RECURSIVE uid_get(_)
uid_get(u) == LET v == add_one_to_uid(u) IN IF v \in uids THEN uid_get(v) ELSE v

Ids == [1..Places -> ToSet(Order_)]
Comes ==
  /\ Cardinality(uids) < MaxUsers
  /\ new_uid' = uid_get(new_uid) /\ uids' = uids \cup {new_uid'}
  /\ recent' = LET all == Append(recent, new_uid') IN
               IF Len(all) > Cardinality(Ids) - MaxUsers THEN Tail(all) ELSE all
  /\ UNCHANGED read
Goes(u) == u \in uids /\ uids' = uids \ {u} /\ UNCHANGED <<read, new_uid, recent>>
Reads(s) == read' = s /\ UNCHANGED <<new_uid, uids, recent>>

ParsingInit == read = <<"nothing">> /\ new_uid = init_uid /\ uids = {} /\ recent = <<>>
ParsingNext == Comes \/ (\E u \in uids : Goes(u)) \/ \E s \in Masks \cup Lines : Reads(s)

-----------------------------------------------------------------------------
(* Properties *)

\* What a mask means, read from its left (match.c:30).
RECURSIVE Means(_, _)
Means(mask, name) ==
  IF mask = <<>> THEN name = <<>>
  ELSE CASE Head(mask) = "*" -> \E i \in 0..Len(name) : Means(Tail(mask), SubSeq(name, i + 1, Len(name)))
         [] Head(mask) = "?" -> name # <<>> /\ Means(Tail(mask), Tail(name))
         [] Head(mask) = "\\" -> /\ Len(mask) > 1 /\ name # <<>> /\ mask[2] = Head(name)
                                 /\ Means(Tail(Tail(mask)), Tail(name))
         [] OTHER -> name # <<>> /\ Fold(Head(mask)) = Fold(Head(name)) /\ Means(Tail(mask), Tail(name))
\* Whether each backslash has a character behind it, and none stands behind a wildcard: there
\* it is taken for itself, or forgotten once the search has begun again (match.c:86 and 105).
RECURSIVE Regular(_, _)
Regular(mask, wild) ==
  IF mask = <<>> THEN TRUE
  ELSE IF Head(mask) = "\\" THEN Len(mask) > 1 /\ ~wild /\ Regular(Tail(Tail(mask)), FALSE)
  ELSE Regular(Tail(mask), Head(mask) \in Wild)
Known(mask) == Regular(mask, FALSE)

\* A mask matches what its characters and wildcards mean, though the search goes back to the
\* last star only; and collapsing it changes nothing of that, and leaves no wildcard behind a
\* star (match.c:40 and 139).
MasksRead ==
  LET c == collapse(read) IN
  read \in Masks /\ Known(read) =>
    /\ \A name \in Names : (match(read, name) <=> Means(read, name)) /\ (match(c, name) <=> match(read, name))
    /\ \A i \in 1..Len(c) - 1 : c[i] = "*" /\ c[i + 1] \in Wild => i > 1 /\ c[i - 1] = "\\"
    /\ (\A i \in DOMAIN read : read[i] \notin Wild \cup {"\\"}) =>
         \A name \in Names : match(read, name) <=> irccmp(read, name)

\* Nothing of a line is lost: only the last parameter may hold blanks, be empty or begin with
\* a colon, and there are no more of them than the command may have (parse.c:392).
LinesSplit ==
  read \in Lines => \A most \in 1..MaxParams + 1, numeric \in BOOLEAN :
    LET ps == parse(read, most, numeric)
        Kept(s) == SelectSeq(s, LAMBDA c : c \notin {" ", ":"})
    IN /\ Kept(FlattenSeq(ps)) = Kept(read)
       /\ Len(ps) <= IF numeric THEN 2 ELSE MaxParams
       /\ \A i \in 1..Len(ps) - 1 : ps[i] # <<>> /\ ps[i][1] # ":" /\ " " \notin ToSet(ps[i])

\* An identifier is not given again until every other has been given or is in use, whatever
\* carries and wraps (id.c:85).
IdsFresh == IsInjective(recent) /\ new_uid \in Ids

TextsRead == MasksRead /\ LinesSplit /\ IdsFresh
=============================================================================
