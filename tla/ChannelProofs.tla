--------------------------- MODULE ChannelProofs ---------------------------
(***************************************************************************)
(* What holds of Channel for any tree of servers, any users, modes, masks  *)
(* and clocks.  Status can be got from a message only, so the invariant    *)
(* says of messages under way what it says of tables: whoever they give    *)
(* status has earned it on that version of the channel or an older one.    *)
(***************************************************************************)
EXTENDS Channel, TLAPS

Had(E, u, ts) == \E t \in 1 .. ts : <<u, t>> \in E

GoodChannel(E, C) ==
  /\ C \in Channels
  /\ C.ops \subseteq C.members
  /\ C.ts # 0 <=> Exists(C)
  /\ ~Exists(C) => C = NoChannel
  /\ \A u \in C.ops : Had(E, u, C.ts)
GoodTables(E, L) == L \in Tables /\ GoodChannel(E, L.ch) /\ L.ch.members \subseteq L.users

GoodMessage(E) ==
  {m \in Message :
     /\ m.type = "SJOIN" => \A u \in m.ops : Had(E, u, m.ts)
     /\ m.type = "TMODE" /\ m.change.mode = "o" /\ m.change.add => Had(E, m.change.arg, m.ts)}
Sends(E) == [Server -> Seq(GoodMessage(E))]

Inv ==
  /\ srv \in [Server -> Tables] /\ \A s \in Server : GoodTables(earned, srv[s])
  /\ wire \in [Server -> Sends(earned)]
  /\ earned \in SUBSET (Uid \X Nat)

\* The timestamp of a channel that lives on does not grow.
Falls(C, D) == Exists(C) /\ Exists(D) => D.ts <= C.ts
Kept == Inv' /\ \A s \in Server : Falls(srv[s].ch, srv'[s].ch)

-----------------------------------------------------------------------------
(* What was earned stays so. *)

LEMMA HadLasts ==
  ASSUME NEW E, NEW F, E \subseteq F, NEW u, NEW i \in Nat, NEW j \in Nat, i <= j, Had(E, u, i)
  PROVE  Had(F, u, j)
<1>1. PICK t \in 1 .. i : <<u, t>> \in E
  BY DEF Had
<1>2. t \in 1 .. j /\ <<u, t>> \in F
  BY <1>1
<1> QED BY <1>2 DEF Had

LEMMA MessageTypes ==
  ASSUME NEW m \in Message
  PROVE  /\ m.type = "UID" => m.users \in SUBSET Uid
         /\ m.type \in {"QUIT", "KILL", "PART", "JOIN", "KICK", "TMODE"} => m.user \in Uid
         /\ m.type = "SJOIN" => /\ m.ts \in Nat \ {0} /\ m.full \in BOOLEAN /\ m.modes \in SUBSET Mode
                                /\ m.limit \in Nat /\ m.users \in SUBSET Uid /\ m.ops \in SUBSET Uid
         /\ m.type = "JOIN" => m.ts \in Nat \ {0}
         /\ m.type = "KICK" => m.victim \in Uid
         /\ m.type = "TMODE" => m.ts \in Nat \ {0} /\ m.change \in Change
         /\ m.type = "BMASK" => m.ts \in Nat \ {0} /\ m.bans \in SUBSET Mask
         /\ m.type = "SQUIT" => m.gone \in SUBSET Server
BY DEF Message, SERVER

LEMMA Messages ==
  ASSUME NEW E
  PROVE  /\ SERVER \in GoodMessage(E)
         /\ \A X \in SUBSET Server : SQUIT(X) \in GoodMessage(E)
         /\ \A U \in SUBSET Uid : UID(U) \in GoodMessage(E)
         /\ \A u \in Uid : QUIT(u) \in GoodMessage(E) /\ KILL(u) \in GoodMessage(E) /\ PART(u) \in GoodMessage(E)
         /\ \A u \in Uid, ts \in Nat \ {0} : JOIN(u, ts) \in GoodMessage(E)
         /\ \A u, v \in Uid : KICK(u, v) \in GoodMessage(E)
         /\ \A ts \in Nat \ {0}, B \in SUBSET Mask : BMASK(ts, B) \in GoodMessage(E)
BY DEF GoodMessage, Message, SERVER, SQUIT, UID, QUIT, KILL, PART, JOIN, KICK, BMASK

LEMMA SjoinMessage ==
  ASSUME NEW E, NEW ts \in Nat \ {0}, NEW full \in BOOLEAN, NEW M \in SUBSET Mode, NEW l \in Nat,
         NEW U \in SUBSET Uid, NEW O \in SUBSET Uid, \A u \in O : Had(E, u, ts)
  PROVE  SJOIN(ts, full, M, l, U, O) \in GoodMessage(E)
BY DEF GoodMessage, Message, SJOIN

LEMMA TmodeMessage ==
  ASSUME NEW E, NEW o \in Uid, NEW ts \in Nat \ {0}, NEW d \in Change,
         d.mode = "o" /\ d.add => Had(E, d.arg, ts)
  PROVE  TMODE(o, ts, d) \in GoodMessage(E)
BY DEF GoodMessage, Message, TMODE

LEMMA GoodLasts ==
  ASSUME NEW E, NEW F, E \subseteq F
  PROVE  /\ \A C : GoodChannel(E, C) => GoodChannel(F, C)
         /\ \A L : GoodTables(E, L) => GoodTables(F, L)
         /\ GoodMessage(E) \subseteq GoodMessage(F)
<1>1. ASSUME NEW C, GoodChannel(E, C) PROVE GoodChannel(F, C)
  <2>1. \A u \in C.ops : Had(F, u, C.ts)
    BY <1>1, HadLasts DEF GoodChannel, Channels
  <2> QED BY <1>1, <2>1 DEF GoodChannel
<1>2. ASSUME NEW L, GoodTables(E, L) PROVE GoodTables(F, L)
  BY <1>1, <1>2 DEF GoodTables
<1>3. ASSUME NEW m \in GoodMessage(E) PROVE m \in GoodMessage(F)
  <2>1. m \in Message
    BY DEF GoodMessage
  <2>2. ASSUME m.type = "SJOIN", NEW u \in m.ops PROVE Had(F, u, m.ts)
    BY <2>1, <2>2, MessageTypes, HadLasts DEF GoodMessage
  <2>3. ASSUME m.type = "TMODE", m.change.mode = "o", m.change.add PROVE Had(F, m.change.arg, m.ts)
    BY <2>1, <2>3, MessageTypes, HadLasts DEF GoodMessage
  <2> QED BY <2>1, <2>2, <2>3 DEF GoodMessage
<1> QED BY <1>1, <1>2, <1>3

LEMMA SendTypes ==
  ASSUME NEW E
  PROVE  /\ Nothing \in Sends(E)
         /\ \A T : \A q \in Seq(GoodMessage(E)) : To(T, q) \in Sends(E)
         /\ \A T : \A m \in GoodMessage(E) : To(T, <<m>>) \in Sends(E)
<1>1. <<>> \in Seq(GoodMessage(E)) /\ \A m \in GoodMessage(E) : <<m>> \in Seq(GoodMessage(E))
  OBVIOUS
<1>2. ASSUME NEW T, NEW q \in Seq(GoodMessage(E)) PROVE To(T, q) \in Sends(E)
  BY <1>1 DEF To, Sends
<1> QED BY <1>1, <1>2 DEF Nothing

-----------------------------------------------------------------------------
(* The channel on one server. *)

LEMMA LeaveGood ==
  ASSUME NEW E, NEW C, GoodChannel(E, C), NEW U
  PROVE  /\ GoodChannel(E, Leave(C, U)) /\ Leave(C, U).members = C.members \ U
         /\ Falls(C, Leave(C, U))
<1>1. CASE C.members \subseteq U
  BY <1>1 DEF Leave, GoodChannel, NoChannel, Channels, Exists, Falls
<1>2. CASE ~(C.members \subseteq U)
  <2> DEFINE D == Leave(C, U)
  <2>1. D \in Channels
    BY <1>2 DEF Leave, GoodChannel, Channels
  <2>2. /\ D.members = C.members \ U /\ D.ops = C.ops \ U /\ D.ts = C.ts
        /\ D.members # {} /\ C.members # {}
    BY <1>2 DEF Leave, GoodChannel, Channels
  <2> HIDE DEF D
  <2>3. GoodChannel(E, D)
    BY <2>1, <2>2 DEF GoodChannel, Exists
  <2>4. Falls(C, D)
    BY <2>1, <2>2 DEF Falls, Channels
  <2> QED BY <2>2, <2>3, <2>4 DEF D
<1> QED BY <1>1, <1>2

LEMMA LeaveTables ==
  ASSUME NEW E, NEW L, GoodTables(E, L), NEW U
  PROVE  LET K == [L EXCEPT !.ch = Leave(@, U)]
             M == [L EXCEPT !.users = @ \ U, !.ch = Leave(@, U)]
         IN /\ GoodTables(E, K) /\ Falls(L.ch, K.ch)
            /\ GoodTables(E, M) /\ Falls(L.ch, M.ch) /\ M.link = L.link
<1> DEFINE D == Leave(L.ch, U)
           K == [L EXCEPT !.ch = D]
           M == [L EXCEPT !.users = @ \ U, !.ch = D]
<1>1. GoodChannel(E, D) /\ D.members = L.ch.members \ U /\ Falls(L.ch, D)
  BY LeaveGood DEF GoodTables
<1>2. D \in Channels /\ L \in Tables /\ L.ch.members \subseteq L.users
  BY <1>1 DEF GoodChannel, GoodTables
<1> HIDE DEF D
<1>3. K \in Tables /\ K.ch = D /\ K.users = L.users
  BY <1>2 DEF Tables
<1>4. M \in Tables /\ M.ch = D /\ M.users = L.users \ U /\ M.link = L.link
  BY <1>2 DEF Tables
<1> HIDE DEF K, M
<1>5. GoodTables(E, K) /\ Falls(L.ch, K.ch) /\ GoodTables(E, M) /\ Falls(L.ch, M.ch) /\ M.link = L.link
  BY <1>1, <1>2, <1>3, <1>4 DEF GoodTables
<1> QED BY <1>5 DEF K, M, D

LEMMA ChangedGood ==
  ASSUME NEW E, NEW C, GoodChannel(E, C), Exists(C), NEW d \in Change, NEW local \in BOOLEAN,
         Counts(C, d, local), d.mode = "o" /\ d.add => Had(E, d.arg, C.ts)
  PROVE  /\ GoodChannel(E, Changed(C, d)) /\ Changed(C, d).members = C.members
         /\ Falls(C, Changed(C, d))
<1>0. C \in Channels
  BY DEF GoodChannel
<1>1. CASE d.mode = "o"
  <2>1. d.arg \in C.members /\ d.add \in BOOLEAN
    BY <1>1 DEF Counts, Change
  <2>2. Changed(C, d) = [C EXCEPT !.ops = Put(@, d.arg, d.add)]
    BY <1>1 DEF Changed
  <2> QED BY <1>0, <1>1, <2>1, <2>2 DEF GoodChannel, Channels, Put, Exists, Falls
<1>2. CASE d.mode = "b"
  <2>1. d.arg \in Mask
    BY <1>2 DEF Change
  <2>2. Changed(C, d) = [C EXCEPT !.bans = Put(@, d.arg, d.add)]
    BY <1>2 DEF Changed
  <2> QED BY <1>0, <2>1, <2>2 DEF GoodChannel, Channels, Put, Exists, Falls
<1>3. CASE d.mode = "l"
  <2>1. d.arg \in Nat
    BY <1>3, LimitAssumption DEF Change
  <2>2. Changed(C, d) = [C EXCEPT !.limit = IF d.add THEN d.arg ELSE 0]
    BY <1>3 DEF Changed
  <2> QED BY <1>0, <2>1, <2>2 DEF GoodChannel, Channels, Exists, Falls
<1>4. CASE d.mode = "simple"
  <2>1. d.arg \in Mode
    BY <1>4 DEF Change
  <2>2. Changed(C, d) = [C EXCEPT !.modes = Put(@, d.arg, d.add)]
    BY <1>4 DEF Changed
  <2> QED BY <1>0, <2>1, <2>2 DEF GoodChannel, Channels, Put, Exists, Falls
<1> QED BY <1>1, <1>2, <1>3, <1>4 DEF Change

LEMMA SjoinedGood ==
  ASSUME NEW E, NEW C, GoodChannel(E, C), NEW m \in GoodMessage(E), m.type = "SJOIN",
         NEW U \in SUBSET m.users, Exists(Sjoined(C, m, U))
  PROVE  LET N == Sjoined(C, m, U)
         IN /\ GoodChannel(E, N) /\ N.members = C.members \cup U /\ Falls(C, N)
            /\ Relayed(m, N, U) \in Seq(GoodMessage(E))
<1> DEFINE N == Sjoined(C, m, U)
           older == Exists(C) /\ m.ts < C.ts
           newer == Exists(C) /\ m.ts > C.ts
<1>1. /\ m.ts \in Nat /\ m.ts # 0 /\ m.modes \in SUBSET Mode /\ m.limit \in Nat
      /\ m.users \in SUBSET Uid /\ m.ops \in SUBSET Uid /\ m.full \in BOOLEAN
      /\ \A u \in m.ops : Had(E, u, m.ts)
  BY MessageTypes DEF GoodMessage
<1>2. /\ C.ts \in Nat /\ C.members \in SUBSET Uid /\ C.ops \in SUBSET Uid /\ C.modes \in SUBSET Mode
      /\ C.limit \in Nat /\ C.bans \in SUBSET Mask /\ C.ops \subseteq C.members
      /\ (C.ts # 0 <=> Exists(C)) /\ \A u \in C.ops : Had(E, u, C.ts)
      /\ ~Exists(C) => C.ops = {}
  BY DEF GoodChannel, Channels, NoChannel
<1>3. /\ N.ts = IF newer THEN C.ts ELSE m.ts
      /\ N.members = C.members \cup U
      /\ N.ops = (IF older THEN {} ELSE C.ops) \cup (IF newer THEN {} ELSE (m.ops \cap U) \ C.members)
      /\ N.modes = (IF older THEN {} ELSE C.modes) \cup (IF newer THEN {} ELSE m.modes)
      /\ N.limit = SetMax(IF older THEN 0 ELSE C.limit, IF newer THEN 0 ELSE m.limit)
      /\ N.bans = IF older THEN {} ELSE C.bans
      /\ N = [ts |-> N.ts, members |-> N.members, ops |-> N.ops, modes |-> N.modes,
              limit |-> N.limit, bans |-> N.bans]
  BY DEF Sjoined
<1>x. Exists(N)
  OBVIOUS
<1> HIDE DEF N
<1>4. N \in Channels
  BY <1>1, <1>2, <1>3 DEF Channels, SetMax
<1>5. N.ts \in Nat /\ N.ts # 0 /\ Falls(C, N)
  BY <1>1, <1>2, <1>3 DEF Falls
<1>6. ASSUME NEW u \in N.ops PROVE Had(E, u, N.ts)
  <2>1. CASE older
    BY <1>1, <1>2, <1>3, <1>6, <2>1
  <2>2. CASE newer
    BY <1>1, <1>2, <1>3, <1>6, <2>2
  <2>3. CASE ~older /\ ~newer
    <3>1. N.ts = m.ts /\ (Exists(C) => C.ts = m.ts)
      BY <1>1, <1>2, <1>3, <2>3
    <3> QED BY <1>1, <1>2, <1>3, <1>6, <3>1
  <2> QED BY <2>1, <2>2, <2>3
<1>7. GoodChannel(E, N)
  BY <1>x, <1>1, <1>2, <1>3, <1>4, <1>5, <1>6 DEF GoodChannel
<1>8. Relayed(m, N, U) \in Seq(GoodMessage(E))
  <2> DEFINE keep == m.ts <= N.ts
             full == keep /\ m.full
             M == IF full THEN N.modes ELSE {}
             l == IF full THEN N.limit ELSE 0
             O == IF keep THEN m.ops \cap U ELSE {}
  <2>1. full \in BOOLEAN /\ M \in SUBSET Mode /\ l \in Nat /\ O \in SUBSET Uid /\ U \in SUBSET Uid
    BY <1>1, <1>4 DEF Channels
  <2>2. \A u \in O : Had(E, u, N.ts)
    BY <1>1, <1>5, HadLasts
  <2> HIDE DEF keep, full, M, l, O
  <2>3. SJOIN(N.ts, full, M, l, U, O) \in GoodMessage(E)
    BY <1>5, <2>1, <2>2, SjoinMessage
  <2>4. Relayed(m, N, U) = IF U = {} THEN <<>> ELSE <<SJOIN(N.ts, full, M, l, U, O)>>
    BY DEF Relayed, keep, full, M, l, O
  <2> QED BY <2>3, <2>4
<1> QED BY <1>3, <1>5, <1>7, <1>8 DEF N

LEMMA JoinedGood ==
  ASSUME NEW E, NEW C, GoodChannel(E, C), NEW m \in GoodMessage(E), m.type = "JOIN"
  PROVE  LET N == Joined(C, m)
         IN GoodChannel(E, N) /\ N.members = C.members \cup {m.user} /\ Falls(C, N)
<1> DEFINE N == Joined(C, m)
           older == Exists(C) /\ m.ts < C.ts
<1>1. m.ts \in Nat /\ m.ts # 0 /\ m.user \in Uid
  BY MessageTypes DEF GoodMessage
<1>2. /\ C \in Channels /\ C.ts \in Nat /\ C.ops \subseteq C.members
      /\ (C.ts # 0 <=> Exists(C)) /\ \A u \in C.ops : Had(E, u, C.ts)
      /\ ~Exists(C) => C.ops = {}
  BY DEF GoodChannel, Channels, NoChannel
<1>3. /\ N.ts = IF Exists(C) /\ ~older THEN C.ts ELSE m.ts
      /\ N.members = C.members \cup {m.user}
      /\ N.ops = IF older THEN {} ELSE C.ops
      /\ N \in Channels
  BY <1>1, <1>2 DEF Joined, Channels
<1> HIDE DEF N
<1>4. N.ts \in Nat /\ N.ts # 0 /\ Falls(C, N) /\ Exists(N)
  BY <1>1, <1>2, <1>3 DEF Falls, Exists
<1>5. GoodChannel(E, N)
  BY <1>1, <1>2, <1>3, <1>4 DEF GoodChannel
<1> QED BY <1>3, <1>4, <1>5 DEF N

LEMMA WithoutGood ==
  ASSUME NEW E, NEW L, GoodTables(E, L), NEW gone
  PROVE  GoodTables(E, Without(L, gone)) /\ Falls(L.ch, Without(L, gone).ch)
         /\ Without(L, gone).link = L.link
<1> DEFINE U == {u \in L.users : Home[u] \in gone}
<1>1. Without(L, gone) = [L EXCEPT !.users = @ \ U, !.ch = Leave(@, U)]
  BY DEF Without
<1> HIDE DEF U
<1> DEFINE M == [L EXCEPT !.users = @ \ U, !.ch = Leave(@, U)]
<1>2. GoodTables(E, M) /\ Falls(L.ch, M.ch) /\ M.link = L.link
  BY LeaveTables
<1> HIDE DEF M
<1>3. Without(L, gone) = M
  BY <1>1 DEF M
<1> QED BY <1>2, <1>3

LEMMA BurstGood ==
  ASSUME NEW E, NEW L, GoodTables(E, L)
  PROVE  Burst(L) \in Seq(GoodMessage(E))
<1> DEFINE C == L.ch
           G == Seq(GoodMessage(E))
           q1 == IF L.users = {} THEN <<>> ELSE <<UID(L.users)>>
           q2 == IF Exists(C) THEN <<SJOIN(C.ts, TRUE, C.modes, C.limit, C.members, C.ops)>> ELSE <<>>
           q3 == IF Exists(C) /\ C.bans # {} THEN <<BMASK(C.ts, C.bans)>> ELSE <<>>
<1>1. /\ L.users \in SUBSET Uid /\ C.ts \in Nat /\ C.members \in SUBSET Uid /\ C.ops \in SUBSET Uid
      /\ C.modes \in SUBSET Mode /\ C.limit \in Nat /\ C.bans \in SUBSET Mask
      /\ (C.ts # 0 <=> Exists(C)) /\ \A u \in C.ops : Had(E, u, C.ts)
  BY DEF GoodTables, GoodChannel, Tables, Channels
<1> HIDE DEF C
<1>2. q1 \in G
  BY <1>1, Messages
<1>3. q2 \in G
  <2> DEFINE m == SJOIN(C.ts, TRUE, C.modes, C.limit, C.members, C.ops)
  <2>1. ASSUME Exists(C) PROVE m \in GoodMessage(E)
    BY <1>1, <2>1, SjoinMessage
  <2>2. q2 = IF Exists(C) THEN <<m>> ELSE <<>>
    OBVIOUS
  <2> HIDE DEF m, q2
  <2> QED BY <2>1, <2>2
<1>4. q3 \in G
  <2>1. ASSUME Exists(C) PROVE BMASK(C.ts, C.bans) \in GoodMessage(E)
    BY <1>1, <2>1, Messages
  <2> QED BY <2>1
<1> HIDE DEF q1, q2, q3
<1>5. q1 \o q2 \o q3 \in G
  BY <1>2, <1>3, <1>4
<1> QED BY <1>5 DEF Burst, q1, q2, q3, C

-----------------------------------------------------------------------------
(* A step of one server. *)

LEMMA StepKept ==
  ASSUME Inv, NEW s \in Server, NEW read \in SUBSET Server, \A q \in read : wire[q][s] # <<>>,
         earned \subseteq earned', earned' \in SUBSET (Uid \X Nat),
         NEW L, GoodTables(earned', L), Falls(srv[s].ch, L.ch),
         NEW out \in Sends(earned'), Step(s, read, L, out)
  PROVE  Kept
<1> DEFINE G == GoodMessage(earned')
<1>1. L \in Tables /\ \A q \in Server : srv'[q] = IF q = s THEN L ELSE srv[q]
  BY DEF Step, Inv, GoodTables
<1>2. srv' \in [Server -> Tables] /\ \A q \in Server : GoodTables(earned', srv'[q])
  BY <1>1, GoodLasts DEF Step, Inv
<1>3. \A q \in Server : Falls(srv[q].ch, srv'[q].ch)
  BY <1>1 DEF Inv, Falls, Tables, Channels
<1>4. wire' \in [Server -> Sends(earned')]
  <2>1. GoodMessage(earned) \subseteq G
    BY GoodLasts
  <2> HIDE DEF G
  <2>2. \A q, b \in Server : wire[q][b] \in Seq(G) /\ out[b] \in Seq(G)
    <3>1. \A q, b \in Server : wire[q][b] \in Seq(GoodMessage(earned)) /\ out[b] \in Seq(G)
      BY DEF Inv, Sends, G
    <3>2. Seq(GoodMessage(earned)) \subseteq Seq(G)
      BY <2>1
    <3> QED BY <3>1, <3>2
  <2>3. \A q \in read : Tail(wire[q][s]) \in Seq(G)
    BY <2>2
  <2>4. \A q, b \in Server : wire[q][b] \o out[b] \in Seq(G)
    BY <2>2
  <2>5. wire' \in [Server -> [Server -> Seq(G)]]
    BY <2>2, <2>3, <2>4 DEF Step
  <2> QED BY <2>5 DEF Sends, G
<1> QED BY <1>2, <1>3, <1>4 DEF Kept, Inv

LEMMA QuietStep ==
  ASSUME Inv, NEW s \in Server, NEW read \in SUBSET Server, \A q \in read : wire[q][s] # <<>>,
         UNCHANGED earned, NEW L, GoodTables(earned, L), Falls(srv[s].ch, L.ch),
         NEW out \in Sends(earned), Step(s, read, L, out)
  PROVE  Kept
<1>1. earned' = earned /\ earned \in SUBSET (Uid \X Nat)
  BY DEF Inv
<1> QED BY <1>1, StepKept

LEMMA InvTables ==
  ASSUME Inv, NEW s \in Server
  PROVE  /\ GoodTables(earned, srv[s]) /\ Falls(srv[s].ch, srv[s].ch)
         /\ srv[s].link \in SUBSET Server /\ srv[s].users \in SUBSET Uid /\ srv[s].ch \in Channels
         /\ srv[s].ch.ts \in Nat /\ srv[s].ch.ops \subseteq srv[s].ch.members
         /\ srv[s].ch.members \subseteq srv[s].users
BY DEF Inv, GoodTables, GoodChannel, Tables, Channels, Falls

LEMMA ReceivedFacts ==
  ASSUME Inv, NEW s \in Server, NEW t \in Server, NEW type, NEW m \in Received(s, t, type)
  PROVE  /\ m \in GoodMessage(earned) /\ m \in Message /\ m.type = type
         /\ wire[t][s] # <<>> /\ \A q \in {t} : wire[q][s] # <<>>
<1>1. wire[t][s] # <<>> /\ m = Head(wire[t][s]) /\ m.type = type
  BY DEF Received
<1>2. wire[t][s] \in Seq(GoodMessage(earned))
  BY DEF Inv, Sends
<1>3. m \in GoodMessage(earned)
  BY <1>1, <1>2
<1> QED BY <1>1, <1>3 DEF GoodMessage

LEMMA FromFacts ==
  ASSUME Inv, NEW s \in Server, NEW t \in Server, NEW m,
         NEW type \in {"QUIT", "KILL", "PART", "JOIN", "KICK", "TMODE"}, m \in From(s, t, type)
  PROVE  /\ m \in GoodMessage(earned) /\ m \in Message /\ m.type = type
         /\ m.user \in srv[s].users /\ m.user \in Uid
         /\ \A q \in {t} : wire[q][s] # <<>>
<1>1. m \in Received(s, t, type) /\ m.user \in srv[s].users
  BY DEF From
<1> QED BY <1>1, ReceivedFacts, MessageTypes

\* A step that leaves the tables and sends nothing.
LEMMA DropStep ==
  ASSUME Inv, NEW s \in Server, NEW t \in Server, wire[t][s] # <<>>, UNCHANGED earned,
         Step(s, {t}, srv[s], Nothing)
  PROVE  Kept
BY InvTables, SendTypes, QuietStep

-----------------------------------------------------------------------------
(* What users do. *)

LEMMA EarnMore ==
  ASSUME Inv, NEW u \in Uid, NEW ts \in Nat \ {0}
  PROVE  LET E == earned \cup {<<u, ts>>}
         IN E \in SUBSET (Uid \X Nat) /\ earned \subseteq E /\ Had(E, u, ts)
<1>1. ts \in 1 .. ts
  OBVIOUS
<1> QED BY <1>1 DEF Inv, Had

LEMMA channel_do_joinKept ==
  ASSUME Inv, NEW s \in Server, NEW u \in Uid, NEW now \in Clock[s], channel_do_join(s, u, now)
  PROVE  Kept
<1> DEFINE L == srv[s]
           C == L.ch
<1>0. /\ GoodTables(earned, L) /\ now \in Nat \ {0} /\ C \in Channels /\ L \in Tables
      /\ u \in L.users /\ Initial \in SUBSET Mode
  BY InvTables, ClockAssumption, ModeAssumption DEF GoodTables, channel_do_join
<1>1. CASE Exists(C)
  <2> DEFINE K == [L EXCEPT !.ch.members = @ \cup {u}]
  <2>1. UNCHANGED earned /\ Step(s, {}, K, To(L.link, <<JOIN(u, C.ts)>>))
    BY <1>1 DEF channel_do_join
  <2>2. GoodTables(earned, K) /\ Falls(C, K.ch)
    BY <1>0, <1>1 DEF GoodTables, GoodChannel, Tables, Channels, Exists, Falls
  <2>3. C.ts \in Nat \ {0}
    BY <1>0, <1>1 DEF GoodTables, GoodChannel, Channels
  <2>4. To(L.link, <<JOIN(u, C.ts)>>) \in Sends(earned)
    BY <2>3, Messages, SendTypes
  <2> HIDE DEF K
  <2> QED BY <2>1, <2>2, <2>4, QuietStep
<1>2. CASE ~Exists(C)
  <2> DEFINE E == earned \cup {<<u, now>>}
             N == [NoChannel EXCEPT !.ts = now, !.members = {u}, !.ops = {u}, !.modes = Initial]
             K == [L EXCEPT !.ch = N]
             m == SJOIN(now, TRUE, Initial, 0, {u}, {u})
  <2>1. earned' = E /\ Step(s, {}, K, To(L.link, <<m>>))
    BY <1>2 DEF channel_do_join
  <2>2. E \in SUBSET (Uid \X Nat) /\ earned \subseteq E /\ Had(E, u, now)
    BY <1>0, EarnMore
  <2>3. /\ N.ts = now /\ N.members = {u} /\ N.ops = {u} /\ N \in Channels
    BY <1>0 DEF NoChannel, Channels
  <2> HIDE DEF E, N
  <2>4. GoodChannel(E, N)
    BY <1>0, <2>2, <2>3 DEF GoodChannel, Exists
  <2>5. GoodTables(E, K) /\ Falls(C, K.ch)
    BY <1>0, <1>2, <2>3, <2>4 DEF GoodTables, Tables, Falls
  <2>6. m \in GoodMessage(E)
    BY <1>0, <2>2, SjoinMessage
  <2> HIDE DEF m, K
  <2>7. To(L.link, <<m>>) \in Sends(E)
    BY <2>6, SendTypes
  <2> QED BY <2>1, <2>2, <2>5, <2>7, StepKept
<1> QED BY <1>1, <1>2

LEMMA m_partKept ==
  ASSUME Inv, NEW s \in Server, NEW u \in Uid, m_part(s, u)
  PROVE  Kept
<1> DEFINE K == [srv[s] EXCEPT !.ch = Leave(@, {u})]
<1>1. UNCHANGED earned /\ Step(s, {}, K, To(srv[s].link, <<PART(u)>>))
  BY DEF m_part
<1>2. GoodTables(earned, K) /\ Falls(srv[s].ch, K.ch)
  BY InvTables, LeaveTables
<1>3. To(srv[s].link, <<PART(u)>>) \in Sends(earned)
  BY Messages, SendTypes
<1> HIDE DEF K
<1> QED BY <1>1, <1>2, <1>3, QuietStep

LEMMA m_kickKept ==
  ASSUME Inv, NEW s \in Server, NEW o \in Uid, NEW v \in Uid, m_kick(s, o, v)
  PROVE  Kept
<1> DEFINE K == [srv[s] EXCEPT !.ch = Leave(@, {v})]
<1>1. UNCHANGED earned /\ Step(s, {}, K, To(srv[s].link, <<KICK(o, v)>>))
  BY DEF m_kick
<1>2. GoodTables(earned, K) /\ Falls(srv[s].ch, K.ch)
  BY InvTables, LeaveTables
<1>3. To(srv[s].link, <<KICK(o, v)>>) \in Sends(earned)
  BY Messages, SendTypes
<1> HIDE DEF K
<1> QED BY <1>1, <1>2, <1>3, QuietStep

LEMMA m_modeKept ==
  ASSUME Inv, NEW s \in Server, NEW o \in Uid, NEW d \in Change, m_mode(s, o, d)
  PROVE  Kept
<1> DEFINE L == srv[s]
           C == L.ch
           K == [L EXCEPT !.ch = Changed(@, d)]
           grants == d.mode = "o" /\ d.add
           E == earned \cup (IF grants THEN {<<d.arg, C.ts>>} ELSE {})
           m == TMODE(o, C.ts, d)
<1>1. /\ Counts(C, d, TRUE) /\ o \in C.ops
      /\ earned' = E /\ Step(s, {}, K, To(L.link, <<m>>))
  BY DEF m_mode
<1>2. /\ GoodTables(earned, L) /\ GoodChannel(earned, C) /\ L \in Tables /\ C \in Channels
      /\ C.members \subseteq L.users
  BY InvTables DEF GoodTables
<1>3. Exists(C) /\ C.ts \in Nat \ {0}
  BY <1>1, <1>2 DEF GoodChannel, Exists, Channels
<1>4. ASSUME grants PROVE d.arg \in Uid
  BY <1>1, <1>2, <1>4 DEF Counts, Channels
<1>5. E \in SUBSET (Uid \X Nat) /\ earned \subseteq E /\ (grants => Had(E, d.arg, C.ts))
  BY <1>3, <1>4, EarnMore DEF Inv
<1> HIDE DEF E
<1>6. GoodChannel(E, C)
  BY <1>2, <1>5, GoodLasts
<1>7. /\ GoodChannel(E, Changed(C, d)) /\ Changed(C, d).members = C.members
      /\ Falls(C, Changed(C, d))
  BY <1>1, <1>3, <1>5, <1>6, ChangedGood
<1>8. K.ch = Changed(C, d) /\ K.users = L.users /\ (Changed(C, d) \in Channels => K \in Tables)
  BY <1>2 DEF Tables
<1>9. GoodTables(E, K) /\ Falls(C, K.ch)
  <2>1. Changed(C, d) \in Channels
    BY <1>7 DEF GoodChannel
  <2> HIDE DEF K
  <2> QED BY <1>2, <1>7, <1>8, <2>1 DEF GoodTables
<1>10. m \in GoodMessage(E)
  BY <1>3, <1>5, TmodeMessage
<1> HIDE DEF m, K
<1>11. To(L.link, <<m>>) \in Sends(E)
  BY <1>10, SendTypes
<1> QED BY <1>1, <1>5, <1>9, <1>11, StepKept

LEMMA exit_localKept ==
  ASSUME Inv, NEW s \in Server, NEW u \in Uid, exit_local(s, u)
  PROVE  Kept
<1> DEFINE K == [srv[s] EXCEPT !.users = @ \ {u}, !.ch = Leave(@, {u})]
<1>1. UNCHANGED earned /\ Step(s, {}, K, To(srv[s].link, <<QUIT(u)>>))
  BY DEF exit_local
<1>2. GoodTables(earned, K) /\ Falls(srv[s].ch, K.ch)
  BY InvTables, LeaveTables
<1>3. To(srv[s].link, <<QUIT(u)>>) \in Sends(earned)
  BY Messages, SendTypes
<1> HIDE DEF K
<1> QED BY <1>1, <1>2, <1>3, QuietStep

LEMMA mo_killKept ==
  ASSUME Inv, NEW s \in Server, NEW v \in Uid, mo_kill(s, v)
  PROVE  Kept
<1> DEFINE K == [srv[s] EXCEPT !.users = @ \ {v}, !.ch = Leave(@, {v})]
<1>1. UNCHANGED earned /\ Step(s, {}, K, To(srv[s].link, <<KILL(v)>>))
  BY DEF mo_kill
<1>2. GoodTables(earned, K) /\ Falls(srv[s].ch, K.ch)
  BY InvTables, LeaveTables
<1>3. To(srv[s].link, <<KILL(v)>>) \in Sends(earned)
  BY Messages, SendTypes
<1> HIDE DEF K
<1> QED BY <1>1, <1>2, <1>3, QuietStep

-----------------------------------------------------------------------------
(* What arrives. *)

LEMMA ms_uidKept ==
  ASSUME Inv, NEW s \in Server, NEW t \in Server, ms_uid(s, t)
  PROVE  Kept
<1> DEFINE K(m) == [srv[s] EXCEPT !.users = @ \cup m.users]
<1>1. PICK m \in Received(s, t, "UID") :
        UNCHANGED earned /\ Step(s, {t}, K(m), To(srv[s].link \ {t}, <<m>>))
  BY DEF ms_uid
<1>2. /\ m \in GoodMessage(earned) /\ m.users \in SUBSET Uid /\ \A q \in {t} : wire[q][s] # <<>>
  BY ReceivedFacts, MessageTypes
<1>3. GoodTables(earned, K(m)) /\ Falls(srv[s].ch, K(m).ch)
  BY <1>2, InvTables DEF GoodTables, Tables
<1>4. To(srv[s].link \ {t}, <<m>>) \in Sends(earned)
  BY <1>2, SendTypes
<1> HIDE DEF K
<1> QED BY <1>1, <1>2, <1>3, <1>4, QuietStep

LEMMA ms_goneKept ==
  ASSUME Inv, NEW s \in Server, NEW t \in Server, NEW type \in {"QUIT", "KILL"}, ms_gone(s, t, type)
  PROVE  Kept
<1> DEFINE K(m) == [srv[s] EXCEPT !.users = @ \ {m.user}, !.ch = Leave(@, {m.user})]
<1>1. PICK m \in From(s, t, type) :
        UNCHANGED earned /\ Step(s, {t}, K(m), To(srv[s].link \ {t}, <<m>>))
  BY DEF ms_gone
<1>2. m \in GoodMessage(earned) /\ \A q \in {t} : wire[q][s] # <<>>
  BY FromFacts
<1>3. GoodTables(earned, K(m)) /\ Falls(srv[s].ch, K(m).ch)
  BY InvTables, LeaveTables
<1>4. To(srv[s].link \ {t}, <<m>>) \in Sends(earned)
  BY <1>2, SendTypes
<1> HIDE DEF K
<1> QED BY <1>1, <1>2, <1>3, <1>4, QuietStep

LEMMA ms_sjoinKept ==
  ASSUME Inv, NEW s \in Server, NEW t \in Server, ms_sjoin(s, t)
  PROVE  Kept
<1> DEFINE L == srv[s]
           U(m) == m.users \cap L.users
           N(m) == Sjoined(L.ch, m, U(m))
           K(m) == [L EXCEPT !.ch = N(m)]
<1>1. PICK m \in Received(s, t, "SJOIN") :
        /\ UNCHANGED earned
        /\ \/ Exists(N(m)) /\ Step(s, {t}, K(m), To(L.link \ {t}, Relayed(m, N(m), U(m))))
           \/ Step(s, {t}, L, Nothing)
  BY DEF ms_sjoin
<1>2. /\ m \in GoodMessage(earned) /\ m.type = "SJOIN" /\ wire[t][s] # <<>>
      /\ U(m) \in SUBSET m.users /\ U(m) \subseteq L.users /\ \A q \in {t} : wire[q][s] # <<>>
  BY ReceivedFacts
<1>3. CASE Exists(N(m)) /\ Step(s, {t}, K(m), To(L.link \ {t}, Relayed(m, N(m), U(m))))
  <2>1. /\ GoodTables(earned, L) /\ GoodChannel(earned, L.ch) /\ L \in Tables
        /\ L.ch.members \subseteq L.users
    BY InvTables DEF GoodTables
  <2>2. /\ GoodChannel(earned, N(m)) /\ N(m).members = L.ch.members \cup U(m) /\ Falls(L.ch, N(m))
        /\ Relayed(m, N(m), U(m)) \in Seq(GoodMessage(earned))
    BY <1>2, <1>3, <2>1, SjoinedGood
  <2> HIDE DEF N, U
  <2>3. N(m) \in Channels
    BY <2>2 DEF GoodChannel
  <2>4. K(m) \in Tables /\ K(m).ch = N(m) /\ K(m).users = L.users
    BY <2>1, <2>3 DEF Tables
  <2> HIDE DEF K
  <2>5. GoodTables(earned, K(m)) /\ Falls(L.ch, K(m).ch)
    BY <1>2, <2>1, <2>2, <2>4 DEF GoodTables
  <2>6. To(L.link \ {t}, Relayed(m, N(m), U(m))) \in Sends(earned)
    BY <2>2, SendTypes
  <2> QED BY <1>1, <1>2, <1>3, <2>5, <2>6, QuietStep
<1>4. CASE Step(s, {t}, L, Nothing)
  BY <1>1, <1>2, <1>4, DropStep
<1> QED BY <1>1, <1>3, <1>4

LEMMA ms_joinKept ==
  ASSUME Inv, NEW s \in Server, NEW t \in Server, ms_join(s, t)
  PROVE  Kept
<1> DEFINE L == srv[s]
           N(m) == Joined(L.ch, m)
           K(m) == [L EXCEPT !.ch = N(m)]
<1>1. PICK m \in From(s, t, "JOIN") :
        UNCHANGED earned /\ Step(s, {t}, K(m), To(L.link \ {t}, <<JOIN(m.user, N(m).ts)>>))
  BY DEF ms_join
<1>2. /\ m \in GoodMessage(earned) /\ m.type = "JOIN" /\ m.user \in L.users /\ m.user \in Uid
      /\ \A q \in {t} : wire[q][s] # <<>>
  BY FromFacts
<1>3. /\ GoodTables(earned, L) /\ GoodChannel(earned, L.ch) /\ L \in Tables
      /\ L.ch.members \subseteq L.users
  BY InvTables DEF GoodTables
<1>4. GoodChannel(earned, N(m)) /\ N(m).members = L.ch.members \cup {m.user} /\ Falls(L.ch, N(m))
  BY <1>2, <1>3, JoinedGood
<1> HIDE DEF N
<1>5. N(m) \in Channels /\ N(m).ts \in Nat \ {0}
  BY <1>4 DEF GoodChannel, Channels, Exists
<1>6. K(m) \in Tables /\ K(m).ch = N(m) /\ K(m).users = L.users
  BY <1>3, <1>5 DEF Tables
<1> HIDE DEF K
<1>7. GoodTables(earned, K(m)) /\ Falls(L.ch, K(m).ch)
  BY <1>2, <1>3, <1>4, <1>6 DEF GoodTables
<1>8. To(L.link \ {t}, <<JOIN(m.user, N(m).ts)>>) \in Sends(earned)
  BY <1>2, <1>5, Messages, SendTypes
<1> QED BY <1>1, <1>2, <1>7, <1>8, QuietStep

LEMMA ms_partKept ==
  ASSUME Inv, NEW s \in Server, NEW t \in Server, ms_part(s, t)
  PROVE  Kept
<1> DEFINE K(m) == [srv[s] EXCEPT !.ch = Leave(@, {m.user})]
<1>1. PICK m \in From(s, t, "PART") :
        /\ UNCHANGED earned
        /\ \/ Step(s, {t}, K(m), To(srv[s].link \ {t}, <<m>>))
           \/ Step(s, {t}, srv[s], Nothing)
  BY DEF ms_part
<1>2. m \in GoodMessage(earned) /\ wire[t][s] # <<>> /\ \A q \in {t} : wire[q][s] # <<>>
  BY FromFacts
<1>3. GoodTables(earned, K(m)) /\ Falls(srv[s].ch, K(m).ch)
  BY InvTables, LeaveTables
<1>4. To(srv[s].link \ {t}, <<m>>) \in Sends(earned)
  BY <1>2, SendTypes
<1> HIDE DEF K
<1>5. CASE Step(s, {t}, K(m), To(srv[s].link \ {t}, <<m>>))
  BY <1>1, <1>2, <1>3, <1>4, <1>5, QuietStep
<1>6. CASE Step(s, {t}, srv[s], Nothing)
  BY <1>1, <1>2, <1>6, DropStep
<1> QED BY <1>1, <1>5, <1>6

LEMMA ms_kickKept ==
  ASSUME Inv, NEW s \in Server, NEW t \in Server, ms_kick(s, t)
  PROVE  Kept
<1> DEFINE K(m) == [srv[s] EXCEPT !.ch = Leave(@, {m.victim})]
<1>1. PICK m \in From(s, t, "KICK") :
        /\ UNCHANGED earned
        /\ \/ Step(s, {t}, K(m), To(srv[s].link \ {t}, <<m>>))
           \/ Step(s, {t}, srv[s], Nothing)
  BY DEF ms_kick
<1>2. m \in GoodMessage(earned) /\ wire[t][s] # <<>> /\ \A q \in {t} : wire[q][s] # <<>>
  BY FromFacts
<1>3. GoodTables(earned, K(m)) /\ Falls(srv[s].ch, K(m).ch)
  BY InvTables, LeaveTables
<1>4. To(srv[s].link \ {t}, <<m>>) \in Sends(earned)
  BY <1>2, SendTypes
<1> HIDE DEF K
<1>5. CASE Step(s, {t}, K(m), To(srv[s].link \ {t}, <<m>>))
  BY <1>1, <1>2, <1>3, <1>4, <1>5, QuietStep
<1>6. CASE Step(s, {t}, srv[s], Nothing)
  BY <1>1, <1>2, <1>6, DropStep
<1> QED BY <1>1, <1>5, <1>6

\* An o that arrives was earned on a version no newer than the one it changes.
LEMMA ms_tmodeKept ==
  ASSUME Inv, NEW s \in Server, NEW t \in Server, ms_tmode(s, t)
  PROVE  Kept
<1> DEFINE L == srv[s]
           C == L.ch
           K(m) == [L EXCEPT !.ch = Changed(@, m.change)]
           sent(m) == TMODE(m.user, C.ts, m.change)
<1>1. PICK m \in From(s, t, "TMODE") :
        /\ UNCHANGED earned
        /\ \/ /\ Exists(C) /\ m.ts <= C.ts /\ Counts(C, m.change, FALSE)
              /\ Step(s, {t}, K(m), To(L.link \ {t}, <<sent(m)>>))
           \/ Step(s, {t}, L, Nothing)
  BY DEF ms_tmode
<1>2. /\ m \in GoodMessage(earned) /\ m.type = "TMODE" /\ m.user \in Uid /\ m \in Message
      /\ wire[t][s] # <<>> /\ \A q \in {t} : wire[q][s] # <<>>
  BY FromFacts
<1>3. /\ m.ts \in Nat /\ m.change \in Change
      /\ m.change.mode = "o" /\ m.change.add => Had(earned, m.change.arg, m.ts)
  BY <1>2, MessageTypes DEF GoodMessage
<1>4. CASE /\ Exists(C) /\ m.ts <= C.ts /\ Counts(C, m.change, FALSE)
           /\ Step(s, {t}, K(m), To(L.link \ {t}, <<sent(m)>>))
  <2>1. /\ GoodTables(earned, L) /\ GoodChannel(earned, C) /\ L \in Tables /\ C \in Channels
        /\ C.members \subseteq L.users
    BY InvTables DEF GoodTables
  <2>2. C.ts \in Nat \ {0}
    BY <1>4, <2>1 DEF GoodChannel, Channels
  <2>3. m.change.mode = "o" /\ m.change.add => Had(earned, m.change.arg, C.ts)
    BY <1>3, <1>4, <2>2, HadLasts
  <2>4. /\ GoodChannel(earned, Changed(C, m.change)) /\ Changed(C, m.change).members = C.members
        /\ Falls(C, Changed(C, m.change))
    BY <1>3, <1>4, <2>1, <2>3, ChangedGood
  <2>5. Changed(C, m.change) \in Channels
    BY <2>4 DEF GoodChannel
  <2>6. K(m).ch = Changed(C, m.change) /\ K(m).users = L.users /\ K(m) \in Tables
    BY <2>1, <2>5 DEF Tables
  <2>7. sent(m) \in GoodMessage(earned)
    BY <1>2, <1>3, <2>2, <2>3, TmodeMessage
  <2> HIDE DEF K, sent
  <2>8. GoodTables(earned, K(m)) /\ Falls(C, K(m).ch)
    BY <2>1, <2>4, <2>6 DEF GoodTables
  <2>9. To(L.link \ {t}, <<sent(m)>>) \in Sends(earned)
    BY <2>7, SendTypes
  <2> QED BY <1>1, <1>2, <1>4, <2>8, <2>9, QuietStep
<1>5. CASE Step(s, {t}, L, Nothing)
  BY <1>1, <1>2, <1>5, DropStep
<1> QED BY <1>1, <1>4, <1>5

LEMMA ms_bmaskKept ==
  ASSUME Inv, NEW s \in Server, NEW t \in Server, ms_bmask(s, t)
  PROVE  Kept
<1> DEFINE L == srv[s]
           C == L.ch
           K(m) == [L EXCEPT !.ch.bans = @ \cup m.bans]
<1>1. PICK m \in Received(s, t, "BMASK") :
        /\ UNCHANGED earned
        /\ \/ Exists(C) /\ Step(s, {t}, K(m), To(L.link \ {t}, <<BMASK(C.ts, m.bans)>>))
           \/ Step(s, {t}, L, Nothing)
  BY DEF ms_bmask
<1>2. /\ m.bans \in SUBSET Mask /\ wire[t][s] # <<>> /\ \A q \in {t} : wire[q][s] # <<>>
  BY ReceivedFacts, MessageTypes
<1>3. CASE Exists(C) /\ Step(s, {t}, K(m), To(L.link \ {t}, <<BMASK(C.ts, m.bans)>>))
  <2>1. GoodTables(earned, L) /\ C.ts \in Nat \ {0}
    BY <1>3, InvTables DEF GoodTables, GoodChannel
  <2>2. GoodTables(earned, K(m)) /\ Falls(C, K(m).ch)
    BY <1>2, <1>3, <2>1 DEF GoodTables, GoodChannel, Tables, Channels, Exists, Falls
  <2>3. To(L.link \ {t}, <<BMASK(C.ts, m.bans)>>) \in Sends(earned)
    BY <1>2, <2>1, Messages, SendTypes
  <2> HIDE DEF K
  <2> QED BY <1>1, <1>2, <1>3, <2>2, <2>3, QuietStep
<1>4. CASE Step(s, {t}, L, Nothing)
  BY <1>1, <1>2, <1>4, DropStep
<1> QED BY <1>1, <1>3, <1>4

LEMMA parse_dropKept ==
  ASSUME Inv, NEW s \in Server, NEW t \in Server, parse_drop(s, t)
  PROVE  Kept
<1>1. PICK type \in {"QUIT", "KILL", "JOIN", "PART", "KICK", "TMODE"} :
        Received(s, t, type) # {} /\ UNCHANGED earned /\ Step(s, {t}, srv[s], Nothing)
  BY DEF parse_drop
<1>2. wire[t][s] # <<>>
  BY <1>1, ReceivedFacts
<1> QED BY <1>1, <1>2, DropStep

-----------------------------------------------------------------------------
(* Links. *)

LEMMA server_estabKept ==
  ASSUME Inv, NEW s \in Server, NEW t \in Server, server_estab(s, t)
  PROVE  Kept
<1> DEFINE K == [srv[s] EXCEPT !.link = @ \cup {t}]
           G == Seq(GoodMessage(earned))
           q == <<SERVER>> \o Burst(srv[s])
<1>1. /\ earned' = earned /\ srv' = [srv EXCEPT ![s] = K] /\ wire' = [wire EXCEPT ![s][t] = q]
  BY DEF server_estab
<1>2. GoodTables(earned, K) /\ K \in Tables /\ K.ch = srv[s].ch
  BY InvTables DEF GoodTables, Tables
<1>3. q \in G
  <2>1. <<SERVER>> \in G /\ Burst(srv[s]) \in G
    BY Messages, InvTables, BurstGood
  <2> HIDE DEF G
  <2> QED BY <2>1 DEF G
<1> HIDE DEF K, q
<1>4. wire' \in [Server -> Sends(earned)]
  <2>1. wire \in [Server -> [Server -> G]]
    BY DEF Inv, Sends
  <2> HIDE DEF G
  <2>2. wire' \in [Server -> [Server -> G]]
    BY <1>1, <1>3, <2>1
  <2> QED BY <2>2 DEF Sends, G
<1>5. \A x \in Server : srv'[x] = IF x = s THEN K ELSE srv[x]
  BY <1>1 DEF Inv
<1>6. srv' \in [Server -> Tables] /\ \A x \in Server : GoodTables(earned, srv'[x])
  BY <1>1, <1>2, <1>5 DEF Inv
<1>7. \A x \in Server : Falls(srv[x].ch, srv'[x].ch)
  BY <1>2, <1>5, InvTables
<1> QED BY <1>1, <1>4, <1>6, <1>7 DEF Kept, Inv

LEMMA mr_serverKept ==
  ASSUME Inv, NEW s \in Server, NEW t \in Server, mr_server(s, t)
  PROVE  Kept
<1> DEFINE K == [srv[s] EXCEPT !.link = @ \cup {t}]
<1>1. /\ UNCHANGED earned /\ Step(s, {t}, K, To({t}, Burst(srv[s])))
      /\ \A q \in {t} : wire[q][s] # <<>>
  BY DEF mr_server, Asked
<1>2. GoodTables(earned, K) /\ Falls(srv[s].ch, K.ch)
  BY InvTables DEF GoodTables, Tables
<1>3. To({t}, Burst(srv[s])) \in Sends(earned)
  BY InvTables, BurstGood, SendTypes
<1> HIDE DEF K
<1> QED BY <1>1, <1>2, <1>3, QuietStep

LEMMA lose_linkKept ==
  ASSUME Inv, NEW s \in Server, NEW t \in Server, lose_link(s, t)
  PROVE  Kept
<1> DEFINE W == Without(srv[s], Side[s][t])
           K == [W EXCEPT !.link = @ \ {t}]
<1>1. UNCHANGED earned /\ Step(s, {}, K, To(K.link, <<SQUIT(Side[s][t])>>))
  BY DEF lose_link
<1>2. GoodTables(earned, W) /\ Falls(srv[s].ch, W.ch)
  BY InvTables, WithoutGood
<1> HIDE DEF W
<1>3. GoodTables(earned, K) /\ K.ch = W.ch
  BY <1>2 DEF GoodTables, Tables
<1>4. Side[s][t] \in SUBSET Server
  BY SideAssumption
<1>5. To(K.link, <<SQUIT(Side[s][t])>>) \in Sends(earned)
  BY <1>4, Messages, SendTypes
<1> HIDE DEF K
<1> QED BY <1>1, <1>2, <1>3, <1>5, QuietStep

LEMMA ms_squitKept ==
  ASSUME Inv, NEW s \in Server, NEW t \in Server, ms_squit(s, t)
  PROVE  Kept
<1>1. PICK m \in Received(s, t, "SQUIT") :
        /\ UNCHANGED earned
        /\ Step(s, {t}, Without(srv[s], m.gone), To(srv[s].link \ {t}, <<m>>))
  BY DEF ms_squit
<1> DEFINE K == Without(srv[s], m.gone)
<1>2. m \in GoodMessage(earned) /\ \A q \in {t} : wire[q][s] # <<>>
  BY ReceivedFacts
<1>3. GoodTables(earned, K) /\ Falls(srv[s].ch, K.ch)
  BY InvTables, WithoutGood
<1>4. To(srv[s].link \ {t}, <<m>>) \in Sends(earned)
  BY <1>2, SendTypes
<1> HIDE DEF K
<1>5. Step(s, {t}, K, To(srv[s].link \ {t}, <<m>>))
  BY <1>1 DEF K
<1> QED BY <1>1, <1>2, <1>3, <1>4, <1>5, QuietStep

-----------------------------------------------------------------------------
(* The specification. *)

LEMMA InitInv ==
  ASSUME Init
  PROVE  Inv
<1>1. NoChannel \in Channels /\ NoChannel.members = {} /\ NoChannel.ops = {} /\ NoChannel.ts = 0
  BY DEF NoChannel, Channels
<1>2. \A s \in Server : srv[s] = [link |-> {}, users |-> {u \in Uid : Home[u] = s}, ch |-> NoChannel]
  BY DEF Init
<1>3. \A s \in Server : GoodTables(earned, srv[s])
  <2> TAKE s \in Server
  <2>1. GoodChannel(earned, NoChannel)
    BY <1>1 DEF GoodChannel, Exists
  <2> DEFINE V == {u \in Uid : Home[u] = s}
  <2>2. srv[s] = [link |-> {}, users |-> V, ch |-> NoChannel] /\ V \in SUBSET Uid
    BY <1>2
  <2> HIDE DEF V
  <2>3. srv[s].ch = NoChannel /\ srv[s] \in Tables
    BY <1>1, <2>2 DEF Tables
  <2> QED BY <1>1, <2>1, <2>3 DEF GoodTables
<1>4. srv \in [Server -> Tables]
  BY <1>1 DEF Init, Tables
<1>5. wire \in [Server -> Sends(earned)]
  BY DEF Init, Sends
<1>6. earned \in SUBSET (Uid \X Nat)
  BY DEF Init
<1> QED BY <1>3, <1>4, <1>5, <1>6 DEF Inv

LEMMA NextKept ==
  ASSUME Inv, Next
  PROVE  Kept
<1>1. CASE System
  <2>1. PICK s \in Server, t \in Server : Receive(s, t) \/ Closed(s, t)
    BY <1>1 DEF System
  <2> QED BY <2>1, mr_serverKept, ms_squitKept, ms_uidKept, ms_goneKept, ms_sjoinKept,
             ms_joinKept, ms_partKept, ms_kickKept, ms_tmodeKept, ms_bmaskKept, parse_dropKept,
             lose_linkKept DEF Receive, Closed
<1>2. CASE Users
  <2>1. PICK s \in Server, u \in Uid :
          \/ \E now \in Clock[s] : channel_do_join(s, u, now)
          \/ m_part(s, u) \/ exit_local(s, u) \/ mo_kill(s, u)
          \/ \E v \in Uid : m_kick(s, u, v)
          \/ \E d \in Change : m_mode(s, u, d)
    BY <1>2 DEF Users
  <2> QED BY <2>1, channel_do_joinKept, m_partKept, exit_localKept, mo_killKept, m_kickKept,
             m_modeKept
<1>3. CASE Network
  BY <1>3, server_estabKept, lose_linkKept DEF Network
<1> QED BY <1>1, <1>2, <1>3 DEF Next

LEMMA StutterKept ==
  ASSUME Inv, UNCHANGED vars
  PROVE  Kept
BY InvTables DEF Kept, Inv, vars

LEMMA InvHolds == Spec => []Inv
<1>1. Init => Inv
  BY InitInv
<1>2. Inv /\ [Next]_vars => Inv'
  BY NextKept, StutterKept DEF Kept
<1> QED BY <1>1, <1>2, PTL DEF Spec

-----------------------------------------------------------------------------
(* What follows. *)

\* The tables, the messages under way and the history are what they are meant
\* to be: m_sjoin, m_tmode, m_bmask and the rest never store or pass on a
\* timestamp 0, a limit that is no number, or users and masks that do not exist.
THEOREM TypeCorrect == Spec => []TypeOK
<1>1. Inv => TypeOK
  <2> SUFFICES ASSUME Inv PROVE TypeOK
    OBVIOUS
  <2>1. GoodMessage(earned) \subseteq Message
    BY DEF GoodMessage
  <2> DEFINE G == GoodMessage(earned)
  <2>2. wire \in [Server -> [Server -> Seq(G)]]
    BY DEF Inv, Sends
  <2> HIDE DEF G
  <2>3. Seq(G) \subseteq Seq(Message)
    BY <2>1 DEF G
  <2>4. wire \in [Server -> [Server -> Seq(Message)]]
    BY <2>2, <2>3
  <2> QED BY <2>4 DEF Inv, TypeOK
<1> QED BY <1>1, InvHolds, PTL

\* Whatever takes a user off a server (PART, KICK, QUIT, KILL, a split) takes the
\* membership and the status too, and the last one to leave frees the channel:
\* remove_user_from_channel and exit_one_client on any tree of servers.
THEOREM MembersAreSound == Spec => []MembersSound
<1>1. Inv => MembersSound
  BY DEF Inv, GoodTables, GoodChannel, MembersSound
<1> QED BY <1>1, InvHolds, PTL

\* However splits, bursts, joins and MODEs interleave, whoever a server has for an
\* operator became one on its version of the channel or an older one: the merge
\* of ms_sjoin and the timestamp of a TMODE keep out the operators of the newer.
THEOREM StatusEarned == Spec => []OpsEarned
<1>1. Inv => OpsEarned
  BY DEF Inv, GoodTables, GoodChannel, OpsEarned, Earned, Had
<1> QED BY <1>1, InvHolds, PTL

\* No step of any server makes the timestamp of a channel that lives on grow.
THEOREM TimestampFalls == Spec => TsFalls
<1> DEFINE A == \A s \in Server : Exists(srv[s].ch) /\ Exists(srv[s].ch)' => srv'[s].ch.ts <= srv[s].ch.ts
<1>1. ASSUME Inv, [Next]_vars PROVE [A]_vars
  <2>1. Kept
    BY <1>1, NextKept, StutterKept
  <2> QED BY <2>1 DEF Kept, Falls, Exists
<1>2. Inv /\ [Next]_vars => [A]_vars
  BY <1>1
<1>3. TsFalls <=> [][A]_vars
  BY DEF TsFalls
<1> QED BY <1>2, <1>3, InvHolds, PTL DEF Spec
=============================================================================
