------------------------------ MODULE Channel ------------------------------
(***************************************************************************)
(* One channel on a network of servers that splits and links again: how    *)
(* SJOIN, JOIN, TMODE, BMASK, PART and KICK keep the copies of its members, *)
(* their status, its modes and bans in step, by the channel's timestamp.   *)
(*                                                                         *)
(* The links that may exist form a tree (IrcNet is about how they come to);*)
(* a server s keeps in srv[s] the links it has (link), the users it knows  *)
(* (users) and the channel (ch).  wire[a][b] is what a has sent in their    *)
(* connection and b has not parsed yet; it starts with SERVER while b, who  *)
(* asked for the connection, waits for its answer.                         *)
(***************************************************************************)
EXTENDS Integers, FiniteSets, Sequences

CONSTANTS
  Server,     \* server IDs
  Side,       \* Side[s][t]: the servers behind t, t included, as seen from its
              \* neighbour s; {} when s and t are not neighbours
  Uid,        \* users
  Home,       \* Home[u]: the server of user u
  Mode,       \* the modes without a parameter
  Initial,    \* those a new channel has (n and t)
  Shut,       \* those that keep a user from joining (such as i)
  Mask,       \* ban masks
  Banned,     \* Banned[k]: the users mask k matches
  Limits,     \* the limits users may set (mode l)
  Clock       \* Clock[s]: the times s may read from its clock

ASSUME SideAssumption == Side \in [Server -> [Server -> SUBSET Server]]
ASSUME ModeAssumption == Initial \subseteq Mode /\ Shut \subseteq Mode
ASSUME HomeAssumption == Home \in [Uid -> Server]
ASSUME BannedAssumption == Banned \in [Mask -> SUBSET Uid]
ASSUME LimitAssumption == Limits \subseteq Nat \ {0}
ASSUME ClockAssumption == Clock \in [Server -> SUBSET (Nat \ {0})]

VARIABLES srv, wire,
          earned      \* history: <<u, ts>> when u became operator of version ts
vars == <<srv, wire, earned>>

-----------------------------------------------------------------------------
(* A channel, and the changes a MODE command can ask for. *)

Channels == [ts : Nat, members : SUBSET Uid, ops : SUBSET Uid,
             modes : SUBSET Mode, limit : Nat, bans : SUBSET Mask]
NoChannel == [ts |-> 0, members |-> {}, ops |-> {}, modes |-> {}, limit |-> 0, bans |-> {}]

Exists(C) == C.members # {}

\* remove_user_from_channel, for all of U: the last one frees the channel.
Leave_keeps_channel(C, U) == [C EXCEPT !.members = @ \ U, !.ops = @ \ U]
Leave(C, U) == IF C.members \subseteq U THEN NoChannel
               ELSE [C EXCEPT !.members = @ \ U, !.ops = @ \ U]

Change == [mode : {"o"}, add : BOOLEAN, arg : Uid]
     \cup [mode : {"b"}, add : BOOLEAN, arg : Mask]
     \cup [mode : {"l"}, add : BOOLEAN, arg : Limits]
     \cup [mode : {"simple"}, add : BOOLEAN, arg : Mode]

\* S with or without x.
Put(S, x, add) == IF add THEN S \cup {x} ELSE S \ {x}

\* chm_flag, chm_mask, chm_limit, chm_simple.
Changed(C, d) ==
  CASE d.mode = "o" -> [C EXCEPT !.ops = Put(@, d.arg, d.add)]
    [] d.mode = "b" -> [C EXCEPT !.bans = Put(@, d.arg, d.add)]
    [] d.mode = "l" -> [C EXCEPT !.limit = IF d.add THEN d.arg ELSE 0]
    [] OTHER        -> [C EXCEPT !.modes = Put(@, d.arg, d.add)]

\* Whether channel_mode_set has something to send; local tells whose MODE it is.
Counts(C, d, local) ==
  CASE d.mode = "o" -> d.arg \in C.members /\ (d.arg \in C.ops) # d.add
    [] d.mode = "b" -> (d.arg \in C.bans) # d.add
    [] d.mode = "l" -> d.add \/ C.limit # 0
    [] OTHER        -> ~local \/ (d.arg \in C.modes) # d.add

-----------------------------------------------------------------------------
(* Messages.  In a burst, UID stands for the UIDs of all users.  An SJOIN that
   is not full has "0" in place of the modes. *)

SERVER          == [type |-> "SERVER"]
SQUIT(gone)     == [type |-> "SQUIT", gone |-> gone]
UID(U)          == [type |-> "UID", users |-> U]
QUIT(u)         == [type |-> "QUIT", user |-> u]
KILL(u)         == [type |-> "KILL", user |-> u]
SJOIN(ts, full, modes, limit, U, ops) ==
  [type |-> "SJOIN", ts |-> ts, full |-> full, modes |-> modes, limit |-> limit,
   users |-> U, ops |-> ops]
JOIN(u, ts)     == [type |-> "JOIN", user |-> u, ts |-> ts]
PART(u)         == [type |-> "PART", user |-> u]
KICK(o, v)      == [type |-> "KICK", user |-> o, victim |-> v]
TMODE(o, ts, d) == [type |-> "TMODE", user |-> o, ts |-> ts, change |-> d]
BMASK(ts, B)    == [type |-> "BMASK", ts |-> ts, bans |-> B]

Message ==
       {SERVER}
  \cup [type : {"SQUIT"}, gone : SUBSET Server]
  \cup [type : {"UID"}, users : SUBSET Uid]
  \cup [type : {"QUIT", "KILL", "PART"}, user : Uid]
  \cup [type : {"SJOIN"}, ts : Nat \ {0}, full : BOOLEAN, modes : SUBSET Mode, limit : Nat,
        users : SUBSET Uid, ops : SUBSET Uid]
  \cup [type : {"JOIN"}, user : Uid, ts : Nat \ {0}]
  \cup [type : {"KICK"}, user : Uid, victim : Uid]
  \cup [type : {"TMODE"}, user : Uid, ts : Nat \ {0}, change : Change]
  \cup [type : {"BMASK"}, ts : Nat \ {0}, bans : SUBSET Mask]

Tables == [link : SUBSET Server, users : SUBSET Uid, ch : Channels]

To(T, q) == [b \in Server |-> IF b \in T THEN q ELSE <<>>]
Nothing  == To({}, <<>>)

\* b has a connection to a, or asked for one and has its answer under way.
Asked(b, a) == wire[a][b] # <<>> /\ Head(wire[a][b]) = SERVER
Open(b, a)  == a \in srv[b].link \/ Asked(b, a)

(***************************************************************************)
(* Server s parses the first message of the servers of read, has tables L  *)
(* after it and sends out.  What is sent to a server that has closed its   *)
(* end, or not read from a connection s closes, is lost.                   *)
(***************************************************************************)
Step(s, read, L, out) ==
  /\ srv' = [srv EXCEPT ![s] = L]
  /\ wire' = [x \in Server |-> [y \in Server |->
       CASE y = s -> IF x \in read THEN Tail(wire[x][s])
                     ELSE IF x \in srv[s].link \ L.link THEN <<>> ELSE wire[x][s]
         [] x = s /\ y # s -> IF Open(y, s) THEN wire[s][y] \o out[y] ELSE <<>>
         [] OTHER -> wire[x][y]]]

\* The message on the link from t, when it is of this type and, if it has a
\* user for its prefix, this user is known.
Received(s, t, type) ==
  {m \in (IF wire[t][s] = <<>> THEN {} ELSE {Head(wire[t][s])}) :
     m.type = type /\ t \in srv[s].link}
From(s, t, type) == {m \in Received(s, t, type) : m.user \in srv[s].users}

-----------------------------------------------------------------------------
(* What users do. *)

\* The user may enter: can_join, without invites.
can_join(C, u) ==
  /\ C.modes \cap Shut = {}
  /\ C.limit = 0 \/ Cardinality(C.members) < C.limit
  /\ \A k \in C.bans : u \notin Banned[k]

channel_do_join(s, u, now) ==
  LET L == srv[s]
      C == L.ch
  IN /\ Home[u] = s /\ u \in L.users \ C.members
     /\ IF Exists(C)
        THEN /\ can_join(C, u)
             /\ UNCHANGED earned
             /\ Step(s, {}, [L EXCEPT !.ch.members = @ \cup {u}], To(L.link, <<JOIN(u, C.ts)>>))
        ELSE /\ earned' = earned \cup {<<u, now>>}
             /\ Step(s, {}, [L EXCEPT !.ch = [NoChannel EXCEPT !.ts = now, !.members = {u},
                                                                !.ops = {u}, !.modes = Initial]],
                     To(L.link, <<SJOIN(now, TRUE, Initial, 0, {u}, {u})>>))

m_part(s, u) ==
  LET L == srv[s]
  IN /\ Home[u] = s /\ u \in L.ch.members
     /\ UNCHANGED earned
     /\ Step(s, {}, [L EXCEPT !.ch = Leave(@, {u})], To(L.link, <<PART(u)>>))

m_kick(s, o, v) ==
  LET L == srv[s]
  IN /\ Home[o] = s /\ o \in L.ch.ops /\ v \in L.ch.members
     /\ UNCHANGED earned
     /\ Step(s, {}, [L EXCEPT !.ch = Leave(@, {v})], To(L.link, <<KICK(o, v)>>))

m_mode(s, o, d) ==
  LET L == srv[s]
  IN /\ Home[o] = s /\ o \in L.ch.ops
     /\ Counts(L.ch, d, TRUE)
     /\ earned' = earned \cup (IF d.mode = "o" /\ d.add THEN {<<d.arg, L.ch.ts>>} ELSE {})
     /\ Step(s, {}, [L EXCEPT !.ch = Changed(@, d)], To(L.link, <<TMODE(o, L.ch.ts, d)>>))

exit_local(s, u) ==
  LET L == srv[s]
  IN /\ Home[u] = s /\ u \in L.users
     /\ UNCHANGED earned
     /\ Step(s, {}, [L EXCEPT !.users = @ \ {u}, !.ch = Leave(@, {u})], To(L.link, <<QUIT(u)>>))

\* KILL by an operator of s for a user of another server.
mo_kill(s, v) ==
  LET L == srv[s]
  IN /\ Home[v] # s /\ v \in L.users
     /\ UNCHANGED earned
     /\ Step(s, {}, [L EXCEPT !.users = @ \ {v}, !.ch = Leave(@, {v})], To(L.link, <<KILL(v)>>))

-----------------------------------------------------------------------------
(* What arrives about users. *)

ms_uid(s, t) ==
  \E m \in Received(s, t, "UID") :
    LET L == srv[s]
    IN /\ UNCHANGED earned
       /\ Step(s, {t}, [L EXCEPT !.users = @ \cup m.users], To(L.link \ {t}, <<m>>))

\* ms_quit, ms_kill.
ms_gone(s, t, type) ==
  \E m \in From(s, t, type) :
    LET L == srv[s]
    IN /\ UNCHANGED earned
       /\ Step(s, {t}, [L EXCEPT !.users = @ \ {m.user}, !.ch = Leave(@, {m.user})],
               To(L.link \ {t}, <<m>>))

-----------------------------------------------------------------------------
(* What arrives about the channel. *)

SetMax(i, j) == IF i > j THEN i ELSE j

\* ms_sjoin: the modes and statuses of the older side stay; of equals, both.
\* Those already on the channel keep their status.
Sjoined_takes_all(C, m, U) ==
  [ts |-> m.ts, members |-> C.members \cup U, ops |-> C.ops \cup ((m.ops \cap U) \ C.members),
   modes |-> m.modes, limit |-> m.limit, bans |-> C.bans]
Sjoined_no_new(C, m, U) ==
  IF m.ts > C.ts THEN [C EXCEPT !.members = @ \cup U]
  ELSE [C EXCEPT !.ts = m.ts, !.members = @ \cup U, !.ops = m.ops \cap U, !.modes = m.modes]
Sjoined_keeps_status(C, m, U) ==
  LET older == Exists(C) /\ m.ts < C.ts
      newer == Exists(C) /\ m.ts > C.ts
  IN [ts      |-> IF newer THEN C.ts ELSE m.ts,
      members |-> C.members \cup U,
      ops     |-> C.ops \cup (IF newer THEN {} ELSE (m.ops \cap U) \ C.members),
      modes   |-> (IF older THEN {} ELSE C.modes) \cup (IF newer THEN {} ELSE m.modes),
      limit   |-> SetMax(IF older THEN 0 ELSE C.limit, IF newer THEN 0 ELSE m.limit),
      bans    |-> C.bans]
Sjoined(C, m, U) ==
  LET older == Exists(C) /\ m.ts < C.ts
      newer == Exists(C) /\ m.ts > C.ts
  IN [ts      |-> IF newer THEN C.ts ELSE m.ts,
      members |-> C.members \cup U,
      ops     |-> (IF older THEN {} ELSE C.ops) \cup (IF newer THEN {} ELSE (m.ops \cap U) \ C.members),
      modes   |-> (IF older THEN {} ELSE C.modes) \cup (IF newer THEN {} ELSE m.modes),
      limit   |-> SetMax(IF older THEN 0 ELSE C.limit, IF newer THEN 0 ELSE m.limit),
      bans    |-> IF older THEN {} ELSE C.bans]

\* The SJOIN passed on.  Without a user the server knows it would lack its last
\* parameter and be refused as too short: nothing is sent.
Relayed_if_older(m, N, U) == IF U = {} \/ m.ts > N.ts THEN <<>> ELSE <<[m EXCEPT !.users = U]>>
Relayed(m, N, U) ==
  LET keep == m.ts <= N.ts
      full == keep /\ m.full
  IN IF U = {} THEN <<>>
     ELSE <<SJOIN(N.ts, full, IF full THEN N.modes ELSE {}, IF full THEN N.limit ELSE 0,
                  U, IF keep THEN m.ops \cap U ELSE {})>>

ms_sjoin(s, t) ==
  \E m \in Received(s, t, "SJOIN") :
    LET L == srv[s]
        U == m.users \cap L.users
        N == Sjoined(L.ch, m, U)
    IN /\ UNCHANGED earned
       /\ IF Exists(N)
          THEN Step(s, {t}, [L EXCEPT !.ch = N], To(L.link \ {t}, Relayed(m, N, U)))
          ELSE Step(s, {t}, L, Nothing)

\* ms_join: as an SJOIN without modes and operators, except for the bans.
Joined(C, m) ==
  LET older == Exists(C) /\ m.ts < C.ts
  IN [C EXCEPT !.ts      = IF Exists(C) /\ ~older THEN @ ELSE m.ts,
               !.members = @ \cup {m.user},
               !.ops     = IF older THEN {} ELSE @,
               !.modes   = IF older THEN {} ELSE @,
               !.limit   = IF older THEN 0 ELSE @]

ms_join(s, t) ==
  \E m \in From(s, t, "JOIN") :
    LET L == srv[s]
        N == Joined(L.ch, m)
    IN /\ UNCHANGED earned
       /\ Step(s, {t}, [L EXCEPT !.ch = N], To(L.link \ {t}, <<JOIN(m.user, N.ts)>>))

ms_part(s, t) ==
  \E m \in From(s, t, "PART") :
    LET L == srv[s]
    IN /\ UNCHANGED earned
       /\ IF m.user \in L.ch.members
          THEN Step(s, {t}, [L EXCEPT !.ch = Leave(@, {m.user})], To(L.link \ {t}, <<m>>))
          ELSE Step(s, {t}, L, Nothing)

ms_kick(s, t) ==
  \E m \in From(s, t, "KICK") :
    LET L == srv[s]
    IN /\ UNCHANGED earned
       /\ IF m.victim \in L.ch.members
          THEN Step(s, {t}, [L EXCEPT !.ch = Leave(@, {m.victim})], To(L.link \ {t}, <<m>>))
          ELSE Step(s, {t}, L, Nothing)

ms_tmode_unchecked(s, t) ==
  \E m \in From(s, t, "TMODE") :
    LET L == srv[s]
    IN /\ UNCHANGED earned
       /\ IF Exists(L.ch) /\ Counts(L.ch, m.change, FALSE)
          THEN Step(s, {t}, [L EXCEPT !.ch = Changed(@, m.change)],
                    To(L.link \ {t}, <<TMODE(m.user, L.ch.ts, m.change)>>))
          ELSE Step(s, {t}, L, Nothing)
ms_tmode_silent(s, t) ==
  \E m \in From(s, t, "TMODE") :
    /\ UNCHANGED earned
    /\ Step(s, {t}, [srv[s] EXCEPT !.ch = IF Exists(@) /\ m.ts <= @.ts /\ Counts(@, m.change, FALSE)
                                          THEN Changed(@, m.change) ELSE @], Nothing)
ms_tmode(s, t) ==
  \E m \in From(s, t, "TMODE") :
    LET L == srv[s]
    IN /\ UNCHANGED earned
       /\ IF Exists(L.ch) /\ m.ts <= L.ch.ts /\ Counts(L.ch, m.change, FALSE)
          THEN Step(s, {t}, [L EXCEPT !.ch = Changed(@, m.change)],
                    To(L.link \ {t}, <<TMODE(m.user, L.ch.ts, m.change)>>))
          ELSE Step(s, {t}, L, Nothing)

ms_bmask_unchecked(s, t) ==
  \E m \in Received(s, t, "BMASK") :
    LET L == srv[s]
    IN /\ UNCHANGED earned
       /\ IF Exists(L.ch)
          THEN Step(s, {t}, [L EXCEPT !.ch.bans = @ \cup m.bans],
                    To(L.link \ {t}, <<BMASK(L.ch.ts, m.bans)>>))
          ELSE Step(s, {t}, L, Nothing)
ms_bmask(s, t) ==
  \E m \in Received(s, t, "BMASK") :
    LET L == srv[s]
    IN /\ UNCHANGED earned
       /\ IF Exists(L.ch) /\ m.ts <= L.ch.ts
          THEN Step(s, {t}, [L EXCEPT !.ch.bans = @ \cup m.bans],
                    To(L.link \ {t}, <<BMASK(L.ch.ts, m.bans)>>))
          ELSE Step(s, {t}, L, Nothing)

\* parse: a prefix that is not known.  The KILL it is answered with meets one
\* that is on its way.
parse_drop(s, t) ==
  \E type \in {"QUIT", "KILL", "JOIN", "PART", "KICK", "TMODE"} :
    /\ Received(s, t, type) # {} /\ From(s, t, type) = {}
    /\ UNCHANGED earned
    /\ Step(s, {t}, srv[s], Nothing)

-----------------------------------------------------------------------------
(* Links. *)

\* server_burst, channel_send_modes: the users, then the channel, then its bans.
Burst(L) ==
  LET C == L.ch
  IN (IF L.users = {} THEN <<>> ELSE <<UID(L.users)>>)
       \o (IF Exists(C) THEN <<SJOIN(C.ts, TRUE, C.modes, C.limit, C.members, C.ops)>> ELSE <<>>)
       \o (IF Exists(C) /\ C.bans # {} THEN <<BMASK(C.ts, C.bans)>> ELSE <<>>)

\* t asks to connect, and s answers with its burst.
server_estab(s, t) ==
  LET L == [srv[s] EXCEPT !.link = @ \cup {t}]
  IN /\ Side[s][t] # {} /\ ~Open(s, t) /\ ~Open(t, s)
     /\ UNCHANGED earned
     /\ srv' = [srv EXCEPT ![s] = L]
     /\ wire' = [wire EXCEPT ![s][t] = <<SERVER>> \o Burst(srv[s])]

\* The answer reaches s.
mr_server(s, t) ==
  /\ Asked(s, t)
  /\ UNCHANGED earned
  /\ Step(s, {t}, [srv[s] EXCEPT !.link = @ \cup {t}], To({t}, Burst(srv[s])))

Without(L, gone) ==
  LET U == {u \in L.users : Home[u] \in gone}
  IN [L EXCEPT !.users = @ \ U, !.ch = Leave(@, U)]

\* A connection ends for s: dead_link_on_read, exit_client.
lose_link(s, t) ==
  /\ t \in srv[s].link
  /\ UNCHANGED earned
  /\ LET L == [Without(srv[s], Side[s][t]) EXCEPT !.link = @ \ {t}]
     IN Step(s, {}, L, To(L.link, <<SQUIT(Side[s][t])>>))

ms_squit(s, t) ==
  \E m \in Received(s, t, "SQUIT") :
    LET L == srv[s]
    IN /\ UNCHANGED earned
       /\ Step(s, {t}, Without(L, m.gone), To(L.link \ {t}, <<m>>))

-----------------------------------------------------------------------------
(* The system. *)

\* Every server alone with its users.
Init ==
  /\ srv = [s \in Server |-> [link  |-> {}, users |-> {u \in Uid : Home[u] = s}, ch |-> NoChannel]]
  /\ wire = [x \in Server |-> [y \in Server |-> <<>>]]
  /\ earned = {}

Receive(s, t) ==
  \/ mr_server(s, t) \/ ms_squit(s, t) \/ ms_uid(s, t)
  \/ ms_gone(s, t, "QUIT") \/ ms_gone(s, t, "KILL")
  \/ ms_sjoin(s, t) \/ ms_join(s, t) \/ ms_part(s, t) \/ ms_kick(s, t)
  \/ ms_tmode(s, t) \/ ms_bmask(s, t) \/ parse_drop(s, t)

\* s finds that t has closed the connection.
Closed(s, t) == ~Open(t, s) /\ lose_link(s, t)

System == \E s, t \in Server : Receive(s, t) \/ Closed(s, t)

Users ==
  \E s \in Server, u \in Uid :
    \/ \E now \in Clock[s] : channel_do_join(s, u, now)
    \/ m_part(s, u) \/ exit_local(s, u) \/ mo_kill(s, u)
    \/ \E v \in Uid : m_kick(s, u, v)
    \/ \E d \in Change : m_mode(s, u, d)

Network == \E s, t \in Server : server_estab(s, t) \/ lose_link(s, t)

Next == System \/ Users \/ Network
Spec == Init /\ [][Next]_vars
-----------------------------------------------------------------------------
(* Properties. *)

TypeOK ==
  /\ srv \in [Server -> Tables]
  /\ wire \in [Server -> [Server -> Seq(Message)]]
  /\ earned \in SUBSET (Uid \X Nat)

\* The member lists of a channel hold only clients the server knows, a channel
\* without members has been freed, and a status belongs to a member: whatever
\* takes a user away (PART, KICK, QUIT, KILL, a split) takes the membership too.
MembersSound ==
  \A s \in Server :
    LET C == srv[s].ch
    IN /\ C.ops \subseteq C.members /\ C.members \subseteq srv[s].users
       /\ C.ts # 0 <=> Exists(C)
       /\ ~Exists(C) => C = NoChannel

Earned(u, ts) == \E t \in 1 .. ts : <<u, t>> \in earned

\* Nobody is operator by a version of the channel newer than the one a server
\* has: an operator of a version made on one side of a split has no status on
\* the older one, however joins, modes, bursts and new splits interleave.
OpsEarned == \A s \in Server : \A u \in srv[s].ch.ops : Earned(u, srv[s].ch.ts)

\* The timestamp of a channel that lives on never grows.
TsFalls ==
  [][\A s \in Server : Exists(srv[s].ch) /\ Exists(srv[s].ch)' => srv'[s].ch.ts <= srv[s].ch.ts]_vars

\* A server whose channel gets an older timestamp removes its bans: they belong
\* to the version that lost.
LostBansGo ==
  [][\A s \in Server : Exists(srv[s].ch)' /\ srv'[s].ch.ts < srv[s].ch.ts => srv'[s].ch.bans = {}]_vars

\* Nothing is under way.
Quiet == \A s, t \in Server : /\ wire[s][t] = <<>>
                              /\ t \in srv[s].link <=> s \in srv[t].link

\* Once the network is quiet, linked servers have the same of the channel: its
\* members (members), the version of it (ts), who has status (ops), the modes and
\* the bans.  None holds for all there is; the runs say for what it does.
Agree(F) == Quiet => \A s \in Server : \A t \in srv[s].link, f \in F : srv[s].ch[f] = srv[t].ch[f]

\* The members of the channel.
MembersAgree == Agree({"members"})

\* The version of it.
VersionAgree == Agree({"ts"})

\* Who is operator.
StatusAgree == Agree({"ops"})

\* The modes and the limit.
ModesAgree == Agree({"modes", "limit"})

\* The bans.
BansAgree == Agree({"bans"})
=============================================================================
