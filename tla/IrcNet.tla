------------------------------- MODULE IrcNet -------------------------------
(***************************************************************************)
(* The server-to-server core of ircd-hybrid: the client and server tables  *)
(* every server keeps, the links between servers, and the commands that    *)
(* keep the tables in step: SERVER, SID, SQUIT, UID, NICK, QUIT and KILL.   *)
(*                                                                         *)
(* A server s keeps one record srv[s]:                                     *)
(*   user[u]  the struct Client of user u: its registration state, its     *)
(*            nickname and the timestamp (tsinfo) of that nickname;        *)
(*   path[x]  the servers on the servptr chain from x up to, not including,*)
(*            s; {} when s does not know x, and {s} for s itself;          *)
(*   from[x]  the directly linked server through which x is reached;       *)
(*   link[t]  the state of the connection to t (none, unknown, handshake,  *)
(*            server).                                                     *)
(* chan[a][b] is the data a has sent to b and b has not parsed yet: one    *)
(* TCP connection, so a FIFO.  A connection can be lost at any moment, and *)
(* what was under way in it is lost with it.                               *)
(***************************************************************************)
EXTENDS Integers, FiniteSets, Sequences, SequencesExt

CONSTANTS
  Server,     \* server IDs
  Uid,        \* user IDs, never reused
  Nick,       \* nicknames as written
  Home,       \* Home[u]: the server that issued u (the first half of a UID)
  Fold,       \* Fold[n]: what irccmp() compares of n
  Ident,      \* Ident[u]: username and sockhost of u
  Hub,        \* servers with serverinfo::hub set
  HubMask,    \* HubMask[t]: the servers connect::hub_mask lets t introduce
  LeafMask,   \* LeafMask[t]: the servers connect::leaf_mask denies t
  Clock,      \* Clock[s]: the times s may read from its clock
  NoNick      \* the empty name

ASSUME ServerAssumption == IsFiniteSet(Server) /\ IsFiniteSet(Uid)
ASSUME HomeAssumption == Home \in [Uid -> Server]
ASSUME NickAssumption == NoNick \notin Nick
ASSUME MaskAssumption == HubMask \in [Server -> SUBSET Server] /\ LeafMask \in [Server -> SUBSET Server]
ASSUME ClockAssumption == Clock \in [Server -> SUBSET (Nat \ {0})]
ASSUME IdAssumption == Server \cap Uid = {}

VARIABLES srv, chan, born
vars == <<srv, chan, born>>

-----------------------------------------------------------------------------
(* Messages.  src is the prefix: a server or a user. *)

SERVER(s)            == [type |-> "SERVER", src |-> s]
SID(p, x)            == [type |-> "SID", src |-> p, sid |-> x]
SQUIT(p, x)          == [type |-> "SQUIT", src |-> p, sid |-> x]
GLOBOPS(p)           == [type |-> "GLOBOPS", src |-> p]
UID(p, u, n, ts)     == [type |-> "UID", src |-> p, uid |-> u, nick |-> n, ts |-> ts]
NICK(u, n, ts)       == [type |-> "NICK", src |-> u, nick |-> n, ts |-> ts]
QUIT(u)              == [type |-> "QUIT", src |-> u]
KILL(p, u)           == [type |-> "KILL", src |-> p, uid |-> u]

Source == Server \cup Uid

Message ==
       [type : {"SERVER"}, src : Server]
  \cup [type : {"SID"}, src : Server, sid : Server]
  \cup [type : {"SQUIT"}, src : Source, sid : Server]
  \cup [type : {"GLOBOPS"}, src : Source]
  \cup [type : {"UID"}, src : Server, uid : Uid, nick : Nick, ts : Nat]
  \cup [type : {"NICK"}, src : Uid, nick : Nick, ts : Nat]
  \cup [type : {"QUIT"}, src : Uid]
  \cup [type : {"KILL"}, src : Source, uid : Uid]

-----------------------------------------------------------------------------
(* The tables of one server.  L is a value of srv[s]. *)

\* "nick" and "user": the connection has sent only the one command so far.
User   == [reg : {"none", "user"}, nick : {NoNick}, ts : {0}]
            \cup [reg : {"nick", "client"}, nick : Nick, ts : Nat]
NoUser == [reg |-> "none", nick |-> NoNick, ts |-> 0]

Tables == [user : [Uid -> User],
           path : [Server -> SUBSET Server],
           from : [Server -> Server],
           link : [Server -> {"none", "unknown", "handshake", "server"}]]

IsClient(L, u)  == L.user[u].reg = "client"
IsUnknown(L, u) == L.user[u].reg \in {"nick", "user"}
Known(L, x)     == L.path[x] # {}
Links(L)        == {t \in Server : L.link[t] = "server"}

\* hash_find_client: the clients, registered or not, whose name is n.
Holders_strcmp(L, n) == {u \in Uid : L.user[u].nick = n}
Holders(L, n) == {u \in Uid : L.user[u].nick # NoNick /\ Fold[L.user[u].nick] = Fold[n]}

\* The server through which a prefix is reached, and whether it is known.
Found(L, p)     == IF p \in Server THEN Known(L, p) ELSE IsClient(L, p)
Direction(L, p) == L.from[IF p \in Server THEN p ELSE Home[p]]

servptr(L, s, x) == IF L.path[x] = {x} THEN s
                    ELSE CHOOSE y \in Server : L.path[y] = L.path[x] \ {x}

\* exit_one_client for a user.
DropUser_keeps_name(L, u) == [L EXCEPT !.user[u].reg = "none"]
DropUser(L, u) == [L EXCEPT !.user[u] = NoUser]

\* exit_one_client and recurse_remove_clients for a server: all that lies behind x.
Behind(L, x) == {y \in Server : x \in L.path[y]}
DropServer_alone(L, x) ==
  [L EXCEPT !.path[x] = {}, !.from[x] = x, !.link[x] = IF @ = "server" THEN "none" ELSE @]
DropServer(L, x) ==
  [L EXCEPT !.user = [u \in Uid |-> IF Home[u] \in Behind(L, x) THEN NoUser ELSE @[u]],
            !.path = [y \in Server |-> IF y \in Behind(L, x) THEN {} ELSE @[y]],
            !.from = [y \in Server |-> IF y \in Behind(L, x) THEN y ELSE @[y]],
            !.link[x] = IF @ = "server" THEN "none" ELSE @]

CloseLink(L, t) == [L EXCEPT !.link[t] = "none"]

AddServer(L, p, x, t) == [L EXCEPT !.path[x] = IF p = x THEN {x} ELSE L.path[p] \cup {x},
                                   !.from[x] = t]

SetNick(L, u, n, ts) == [L EXCEPT !.user[u] = [reg |-> @.reg, nick |-> n, ts |-> ts]]
AddUser(L, u, n, ts) == [L EXCEPT !.user[u] = [reg |-> "client", nick |-> n, ts |-> ts]]

\* tsinfo after a change to nickname n: kept when only the case changes.
NewTs(old, n, ts) == IF old.nick # NoNick /\ Fold[old.nick] = Fold[n] THEN old.ts ELSE ts

-----------------------------------------------------------------------------
(* What a handler sends: a sequence of messages for every server. *)

Nothing     == [b \in Server |-> <<>>]
To(T, m)    == [b \in Server |-> IF b \in T THEN <<m>> ELSE <<>>]
o1 ++ o2    == [b \in Server |-> o1[b] \o o2[b]]

\* exit_client for a server without FLAGS_SQUIT.
exit_server(L, s, x) == To({x} \cap Links(L), SQUIT(s, s)) ++ To(Links(L) \ {x}, SQUIT(s, x))

(***************************************************************************)
(* Server s takes one step: it parses the first message from each server   *)
(* of read, its tables become L, and it sends out.  Data for a server that *)
(* has closed its end is lost, and so is what s has not read from a        *)
(* connection it closes.                                                   *)
(***************************************************************************)
Step(s, read, L, out) ==
  /\ srv' = [srv EXCEPT ![s] = L]
  /\ chan' = [a \in Server |-> [b \in Server |->
       CASE b = s -> IF L.link[a] = "none" THEN <<>>
                     ELSE IF a \in read THEN Tail(chan[a][s]) ELSE chan[a][s]
         [] a = s /\ b # s -> IF srv[b].link[s] = "none" THEN chan[s][b]
                              ELSE chan[s][b] \o out[b]
         [] OTHER -> chan[a][b]]]

Head1(s, t) == IF chan[t][s] = <<>> THEN {} ELSE {Head(chan[t][s])}

\* The message parse() hands to the handler of command type on the link from t.
Received(s, t, type) ==
  {m \in Head1(s, t) : /\ m.type = type
                       /\ srv[s].link[t] = "server"
                       /\ Found(srv[s], m.src)
                       /\ Direction(srv[s], m.src) = t}

-----------------------------------------------------------------------------
(* Local clients. *)

introduce_client(s, L, u) == To(Links(L), UID(s, u, L.user[u].nick, L.user[u].ts))

\* NICK from a connection that is not registered yet; the first command of a
\* connection also creates it.
mr_nick(s, u, n, now) ==
  /\ Home[u] = s
  /\ IF srv[s].user[u].reg = "none" THEN u \notin born ELSE IsUnknown(srv[s], u)
  /\ Holders(srv[s], n) \subseteq {u}
  /\ born' = born \cup {u}
  /\ LET old  == srv[s].user[u]
         done == old.reg = "user"
         L    == [srv[s] EXCEPT !.user[u] = [reg  |-> IF done THEN "client" ELSE "nick",
                                             nick |-> n,
                                             ts   |-> NewTs(old, n, now)]]
     IN Step(s, {}, L, IF done THEN introduce_client(s, L, u) ELSE Nothing)

\* Everything else registration waits for: USER, and with it the checks of
\* register_local_user.
mr_user(s, u) ==
  /\ Home[u] = s
  /\ srv[s].user[u].reg \in {"none", "nick"}
  /\ srv[s].user[u].reg = "none" => u \notin born
  /\ born' = born \cup {u}
  /\ LET done == srv[s].user[u].reg = "nick"
         L    == [srv[s] EXCEPT !.user[u].reg = IF done THEN "client" ELSE "user"]
     IN Step(s, {}, L, IF done THEN introduce_client(s, L, u) ELSE Nothing)

m_nick(s, u, n, now) ==
  /\ Home[u] = s /\ IsClient(srv[s], u)
  /\ srv[s].user[u].nick # n
  /\ \A v \in Holders(srv[s], n) : v = u \/ IsUnknown(srv[s], v)
  /\ UNCHANGED born
  /\ LET ts == NewTs(srv[s].user[u], n, now)
         L0 == [srv[s] EXCEPT !.user = [v \in Uid |->
                  IF v \in Holders(srv[s], n) \ {u} THEN NoUser ELSE @[v]]]
     IN Step(s, {}, SetNick(L0, u, n, ts), To(Links(L0), NICK(u, n, ts)))

\* exit_client for a local client: QUIT, a lost connection, a K-line, a KILL
\* by a local operator.
exit_local(s, u) ==
  /\ Home[u] = s /\ srv[s].user[u].reg # "none"
  /\ UNCHANGED born
  /\ Step(s, {}, DropUser(srv[s], u),
          IF IsClient(srv[s], u) THEN To(Links(srv[s]), QUIT(u)) ELSE Nothing)

\* KILL by operator o of s for a user of another server.
mo_kill(s, o, v) ==
  /\ Home[o] = s /\ IsClient(srv[s], o)
  /\ Home[v] # s /\ IsClient(srv[s], v)
  /\ UNCHANGED born
  /\ Step(s, {}, DropUser(srv[s], v), To(Links(srv[s]), KILL(o, v)))

-----------------------------------------------------------------------------
(* Collisions of nicknames: who has to go. *)

Verdict_older_wins(old, newts, same) ==
  IF newts = 0 \/ old.ts = 0 \/ newts = old.ts THEN "both"
  ELSE IF newts > old.ts THEN "new" ELSE "old"
Verdict(old, newts, same) ==
  IF newts = 0 \/ old.ts = 0 \/ newts = old.ts THEN "both"
  ELSE IF (same /\ newts < old.ts) \/ (~same /\ newts > old.ts) THEN "new"
  ELSE "old"

change_remote_nick_keeps_ts(L, t, m) ==
  [L |-> SetNick(L, m.src, m.nick, L.user[m.src].ts),
   out |-> To(Links(L) \ {t}, NICK(m.src, m.nick, m.ts))]
change_remote_nick(L, t, m) ==
  LET ts == NewTs(L.user[m.src], m.nick, m.ts)
  IN [L |-> SetNick(L, m.src, m.nick, ts), out |-> To(Links(L) \ {t}, NICK(m.src, m.nick, ts))]

uid_from_server(L, t, m) ==
  [L |-> AddUser(L, m.uid, m.nick, m.ts), out |-> To(Links(L) \ {t}, UID(m.src, m.uid, m.nick, m.ts))]

ms_nick(s, t) ==
  \E m \in Received(s, t, "NICK") :
    LET L == srv[s]
        u == m.src
        Change(L0, out) == LET r == change_remote_nick(L0, t, m) IN Step(s, {t}, r.L, out ++ r.out)
        Kill(v) == To(Links(L), KILL(s, v))
    IN /\ UNCHANGED born
       /\ \/ Holders(L, m.nick) = {} /\ Change(L, Nothing)
          \/ \E v \in Holders(L, m.nick) :
               \/ IsUnknown(L, v) /\ Change(DropUser(L, v), Nothing)
               \/ v = u /\ L.user[u].nick # m.nick /\ Change(L, Nothing)
               \/ v = u /\ L.user[u].nick = m.nick /\ Step(s, {t}, L, Nothing)
               \/ /\ v # u /\ IsClient(L, v)
                  /\ CASE Verdict(L.user[v], m.ts, Ident[u] = Ident[v]) = "both" ->
                            Step(s, {t}, DropUser(DropUser(L, u), v), Kill(u) ++ Kill(v))
                       [] Verdict(L.user[v], m.ts, Ident[u] = Ident[v]) = "new" ->
                            Step(s, {t}, DropUser(L, u), Kill(u))
                       [] OTHER -> Change(DropUser(L, v), Kill(v))

ms_uid(s, t) ==
  \E m \in Received(s, t, "UID") :
    LET L == srv[s]
        Add(L0, out) == LET r == uid_from_server(L0, t, m) IN Step(s, {t}, r.L, out ++ r.out)
        Kill(v) == To(Links(L), KILL(s, v))
        Refuse  == To({t}, KILL(s, m.uid))
    IN /\ UNCHANGED born
       /\ m.src = Home[m.uid]
       /\ \/ IsClient(L, m.uid) /\ Step(s, {t}, DropUser(L, m.uid), Kill(m.uid))
          \/ ~IsClient(L, m.uid) /\ Holders(L, m.nick) = {} /\ Add(L, Nothing)
          \/ /\ ~IsClient(L, m.uid)
             /\ \E v \in Holders(L, m.nick) :
                  \/ IsUnknown(L, v) /\ Add(DropUser(L, v), Nothing)
                  \/ /\ IsClient(L, v)
                     /\ CASE Verdict(L.user[v], m.ts, Ident[m.uid] = Ident[v]) = "both" ->
                               Step(s, {t}, DropUser(L, v), Refuse ++ Kill(v))
                          [] Verdict(L.user[v], m.ts, Ident[m.uid] = Ident[v]) = "new" ->
                               Step(s, {t}, L, Refuse)
                          [] OTHER -> Add(DropUser(L, v), Kill(v))

ms_kill_answers(s, t) ==
  \E m \in Received(s, t, "KILL") :
    /\ UNCHANGED born
    /\ IF IsClient(srv[s], m.uid)
       THEN Step(s, {t}, DropUser(srv[s], m.uid), To(Links(srv[s]) \ {t}, KILL(m.src, m.uid)))
       ELSE Step(s, {t}, srv[s], To({t}, KILL(s, m.uid)))
ms_kill(s, t) ==
  \E m \in Received(s, t, "KILL") :
    /\ UNCHANGED born
    /\ IF IsClient(srv[s], m.uid)
       THEN Step(s, {t}, DropUser(srv[s], m.uid), To(Links(srv[s]) \ {t}, KILL(m.src, m.uid)))
       ELSE Step(s, {t}, srv[s], Nothing)

ms_quit(s, t) ==
  \E m \in Received(s, t, "QUIT") :
    /\ UNCHANGED born
    /\ Step(s, {t}, DropUser(srv[s], m.src), To(Links(srv[s]) \ {t}, QUIT(m.src)))

-----------------------------------------------------------------------------
(* Servers. *)

\* a connects to b, and sends SERVER (with PASS and CAPAB).
server_connect(a, b) ==
  /\ a # b
  /\ srv[a].link[b] = "none" /\ srv[b].link[a] = "none"
  /\ ~Known(srv[a], b)
  /\ UNCHANGED born
  /\ srv'  = [srv EXCEPT ![a].link[b] = "handshake", ![b].link[a] = "unknown"]
  /\ chan' = [chan EXCEPT ![a][b] = <<SERVER(a)>>]

\* Every order in which the tables may be walked: a server before those behind it.
ServerOrders(L, S) ==
  {q \in SetToSeqs(S) : \A i, j \in DOMAIN q : q[i] \in L.path[q[j]] => i <= j}
Burst(s, L, q, r) ==
  [i \in DOMAIN q |-> SID(servptr(L, s, q[i]), q[i])]
    \o [i \in DOMAIN r |-> UID(Home[r[i]], r[i], L.user[r[i]].nick, L.user[r[i]].ts)]

\* server_estab: the new link t gets the handshake, the servers and the users s
\* knows; the other links hear of t.
server_estab(s, t) ==
  LET L     == srv[s]
      Hello == IF L.link[t] = "unknown" THEN <<SERVER(s)>> ELSE <<>>
      L1    == [AddServer(L, t, t, t) EXCEPT !.link[t] = "server"]
  IN \E q \in ServerOrders(L, {y \in Server \ {s} : Known(L, y)}),
        r \in SetToSeqs({u \in Uid : IsClient(L, u)}) :
       Step(s, {t}, L1,
            [b \in Server |-> IF b = t THEN Hello \o Burst(s, L, q, r)
                              ELSE IF b \in Links(L) THEN <<SID(s, t)>> ELSE <<>>])

mr_server(s, t) ==
  \E m \in Head1(s, t) :
    /\ m.type = "SERVER"
    /\ srv[s].link[t] \in {"unknown", "handshake"}
    /\ UNCHANGED born
    /\ IF Known(srv[s], t) \/ (s \notin Hub /\ Links(srv[s]) # {})
       THEN Step(s, {}, CloseLink(srv[s], t), Nothing)
       ELSE server_estab(s, t)

\* A connect in progress to a server that turns up elsewhere is given up.
Override(L, x) == IF L.link[x] = "handshake" THEN CloseLink(L, x) ELSE L

\* The server that has to go when the link t brings SID(p, x), if any.
Unwelcome_no_duplicate(L, t, p, x) ==
  CASE x \notin HubMask[t] -> {p} [] x \in HubMask[t] \cap LeafMask[t] -> {t} [] OTHER -> {}
Unwelcome_by_uplink(L, t, p, x) ==
  CASE Known(L, x) -> {t}
    [] ~Known(L, x) /\ x \notin HubMask[p] -> {p}
    [] ~Known(L, x) /\ x \in HubMask[p] \cap LeafMask[p] -> {t}
    [] OTHER -> {}
Unwelcome(L, t, p, x) ==
  CASE Known(L, x) -> {t}
    [] ~Known(L, x) /\ x \notin HubMask[t] -> {p}
    [] ~Known(L, x) /\ x \in HubMask[t] \cap LeafMask[t] -> {t}
    [] OTHER -> {}

ms_sid(s, t) ==
  \E m \in Received(s, t, "SID") :
    LET L    == IF Known(srv[s], m.sid) THEN srv[s] ELSE Override(srv[s], m.sid)
        Exit == Unwelcome(srv[s], t, m.src, m.sid)
    IN /\ UNCHANGED born
       /\ \/ \E x \in Exit : Step(s, {t}, DropServer(L, x), exit_server(L, s, x))
          \/ Exit = {} /\ Step(s, {t}, AddServer(L, m.src, m.sid, t),
                                To(Links(L) \ {t}, SID(m.src, m.sid)))

\* SQUIT by operator o of s for server x.
mo_squit(s, o, x) ==
  LET L == srv[s]
  IN /\ Home[o] = s /\ IsClient(L, o)
     /\ x # s /\ Known(L, x)
     /\ UNCHANGED born
     /\ Step(s, {}, DropServer(L, x),
             To({x} \cap Links(L), SQUIT(o, s)) ++ To(Links(L) \ {x}, SQUIT(o, x)))

ms_squit(s, t) ==
  \E m \in Received(s, t, "SQUIT") :
    LET L == srv[s]
        x == IF m.sid = s THEN t ELSE m.sid
    IN /\ UNCHANGED born
       /\ IF ~Known(L, x) THEN Step(s, {t}, L, Nothing)
          ELSE Step(s, {t}, DropServer(L, x),
                    IF x \in Links(L)
                    THEN To(Links(L) \ {t}, GLOBOPS(s)) ++ To({x}, SQUIT(m.src, s))
                           ++ To(Links(L) \ {x, t}, SQUIT(m.src, x))
                    ELSE To(Links(L) \ {t}, SQUIT(m.src, x)))

ms_globops(s, t) ==
  \E m \in Received(s, t, "GLOBOPS") :
    /\ UNCHANGED born
    /\ Step(s, {t}, srv[s], To(Links(srv[s]) \ {t}, GLOBOPS(m.src)))

\* parse: the prefix is not known here (parse_remove_unknown), or it is reached
\* through another link (fake direction).
parse_drop(s, t) ==
  \E m \in Head1(s, t) :
    LET L == srv[s]
    IN /\ L.link[t] = "server"
       /\ UNCHANGED born
       /\ \/ /\ ~Found(L, m.src)
             /\ Step(s, {t}, L, To({t}, IF m.src \in Server THEN SQUIT(s, m.src)
                                                            ELSE KILL(s, m.src)))
          \/ /\ Found(L, m.src) /\ Direction(L, m.src) # t
             /\ Step(s, {t}, L, Nothing)

\* dead_link_on_read and its like: s gives up its connection to t.
lose_link(s, t) ==
  /\ srv[s].link[t] # "none"
  /\ UNCHANGED born
  /\ IF srv[s].link[t] = "server"
     THEN Step(s, {}, DropServer(srv[s], t), exit_server(srv[s], s, t))
     ELSE Step(s, {}, CloseLink(srv[s], t), Nothing)

-----------------------------------------------------------------------------
(* The system. *)

Init ==
  /\ srv = [s \in Server |->
             [user |-> [u \in Uid |-> NoUser],
              path |-> [x \in Server |-> IF x = s THEN {s} ELSE {}],
              from |-> [x \in Server |-> x],
              link |-> [x \in Server |-> "none"]]]
  /\ chan = [a \in Server |-> [b \in Server |-> <<>>]]
  /\ born = {}

\* s parses the next message from t.
Receive(s, t) ==
  \/ mr_server(s, t) \/ ms_sid(s, t) \/ ms_squit(s, t) \/ ms_globops(s, t)
  \/ ms_uid(s, t) \/ ms_nick(s, t) \/ ms_kill(s, t) \/ ms_quit(s, t)
  \/ parse_drop(s, t)

\* s finds that t has closed the connection.
Closed(s, t) == srv[t].link[s] = "none" /\ lose_link(s, t)

System == \E s, t \in Server : Receive(s, t) \/ Closed(s, t)

Environment ==
  \/ \E s \in Server, u \in Uid :
       \/ \E n \in Nick, now \in Clock[s] : mr_nick(s, u, n, now) \/ m_nick(s, u, n, now)
       \/ mr_user(s, u) \/ exit_local(s, u)
       \/ \E v \in Uid : mo_kill(s, u, v)
       \/ \E x \in Server : mo_squit(s, u, x)
  \/ \E s, t \in Server : server_connect(s, t) \/ lose_link(s, t)

Next == System \/ Environment

\* Servers run: what has arrived is parsed, and a closed connection is noticed.
Fairness == \A s, t \in Server : WF_vars(Receive(s, t)) /\ WF_vars(Closed(s, t))

Spec == Init /\ [][Next]_vars /\ Fairness
-----------------------------------------------------------------------------
(* Properties. *)

TypeOK ==
  /\ srv \in [Server -> Tables]
  /\ chan \in [Server -> [Server -> Seq(Message)]]
  /\ born \subseteq Uid

\* hash_find_client has one answer: on no server do two clients, registered or
\* not, hold nicknames that irccmp() takes for equal.  Every way to a name
\* (NICK, UID, the collision rules, "Overridden by other sign on") keeps it.
UniqueNames(L) ==
  \A u, v \in Uid :
    /\ L.user[u].nick # NoNick /\ L.user[v].nick # NoNick
    /\ Fold[L.user[u].nick] = Fold[L.user[v].nick]
    => u = v
NickUnique == \A s \in Server : UniqueNames(srv[s])

\* The servptr and from pointers of every client and server lead to structures
\* that are still there: a server that goes takes all behind it along, a remote
\* user is known only with its server, and everything is reached through an
\* established link.
Chain(s, L, x) ==
  /\ x \in L.path[x] /\ s \notin L.path[x]
  /\ L.from[x] \in L.path[x] /\ L.link[L.from[x]] = "server"
  /\ L.path[x] = {x} \/ \E y \in L.path[x] : L.path[y] = L.path[x] \ {x}
  /\ \A y \in L.path[x] : /\ Known(L, y) /\ L.path[y] \subseteq L.path[x]
                          /\ L.from[y] = L.from[x]
ChainsClosed(s, L) ==
  /\ L.path[s] = {s} /\ L.from[s] = s /\ L.link[s] = "none"
  /\ \A x \in Server \ {s} : Known(L, x) => Chain(s, L, x)
  /\ \A t \in Server \ {s} : L.link[t] = "server" <=> (L.path[t] = {t} /\ L.from[t] = t)
  /\ \A u \in Uid : /\ IsUnknown(L, u) => Home[u] = s
                    /\ IsClient(L, u) => Known(L, Home[u])
Routes == \A s \in Server : ChainsClosed(s, srv[s])

\* A server comes in only behind a link that may hub it: whatever is reached through t,
\* however far behind it, t's hub_mask allows and its leaf_mask does not deny.
MasksKept(s, L) ==
  \A x \in Server \ {s} :
    Known(L, x) /\ L.from[x] # x => x \in HubMask[L.from[x]] \ LeafMask[L.from[x]]
Masked == \A s \in Server : MasksKept(s, srv[s])

Linked(s, t) == srv[s].link[t] = "server" /\ srv[t].link[s] = "server"

\* Nothing is under way: every message parsed, every connection whole.
Quiet ==
  \A s, t \in Server : /\ chan[s][t] = <<>>
                       /\ srv[s].link[t] = "server" \/ srv[s].link[t] = "none"
                       /\ srv[s].link[t] = srv[t].link[s]

\* Once the network is quiet, linked servers know the same servers, and each is
\* on one side of each link: the links form a tree, whatever connects crossed.
RoutingTree ==
  Quiet => \A s, t \in Server : Linked(s, t) =>
    \A x \in Server : /\ Known(srv[s], x) <=> Known(srv[t], x)
                      /\ Known(srv[s], x) => (srv[s].from[x] = t <=> srv[t].from[x] # s)

\* Once the network is quiet, linked servers have the same users under the same
\* nicknames with the same timestamps.
UserAgreement ==
  Quiet => \A s, t \in Server : Linked(s, t) =>
    \A u \in Uid : /\ IsClient(srv[s], u) <=> IsClient(srv[t], u)
                   /\ IsClient(srv[s], u) => srv[s].user[u] = srv[t].user[u]

\* exit_client: "the rest of IRC network is notified of the exit".  Of a user: once
\* the network is quiet, a server linked to the one that exited it has not kept it.
UserExitsSpread ==
  Quiet => \A s, t \in Server, u \in Uid :
    Linked(s, t) /\ IsClient(srv[s], u) /\ Known(srv[t], Home[u]) => IsClient(srv[t], u)

\* Of a server: what the next server on the way to it has exited is not kept.
NoGhostServers ==
  Quiet => \A s, x \in Server : Known(srv[s], x) => Known(srv[srv[s].from[x]], x)

\* The network comes to rest once its operators, users and links leave it alone:
\* no KILL and SQUIT go back and forth for ever.
Settles == <>[]Quiet
=============================================================================
