---------------------------- MODULE IrcNetProofs ----------------------------
(***************************************************************************)
(* What holds of IrcNet for any number of servers, users and nicknames.    *)
(* The invariants speak of one server's tables at a time, so the proof is  *)
(* by the operations on the tables: each keeps TableInv, and a Step of a   *)
(* server whose new tables satisfy it keeps Inv.                           *)
(***************************************************************************)
EXTENDS IrcNet, FiniteSetTheorems, TLAPS

TableInv(s, L) == L \in Tables /\ UniqueNames(L) /\ ChainsClosed(s, L) /\ MasksKept(s, L)
Inv == TypeOK /\ NickUnique /\ Routes /\ Masked

Sends == [Server -> Seq(Message)]

-----------------------------------------------------------------------------
(* Messages. *)

LEMMA MessageTypes ==
  /\ \A s \in Server : SERVER(s) \in Message
  /\ \A s, x \in Server : SID(s, x) \in Message
  /\ \A p \in Source, x \in Server : SQUIT(p, x) \in Message
  /\ \A p \in Source : GLOBOPS(p) \in Message
  /\ \A s \in Server, u \in Uid, n \in Nick, ts \in Nat : UID(s, u, n, ts) \in Message
  /\ \A u \in Uid, n \in Nick, ts \in Nat : NICK(u, n, ts) \in Message
  /\ \A u \in Uid : QUIT(u) \in Message
  /\ \A p \in Source, u \in Uid : KILL(p, u) \in Message
BY DEF Message, SERVER, SID, SQUIT, GLOBOPS, UID, NICK, QUIT, KILL

LEMMA MessageFields ==
  ASSUME NEW m \in Message
  PROVE  /\ m.src \in Source
         /\ m.type = "SID" => m.src \in Server /\ m.sid \in Server
         /\ m.type = "SQUIT" => m.sid \in Server
         /\ m.type = "UID" => m.src \in Server /\ m.uid \in Uid /\ m.nick \in Nick /\ m.ts \in Nat
         /\ m.type = "NICK" => m.src \in Uid /\ m.nick \in Nick /\ m.ts \in Nat
         /\ m.type = "QUIT" => m.src \in Uid
         /\ m.type = "KILL" => m.uid \in Uid
BY DEF Message, Source

LEMMA SendTypes ==
  /\ Nothing \in Sends
  /\ \A T, m : m \in Message => To(T, m) \in Sends
  /\ \A o1, o2 \in Sends : o1 ++ o2 \in Sends
BY DEF Nothing, To, ++, Sends

-----------------------------------------------------------------------------
(* The tables of one server. *)

LEMMA DropUserInv ==
  ASSUME NEW s \in Server, NEW L, TableInv(s, L), NEW u \in Uid
  PROVE  TableInv(s, DropUser(L, u))
<1> DEFINE K == DropUser(L, u)
<1>1. K \in Tables
  BY DEF TableInv, Tables, DropUser, NoUser, User
<1>2. \A v \in Uid : K.user[v] = IF v = u THEN NoUser ELSE L.user[v]
  BY DEF TableInv, Tables, DropUser
<1>3. K.path = L.path /\ K.from = L.from /\ K.link = L.link
  BY DEF TableInv, Tables, DropUser
<1>4. UniqueNames(K)
  BY <1>2 DEF TableInv, UniqueNames, NoUser
<1>5. ChainsClosed(s, K)
  BY <1>2, <1>3 DEF TableInv, ChainsClosed, Chain, IsUnknown, IsClient, Known, NoUser
<1>m. MasksKept(s, K)
  BY <1>3 DEF TableInv, MasksKept, Known
<1> QED BY <1>1, <1>4, <1>5, <1>m DEF TableInv

LEMMA DropServerInv ==
  ASSUME NEW s \in Server, NEW L, TableInv(s, L), NEW x \in Server \ {s}
  PROVE  TableInv(s, DropServer(L, x))
<1> DEFINE K == DropServer(L, x)
           B == Behind(L, x)
<1> USE HomeAssumption
<1>1. K \in Tables
  BY DEF TableInv, Tables, DropServer, NoUser, User
<1>2. /\ \A v \in Uid : K.user[v] = IF Home[v] \in B THEN NoUser ELSE L.user[v]
      /\ \A y \in Server : K.path[y] = IF y \in B THEN {} ELSE L.path[y]
      /\ \A y \in Server : K.from[y] = IF y \in B THEN y ELSE L.from[y]
      /\ \A y \in Server : K.link[y] = IF y = x /\ L.link[x] = "server" THEN "none" ELSE L.link[y]
  BY DEF TableInv, Tables, DropServer
<1>3. UniqueNames(K)
  BY <1>2 DEF TableInv, UniqueNames, NoUser
<1>4. ChainsClosed(s, K)
  <2>1. s \notin B
    BY DEF TableInv, ChainsClosed, Chain, Behind
  <2>2. \A y \in Server : y \in B <=> x \in L.path[y]
    BY DEF Behind
  <2>3. K.path[s] = {s} /\ K.from[s] = s /\ K.link[s] = "none"
    BY <1>2, <2>1 DEF TableInv, ChainsClosed, Chain
  <2>4. \A y \in Server \ {s} : Known(K, y) =>
          /\ y \notin B /\ Known(L, y) /\ K.path[y] = L.path[y] /\ K.from[y] = L.from[y]
          /\ L.path[y] \subseteq Server
          /\ \A z \in L.path[y] : z \notin B /\ K.path[z] = L.path[z] /\ K.from[z] = L.from[z]
    <3> SUFFICES ASSUME NEW y \in Server \ {s}, Known(K, y)
                 PROVE  /\ y \notin B /\ Known(L, y) /\ K.path[y] = L.path[y] /\ K.from[y] = L.from[y]
                        /\ L.path[y] \subseteq Server
                        /\ \A z \in L.path[y] : z \notin B /\ K.path[z] = L.path[z] /\ K.from[z] = L.from[z]
      OBVIOUS
    <3>1. y \notin B /\ Known(L, y) /\ K.path[y] = L.path[y] /\ K.from[y] = L.from[y]
      BY <1>2 DEF Known
    <3>2. L.path[y] \subseteq Server
      BY DEF TableInv, Tables
    <3>3. \A z \in L.path[y] : L.path[z] \subseteq L.path[y]
      BY <3>1 DEF TableInv, ChainsClosed, Chain
    <3> QED BY <1>2, <2>2, <3>1, <3>2, <3>3
  <2>5. \A y \in Server \ {s} : Known(K, y) => Chain(s, K, y)
    <3> SUFFICES ASSUME NEW y \in Server \ {s}, Known(K, y)
                 PROVE  Chain(s, K, y)
      OBVIOUS
    <3>0. /\ y \notin B /\ Known(L, y) /\ K.path[y] = L.path[y] /\ K.from[y] = L.from[y]
          /\ L.path[y] \subseteq Server
          /\ \A z \in L.path[y] : z \notin B /\ K.path[z] = L.path[z] /\ K.from[z] = L.from[z]
      BY <2>4
    <3>1. Chain(s, L, y)
      BY <3>0 DEF TableInv, ChainsClosed, Chain
    <3>2. L.from[y] # x
      BY <3>0, <3>1, <2>2 DEF Chain
    <3>3. K.link[K.from[y]] = "server"
      BY <3>0, <3>1, <3>2, <1>2 DEF Chain
    <3> QED BY <3>0, <3>1, <3>3 DEF Known, Chain
  <2>6. \A t \in Server \ {s} : K.link[t] = "server" <=> (K.path[t] = {t} /\ K.from[t] = t)
    <3> SUFFICES ASSUME NEW t \in Server \ {s}
                 PROVE  K.link[t] = "server" <=> (K.path[t] = {t} /\ K.from[t] = t)
      OBVIOUS
    <3>1. L.link[t] = "server" <=> (L.path[t] = {t} /\ L.from[t] = t)
      BY DEF TableInv, ChainsClosed, Chain
    <3>2. CASE t = x
      <4>1. K.link[x] # "server"
        BY <1>2
      <4>2. K.path[x] # {x}
        BY <1>2, <2>2
      <4> QED BY <3>2, <4>1, <4>2
    <3>3. CASE t # x
      <4>1. K.link[t] = L.link[t]
        BY <1>2, <3>3
      <4>2. t \in B => L.path[t] # {t}
        BY <2>2, <3>3
      <4> QED BY <1>2, <3>1, <4>1, <4>2
    <3> QED BY <3>2, <3>3
  <2>7. \A u \in Uid : /\ IsUnknown(K, u) => Home[u] = s
                       /\ IsClient(K, u) => Known(K, Home[u])
    BY <1>2 DEF TableInv, ChainsClosed, Chain, IsUnknown, IsClient, Known, NoUser
  <2> QED BY <2>3, <2>5, <2>6, <2>7 DEF ChainsClosed, Chain
<1>m. MasksKept(s, K)
  BY <1>2 DEF TableInv, MasksKept, Known
<1> QED BY <1>1, <1>3, <1>4, <1>m DEF TableInv

LEMMA CloseLinkInv ==
  ASSUME NEW s \in Server, NEW L, TableInv(s, L), NEW t \in Server, L.link[t] # "server"
  PROVE  TableInv(s, CloseLink(L, t))
<1> DEFINE K == CloseLink(L, t)
<1>1. K \in Tables
  BY DEF TableInv, Tables, CloseLink
<1>2. /\ K.user = L.user /\ K.path = L.path /\ K.from = L.from
      /\ \A y \in Server : K.link[y] = IF y = t THEN "none" ELSE L.link[y]
  BY DEF TableInv, Tables, CloseLink
<1>3. UniqueNames(K)
  BY <1>2 DEF TableInv, UniqueNames
<1>4. L.from \in [Server -> Server]
  BY DEF TableInv, Tables
<1>5. ChainsClosed(s, K)
  BY <1>2, <1>4 DEF TableInv, ChainsClosed, Chain, Known, IsUnknown, IsClient
<1>m. MasksKept(s, K)
  BY <1>2 DEF TableInv, MasksKept, Known
<1> QED BY <1>1, <1>3, <1>5, <1>m DEF TableInv

LEMMA OverrideInv ==
  ASSUME NEW s \in Server, NEW L, TableInv(s, L), NEW x \in Server
  PROVE  /\ TableInv(s, Override(L, x))
         /\ \A y \in Server : Known(Override(L, x), y) <=> Known(L, y)
         /\ Override(L, x).from = L.from
         /\ Override(L, x).user = L.user
         /\ \A y \in Server : L.link[y] = "server" => Override(L, x).link[y] = "server"
<1>1. CASE L.link[x] = "handshake"
  <2>1. TableInv(s, CloseLink(L, x))
    BY <1>1, CloseLinkInv
  <2> QED BY <1>1, <2>1 DEF Override, CloseLink, Known, TableInv, Tables
<1>2. CASE L.link[x] # "handshake"
  BY <1>2 DEF Override
<1> QED BY <1>1, <1>2

\* A server introduced by p, which is known through the link t.
LEMMA AddServerInv ==
  ASSUME NEW s \in Server, NEW L, TableInv(s, L),
         NEW p \in Server \ {s}, NEW x \in Server, NEW t \in Server,
         Known(L, p), ~Known(L, x), L.from[p] = t, x \in HubMask[t] \ LeafMask[t]
  PROVE  TableInv(s, AddServer(L, p, x, t))
<1> DEFINE K == AddServer(L, p, x, t)
<1>1. K \in Tables
  BY DEF TableInv, Tables, AddServer
<1>2. p # x /\ x # s
  BY DEF TableInv, ChainsClosed, Chain, Known
<1>3. /\ K.user = L.user /\ K.link = L.link
      /\ \A y \in Server : K.path[y] = IF y = x THEN L.path[p] \cup {x} ELSE L.path[y]
      /\ \A y \in Server : K.from[y] = IF y = x THEN t ELSE L.from[y]
  BY <1>2 DEF TableInv, Tables, AddServer
<1>4. UniqueNames(K)
  BY <1>3 DEF TableInv, UniqueNames
<1>5. /\ p \in L.path[p] /\ s \notin L.path[p] /\ L.path[p] \subseteq Server
      /\ t \in L.path[p] /\ L.link[t] = "server"
      /\ \A y \in L.path[p] : /\ Known(L, y) /\ L.path[y] \subseteq L.path[p]
                              /\ L.from[y] = t
  BY DEF TableInv, ChainsClosed, Chain, Tables
<1>6. x \notin L.path[p] /\ \A y \in Server \ {s} : x \notin L.path[y]
  BY DEF TableInv, ChainsClosed, Chain, Known
<1>7. \A y \in Server \ {s} : Known(K, y) => Chain(s, K, y)
  <2> SUFFICES ASSUME NEW y \in Server \ {s}, Known(K, y)
               PROVE  Chain(s, K, y)
    OBVIOUS
  <2>1. CASE y = x
    <3>1. K.path[y] = L.path[p] \cup {x} /\ K.from[y] = t
      BY <1>3, <2>1
    <3>2. K.path[p] = K.path[y] \ {y}
      BY <1>2, <1>3, <1>6, <2>1, <3>1
    <3>3. \A z \in L.path[p] : K.path[z] = L.path[z] /\ K.from[z] = t
      BY <1>3, <1>5, <1>6
    <3>4. \A z \in K.path[y] : /\ Known(K, z) /\ K.path[z] \subseteq K.path[y]
                               /\ K.from[z] = K.from[y]
      BY <2>1, <3>1, <3>3, <1>5 DEF Known
    <3>5. y \in K.path[y] /\ s \notin K.path[y] /\ K.from[y] \in K.path[y]
      BY <2>1, <3>1, <1>5, <1>2
    <3>6. K.link[K.from[y]] = "server"
      BY <3>1, <1>3, <1>5
    <3>7. \E z \in K.path[y] : K.path[z] = K.path[y] \ {y}
      BY <3>1, <3>2, <1>5
    <3> QED BY <3>4, <3>5, <3>6, <3>7 DEF Chain
  <2>2. CASE y # x
    <3>1. K.path[y] = L.path[y] /\ K.from[y] = L.from[y] /\ Known(L, y) /\ L.path[y] \subseteq Server
      BY <1>3, <2>2 DEF Known, TableInv, Tables
    <3>2. \A z \in L.path[y] : z # x /\ K.path[z] = L.path[z] /\ K.from[z] = L.from[z]
      BY <1>3, <1>6, <3>1
    <3>3. Chain(s, L, y)
      BY <3>1 DEF TableInv, ChainsClosed, Chain
    <3> QED BY <1>3, <3>1, <3>2, <3>3 DEF Known, Chain
  <2> QED BY <2>1, <2>2
<1>8. \A y \in Server \ {s} : K.link[y] = "server" <=> (K.path[y] = {y} /\ K.from[y] = y)
  <2>1. L.link[x] # "server"
    BY <1>2 DEF TableInv, ChainsClosed, Chain, Known
  <2>2. p \in K.path[x]
    BY <1>3, <1>5
  <2> QED BY <1>2, <1>3, <2>1, <2>2 DEF TableInv, ChainsClosed, Chain
<1>9. \A u \in Uid : /\ IsUnknown(K, u) => Home[u] = s
                     /\ IsClient(K, u) => Known(K, Home[u])
  BY <1>3, HomeAssumption DEF TableInv, ChainsClosed, Chain, Known, IsUnknown, IsClient
<1>10. K.path[s] = {s} /\ K.from[s] = s /\ K.link[s] = "none"
  BY <1>2, <1>3 DEF TableInv, ChainsClosed, Chain
<1>11. ChainsClosed(s, K)
  BY <1>7, <1>8, <1>9, <1>10 DEF ChainsClosed, Chain
<1>m. MasksKept(s, K)
  BY <1>2, <1>3 DEF TableInv, MasksKept, Known
<1> QED BY <1>1, <1>4, <1>11, <1>m DEF TableInv

\* The tables server_estab leaves.
Established(L, t) == [AddServer(L, t, t, t) EXCEPT !.link[t] = "server"]

LEMMA EstablishedInv ==
  ASSUME NEW s \in Server, NEW L, TableInv(s, L), NEW t \in Server, ~Known(L, t)
  PROVE  TableInv(s, Established(L, t))
<1> DEFINE K == Established(L, t)
<1>1. K \in Tables
  BY DEF TableInv, Tables, AddServer, Established
<1>2. t # s
  BY DEF TableInv, ChainsClosed, Chain, Known
<1>3. /\ K.user = L.user
      /\ \A y \in Server : K.path[y] = IF y = t THEN {t} ELSE L.path[y]
      /\ \A y \in Server : K.from[y] = IF y = t THEN t ELSE L.from[y]
      /\ \A y \in Server : K.link[y] = IF y = t THEN "server" ELSE L.link[y]
  BY DEF TableInv, Tables, AddServer, Established
<1>4. UniqueNames(K)
  BY <1>3 DEF TableInv, UniqueNames
<1>5. \A y \in Server \ {s} : t \notin L.path[y]
  BY DEF TableInv, ChainsClosed, Chain, Known
<1>6. \A y \in Server \ {s} : Known(K, y) => Chain(s, K, y)
  <2> SUFFICES ASSUME NEW y \in Server \ {s}, Known(K, y)
               PROVE  Chain(s, K, y)
    OBVIOUS
  <2>1. CASE y = t
    BY <1>2, <1>3, <2>1 DEF Known, Chain
  <2>2. CASE y # t
    <3>1. K.path[y] = L.path[y] /\ K.from[y] = L.from[y] /\ Known(L, y) /\ L.path[y] \subseteq Server
      BY <1>3, <2>2 DEF Known, TableInv, Tables
    <3>2. \A z \in L.path[y] : z # t /\ K.path[z] = L.path[z] /\ K.from[z] = L.from[z]
      BY <1>3, <1>5, <3>1
    <3>3. Chain(s, L, y)
      BY <3>1 DEF TableInv, ChainsClosed, Chain
    <3>4. L.from[y] \in Server
      BY <3>1, <3>3 DEF Chain
    <3> QED BY <1>3, <3>1, <3>2, <3>3, <3>4 DEF Known, Chain
  <2> QED BY <2>1, <2>2
<1>7. \A y \in Server \ {s} : K.link[y] = "server" <=> (K.path[y] = {y} /\ K.from[y] = y)
  BY <1>3 DEF TableInv, ChainsClosed, Chain
<1>8. \A u \in Uid : /\ IsUnknown(K, u) => Home[u] = s
                     /\ IsClient(K, u) => Known(K, Home[u])
  BY <1>3, HomeAssumption DEF TableInv, ChainsClosed, Chain, Known, IsUnknown, IsClient
<1>9. K.path[s] = {s} /\ K.from[s] = s /\ K.link[s] = "none"
  BY <1>2, <1>3 DEF TableInv, ChainsClosed, Chain
<1>10. ChainsClosed(s, K)
  BY <1>6, <1>7, <1>8, <1>9 DEF ChainsClosed, Chain
<1>m. MasksKept(s, K)
  BY <1>3 DEF TableInv, MasksKept, Known
<1> QED BY <1>1, <1>4, <1>10, <1>m DEF TableInv

\* One user record is set: registration, a nickname nobody else holds.
SetUser(L, u, r) == [L EXCEPT !.user[u] = r]

LEMMA SetUserInv ==
  ASSUME NEW s \in Server, NEW L, TableInv(s, L), NEW u \in Uid, NEW r \in User,
         r.reg \in {"nick", "user"} => Home[u] = s,
         r.reg = "client" => Known(L, Home[u]),
         r.nick # NoNick => Holders(L, r.nick) \subseteq {u}
  PROVE  TableInv(s, SetUser(L, u, r))
<1> DEFINE K == SetUser(L, u, r)
<1>1. K \in Tables
  BY DEF TableInv, Tables, SetUser
<1>2. /\ K.path = L.path /\ K.from = L.from /\ K.link = L.link
      /\ \A v \in Uid : K.user[v] = IF v = u THEN r ELSE L.user[v]
  BY DEF TableInv, Tables, SetUser
<1>3. UniqueNames(K)
  BY <1>2 DEF TableInv, UniqueNames, Holders
<1>4. ChainsClosed(s, K)
  BY <1>2 DEF TableInv, ChainsClosed, Chain, Known, IsUnknown, IsClient
<1>m. MasksKept(s, K)
  BY <1>2 DEF TableInv, MasksKept, Known
<1> QED BY <1>1, <1>3, <1>4, <1>m DEF TableInv

LEMMA DropUsersInv ==
  ASSUME NEW s \in Server, NEW L, TableInv(s, L), NEW V
  PROVE  TableInv(s, [L EXCEPT !.user = [v \in Uid |-> IF v \in V THEN NoUser ELSE @[v]]])
<1> DEFINE K == [L EXCEPT !.user = [v \in Uid |-> IF v \in V THEN NoUser ELSE @[v]]]
<1>1. K \in Tables
  BY DEF TableInv, Tables, NoUser, User
<1>2. /\ K.path = L.path /\ K.from = L.from /\ K.link = L.link
      /\ \A v \in Uid : K.user[v] = IF v \in V THEN NoUser ELSE L.user[v]
  BY DEF TableInv, Tables
<1>3. UniqueNames(K)
  BY <1>2 DEF TableInv, UniqueNames, NoUser
<1>4. ChainsClosed(s, K)
  BY <1>2 DEF TableInv, ChainsClosed, Chain, Known, IsUnknown, IsClient, NoUser
<1>m. MasksKept(s, K)
  BY <1>2 DEF TableInv, MasksKept, Known
<1> QED BY <1>1, <1>3, <1>4, <1>m DEF TableInv

\* A connection to t is being made: it is not a server yet.
LEMMA ConnectingInv ==
  ASSUME NEW s \in Server, NEW L, TableInv(s, L), NEW t \in Server \ {s},
         L.link[t] = "none", NEW k \in {"unknown", "handshake"}
  PROVE  TableInv(s, [L EXCEPT !.link[t] = k])
<1> DEFINE K == [L EXCEPT !.link[t] = k]
<1>1. K \in Tables
  BY DEF TableInv, Tables
<1>2. /\ K.user = L.user /\ K.path = L.path /\ K.from = L.from
      /\ \A y \in Server : K.link[y] = IF y = t THEN k ELSE L.link[y]
  BY DEF TableInv, Tables
<1>3. L.from \in [Server -> Server]
  BY DEF TableInv, Tables
<1>4. UniqueNames(K)
  BY <1>2 DEF TableInv, UniqueNames
<1>5. ChainsClosed(s, K)
  BY <1>2, <1>3 DEF TableInv, ChainsClosed, Chain, Known, IsUnknown, IsClient
<1>m. MasksKept(s, K)
  BY <1>2 DEF TableInv, MasksKept, Known
<1> QED BY <1>1, <1>4, <1>5, <1>m DEF TableInv

-----------------------------------------------------------------------------
(* Holders of a nickname. *)

\* A nickname has one holder: once that one is gone, it is free.
LEMMA HolderGone ==
  ASSUME NEW s \in Server, NEW L, TableInv(s, L), NEW n \in Nick, NEW v \in Holders(L, n)
  PROVE  v \in Uid /\ Holders(L, n) = {v} /\ Holders(DropUser(L, v), n) = {}
<1>1. v \in Uid /\ Holders(L, n) = {v}
  BY DEF TableInv, UniqueNames, Holders
<1>2. \A w \in Uid : DropUser(L, v).user[w] = IF w = v THEN NoUser ELSE L.user[w]
  BY DEF TableInv, Tables, DropUser
<1> QED BY <1>1, <1>2 DEF Holders, NoUser

\* A registered user takes a nickname that is free, or its own in other letters.
LEMMA SetNickInv ==
  ASSUME NEW s \in Server, NEW L, TableInv(s, L), NEW u \in Uid, IsClient(L, u),
         NEW n \in Nick, NEW ts \in Nat, Holders(L, n) \subseteq {u}
  PROVE  TableInv(s, SetNick(L, u, n, ts))
<1> DEFINE r == [reg |-> "client", nick |-> n, ts |-> ts]
<1>1. SetNick(L, u, n, ts) = SetUser(L, u, r)
  BY DEF SetNick, SetUser, IsClient, TableInv, Tables
<1>2. r \in User /\ Known(L, Home[u])
  BY DEF User, TableInv, ChainsClosed, Chain
<1> QED BY <1>1, <1>2, SetUserInv

LEMMA AddUserInv ==
  ASSUME NEW s \in Server, NEW L, TableInv(s, L), NEW u \in Uid, Known(L, Home[u]),
         NEW n \in Nick, NEW ts \in Nat, Holders(L, n) \subseteq {u}
  PROVE  TableInv(s, AddUser(L, u, n, ts))
<1> DEFINE r == [reg |-> "client", nick |-> n, ts |-> ts]
<1>1. AddUser(L, u, n, ts) = SetUser(L, u, r)
  BY DEF AddUser, SetUser
<1>2. r \in User
  BY DEF User
<1> QED BY <1>1, <1>2, SetUserInv

LEMMA NewTsNat ==
  ASSUME NEW old \in User, NEW n, NEW ts \in Nat
  PROVE  NewTs(old, n, ts) \in Nat
BY DEF NewTs, User

-----------------------------------------------------------------------------
(* Steps. *)

LEMMA InvTables ==
  ASSUME Inv, NEW s \in Server
  PROVE  TableInv(s, srv[s])
BY DEF Inv, TypeOK, NickUnique, Routes, Masked, TableInv

LEMMA StepInv ==
  ASSUME Inv, NEW s \in Server, NEW read \in SUBSET Server,
         \A q \in read : chan[q][s] # <<>>,
         NEW L, TableInv(s, L), NEW out \in Sends, Step(s, read, L, out), born' \subseteq Uid
  PROVE  Inv'
<1>1. srv' \in [Server -> Tables] /\ \A q \in Server : srv'[q] = IF q = s THEN L ELSE srv[q]
  BY DEF Step, Inv, TypeOK, TableInv
<1>2. chan' \in [Server -> [Server -> Seq(Message)]]
  <2>1. \A q, b \in Server : chan[q][b] \in Seq(Message) /\ out[b] \in Seq(Message)
    BY DEF Inv, TypeOK, Sends
  <2>2. \A q \in read : Tail(chan[q][s]) \in Seq(Message)
    BY <2>1
  <2>3. \A q, b \in Server : chan[q][b] \o out[b] \in Seq(Message)
    BY <2>1
  <2> QED BY <2>1, <2>2, <2>3 DEF Step
<1>3. TypeOK'
  BY <1>1, <1>2 DEF TypeOK
<1>4. \A q \in Server : UniqueNames(srv'[q]) /\ ChainsClosed(q, srv'[q]) /\ MasksKept(q, srv'[q])
  BY <1>1 DEF Inv, NickUnique, Routes, Masked, TableInv
<1>5. NickUnique'
  BY <1>4 DEF NickUnique
<1>6. Routes'
  BY <1>4 DEF Routes
<1>7. Masked'
  BY <1>4 DEF Masked
<1> QED BY <1>3, <1>5, <1>6, <1>7 DEF Inv

LEMMA HeadFacts ==
  ASSUME Inv, NEW s \in Server, NEW t \in Server, NEW m \in Head1(s, t)
  PROVE  m \in Message /\ chan[t][s] # <<>>
<1>1. chan[t][s] \in Seq(Message)
  BY DEF Inv, TypeOK
<1> QED BY <1>1 DEF Head1

LEMMA ReceivedFacts ==
  ASSUME Inv, NEW s \in Server, NEW t \in Server, NEW type, NEW m \in Received(s, t, type)
  PROVE  /\ m \in Message /\ m.type = type /\ chan[t][s] # <<>>
         /\ t # s /\ srv[s].link[t] = "server" /\ Known(srv[s], t)
         /\ Found(srv[s], m.src) /\ Direction(srv[s], m.src) = t
         /\ m.src # s
<1>1. /\ m \in Head1(s, t) /\ m.type = type /\ srv[s].link[t] = "server"
      /\ Found(srv[s], m.src) /\ Direction(srv[s], m.src) = t
  BY DEF Received
<1> DEFINE L == srv[s]
<1>a. TableInv(s, L)
  BY InvTables
<1> HIDE DEF L
<1>b. L.link[t] = "server" => t # s /\ Known(L, t)
  BY <1>a DEF TableInv, ChainsClosed, Chain, Known
<1>2. t # s /\ Known(srv[s], t)
  BY <1>1, <1>b DEF L
<1>c. Direction(L, s) = s
  BY <1>a DEF TableInv, ChainsClosed, Chain, Direction
<1>3. m.src # s
  BY <1>1, <1>2, <1>c DEF L
<1> QED BY <1>1, <1>2, <1>3, HeadFacts

LEMMA SourceOfSends ==
  /\ \A s \in Server : s \in Source
  /\ \A u \in Uid : u \in Source
BY DEF Source

LEMMA ExitServerSends ==
  ASSUME NEW s \in Server, NEW x \in Server, NEW L
  PROVE  exit_server(L, s, x) \in Sends
<1>1. SQUIT(s, s) \in Message /\ SQUIT(s, x) \in Message
  BY MessageTypes, SourceOfSends
<1> QED BY <1>1, SendTypes DEF exit_server

\* A step that reads nothing, or the first message from t.
LEMMA LocalStep ==
  ASSUME Inv, NEW s \in Server, NEW L, TableInv(s, L), NEW out \in Sends,
         Step(s, {}, L, out), born' \subseteq Uid
  PROVE  Inv'
BY StepInv

LEMMA ReadStep ==
  ASSUME Inv, NEW s \in Server, NEW t \in Server, chan[t][s] # <<>>,
         NEW L, TableInv(s, L), NEW out \in Sends, Step(s, {t}, L, out), UNCHANGED born
  PROVE  Inv'
<1>1. born' \subseteq Uid
  BY DEF Inv, TypeOK
<1> QED BY <1>1, StepInv

-----------------------------------------------------------------------------
(* Local clients. *)

LEMMA IntroduceSends ==
  ASSUME NEW s \in Server, NEW L, TableInv(s, L), NEW u \in Uid, IsClient(L, u)
  PROVE  introduce_client(s, L, u) \in Sends
<1>1. L.user[u].nick \in Nick /\ L.user[u].ts \in Nat
  BY DEF TableInv, Tables, User, IsClient
<1> QED BY <1>1, MessageTypes, SendTypes DEF introduce_client

LEMMA mr_nickInv ==
  ASSUME Inv, NEW s \in Server, NEW u \in Uid, NEW n \in Nick, NEW now \in Clock[s],
         mr_nick(s, u, n, now)
  PROVE  Inv'
<1> DEFINE old == srv[s].user[u]
           r   == [reg  |-> IF old.reg = "user" THEN "client" ELSE "nick",
                   nick |-> n, ts |-> NewTs(old, n, now)]
           L   == SetUser(srv[s], u, r)
           out == IF old.reg = "user" THEN introduce_client(s, L, u) ELSE Nothing
<1>1. TableInv(s, srv[s])
  BY InvTables
<1>2. Home[u] = s /\ Holders(srv[s], n) \subseteq {u} /\ born' = born \cup {u}
      /\ Step(s, {}, L, out)
  BY DEF mr_nick, SetUser
<1>3. now \in Nat
  BY ClockAssumption
<1>4. r \in User
  BY <1>1, <1>3, NewTsNat DEF TableInv, Tables, User
<1>5. Known(srv[s], s)
  BY <1>1 DEF TableInv, ChainsClosed, Chain, Known
<1>6. TableInv(s, L)
  BY <1>1, <1>2, <1>4, <1>5, SetUserInv
<1>7. old.reg = "user" => IsClient(L, u)
  BY <1>1 DEF TableInv, Tables, SetUser, IsClient
<1>8. out \in Sends
  BY <1>6, <1>7, IntroduceSends, SendTypes
<1>9. born' \subseteq Uid
  BY <1>2 DEF Inv, TypeOK
<1> QED BY <1>2, <1>6, <1>8, <1>9, LocalStep

LEMMA mr_userInv ==
  ASSUME Inv, NEW s \in Server, NEW u \in Uid, mr_user(s, u)
  PROVE  Inv'
<1> DEFINE old == srv[s].user[u]
           k   == IF old.reg = "nick" THEN "client" ELSE "user"
           r   == [reg |-> k, nick |-> old.nick, ts |-> old.ts]
           L   == [srv[s] EXCEPT !.user[u].reg = k]
           out == IF old.reg = "nick" THEN introduce_client(s, L, u) ELSE Nothing
<1>1. TableInv(s, srv[s])
  BY InvTables
<1>2. Home[u] = s /\ old.reg \in {"none", "nick"} /\ born' = born \cup {u}
      /\ Step(s, {}, L, out)
  BY DEF mr_user
<1>3. old \in User /\ old = [reg |-> old.reg, nick |-> old.nick, ts |-> old.ts]
  BY <1>1 DEF TableInv, Tables, User
<1>4. [old EXCEPT !.reg = k] = r
  BY <1>3
<1>5. L = SetUser(srv[s], u, r)
  BY <1>1, <1>4 DEF TableInv, Tables, SetUser
<1>6. r \in User
  BY <1>2, <1>3 DEF User
<1>7. Known(srv[s], s)
  BY <1>1 DEF TableInv, ChainsClosed, Chain, Known
<1>8. r.nick # NoNick => Holders(srv[s], r.nick) \subseteq {u}
  BY <1>1 DEF TableInv, UniqueNames, Holders
<1>9. TableInv(s, L)
  BY <1>1, <1>2, <1>5, <1>6, <1>7, <1>8, SetUserInv
<1>10. old.reg = "nick" => IsClient(L, u)
  BY <1>1 DEF TableInv, Tables, IsClient
<1>11. out \in Sends
  BY <1>9, <1>10, IntroduceSends, SendTypes
<1>12. born' \subseteq Uid
  BY <1>2 DEF Inv, TypeOK
<1> QED BY <1>2, <1>9, <1>11, <1>12, LocalStep

LEMMA m_nickInv ==
  ASSUME Inv, NEW s \in Server, NEW u \in Uid, NEW n \in Nick, NEW now \in Clock[s],
         m_nick(s, u, n, now)
  PROVE  Inv'
<1> DEFINE V   == Holders(srv[s], n) \ {u}
           ts  == NewTs(srv[s].user[u], n, now)
           L0  == [srv[s] EXCEPT !.user = [v \in Uid |-> IF v \in V THEN NoUser ELSE @[v]]]
           L   == SetNick(L0, u, n, ts)
           out == To(Links(L0), NICK(u, n, ts))
<1>1. TableInv(s, srv[s])
  BY InvTables
<1>2. IsClient(srv[s], u) /\ Step(s, {}, L, out) /\ UNCHANGED born
  BY DEF m_nick
<1>3. TableInv(s, L0)
  BY <1>1, DropUsersInv
<1>4. \A v \in Uid : L0.user[v] = IF v \in V THEN NoUser ELSE srv[s].user[v]
  BY <1>1 DEF TableInv, Tables
<1>5. IsClient(L0, u) /\ Holders(L0, n) \subseteq {u}
  <2>1. u \notin V /\ \A v \in Holders(srv[s], n) : v = u \/ v \in V
    OBVIOUS
  <2> HIDE DEF L0, V
  <2>2. L0.user[u] = srv[s].user[u]
    BY <1>4, <2>1
  <2>3. \A v \in Holders(L0, n) : v \in Holders(srv[s], n) /\ v \notin V
    BY <1>4 DEF Holders, NoUser
  <2> QED BY <1>2, <2>1, <2>2, <2>3 DEF IsClient
<1>6. ts \in Nat
  BY <1>1, ClockAssumption, NewTsNat DEF TableInv, Tables
<1>7. TableInv(s, L)
  BY <1>3, <1>5, <1>6, SetNickInv
<1>8. out \in Sends
  BY <1>6, MessageTypes, SendTypes
<1>9. born' \subseteq Uid
  BY <1>2 DEF Inv, TypeOK
<1> QED BY <1>2, <1>7, <1>8, <1>9, LocalStep

LEMMA exit_localInv ==
  ASSUME Inv, NEW s \in Server, NEW u \in Uid, exit_local(s, u)
  PROVE  Inv'
<1> DEFINE out == IF IsClient(srv[s], u) THEN To(Links(srv[s]), QUIT(u)) ELSE Nothing
<1>1. TableInv(s, DropUser(srv[s], u))
  BY InvTables, DropUserInv
<1>2. out \in Sends
  BY MessageTypes, SendTypes
<1>3. Step(s, {}, DropUser(srv[s], u), out) /\ born' \subseteq Uid
  BY DEF exit_local, Inv, TypeOK
<1> QED BY <1>1, <1>2, <1>3, LocalStep

LEMMA mo_killInv ==
  ASSUME Inv, NEW s \in Server, NEW o \in Uid, NEW v \in Uid, mo_kill(s, o, v)
  PROVE  Inv'
<1> DEFINE out == To(Links(srv[s]), KILL(o, v))
<1>1. TableInv(s, DropUser(srv[s], v))
  BY InvTables, DropUserInv
<1>2. out \in Sends
  BY MessageTypes, SourceOfSends, SendTypes
<1>3. Step(s, {}, DropUser(srv[s], v), out) /\ born' \subseteq Uid
  BY DEF mo_kill, Inv, TypeOK
<1> QED BY <1>1, <1>2, <1>3, LocalStep
-----------------------------------------------------------------------------
(* Messages about users. *)

LEMMA VerdictCases ==
  ASSUME NEW old, NEW newts, NEW same
  PROVE  Verdict(old, newts, same) \in {"both", "new", "old"}
BY DEF Verdict

LEMMA KillSends ==
  ASSUME NEW s \in Server, NEW L
  PROVE  \A v \in Uid : To(Links(L), KILL(s, v)) \in Sends
BY MessageTypes, SourceOfSends, SendTypes

LEMMA ChangeRemoteNickInv ==
  ASSUME NEW s \in Server, NEW t \in Server, NEW m \in Message, m.type = "NICK",
         NEW L, TableInv(s, L), IsClient(L, m.src), Holders(L, m.nick) \subseteq {m.src}
  PROVE  /\ TableInv(s, change_remote_nick(L, t, m).L)
         /\ change_remote_nick(L, t, m).out \in Sends
<1> DEFINE ts == NewTs(L.user[m.src], m.nick, m.ts)
<1>1. m.src \in Uid /\ m.nick \in Nick /\ m.ts \in Nat
  BY MessageFields
<1>2. ts \in Nat
  BY <1>1, NewTsNat DEF TableInv, Tables
<1>3. TableInv(s, SetNick(L, m.src, m.nick, ts))
  BY <1>1, <1>2, SetNickInv
<1>4. To(Links(L) \ {t}, NICK(m.src, m.nick, ts)) \in Sends
  BY <1>1, <1>2, MessageTypes, SendTypes
<1> QED BY <1>3, <1>4 DEF change_remote_nick

LEMMA UidFromServerInv ==
  ASSUME NEW s \in Server, NEW t \in Server, NEW m \in Message, m.type = "UID",
         NEW L, TableInv(s, L), Known(L, Home[m.uid]), Holders(L, m.nick) \subseteq {m.uid}
  PROVE  /\ TableInv(s, uid_from_server(L, t, m).L)
         /\ uid_from_server(L, t, m).out \in Sends
<1>1. m.src \in Server /\ m.uid \in Uid /\ m.nick \in Nick /\ m.ts \in Nat
  BY MessageFields
<1>2. TableInv(s, AddUser(L, m.uid, m.nick, m.ts))
  BY <1>1, AddUserInv
<1>3. To(Links(L) \ {t}, UID(m.src, m.uid, m.nick, m.ts)) \in Sends
  BY <1>1, MessageTypes, SendTypes
<1> QED BY <1>2, <1>3 DEF uid_from_server

\* The user who changes is still there when another holder of the name has gone.
LEMMA ClientStays ==
  ASSUME NEW s \in Server, NEW L, TableInv(s, L), NEW u \in Uid, NEW v \in Uid \ {u}
  PROVE  /\ IsClient(DropUser(L, v), u) <=> IsClient(L, u)
         /\ \A x \in Server : Known(DropUser(L, v), x) <=> Known(L, x)
BY DEF TableInv, Tables, DropUser, IsClient, Known

LEMMA ms_nickInv ==
  ASSUME Inv, NEW s \in Server, NEW t \in Server, ms_nick(s, t)
  PROVE  Inv'
<1> DEFINE L == srv[s]
           Kill(v) == To(Links(L), KILL(s, v))
<1>1. PICK m \in Received(s, t, "NICK") :
        /\ UNCHANGED born
        /\ \/ /\ Holders(L, m.nick) = {}
              /\ Step(s, {t}, change_remote_nick(L, t, m).L, Nothing ++ change_remote_nick(L, t, m).out)
           \/ \E v \in Holders(L, m.nick) :
                \/ /\ IsUnknown(L, v)
                   /\ Step(s, {t}, change_remote_nick(DropUser(L, v), t, m).L,
                           Nothing ++ change_remote_nick(DropUser(L, v), t, m).out)
                \/ /\ v = m.src
                   /\ Step(s, {t}, change_remote_nick(L, t, m).L, Nothing ++ change_remote_nick(L, t, m).out)
                \/ Step(s, {t}, L, Nothing)
                \/ Step(s, {t}, DropUser(DropUser(L, m.src), v), Kill(m.src) ++ Kill(v))
                \/ Step(s, {t}, DropUser(L, m.src), Kill(m.src))
                \/ /\ v # m.src
                   /\ Step(s, {t}, change_remote_nick(DropUser(L, v), t, m).L,
                           Kill(v) ++ change_remote_nick(DropUser(L, v), t, m).out)
  BY DEF ms_nick
<1>2. /\ m \in Message /\ m.type = "NICK" /\ chan[t][s] # <<>> /\ Found(L, m.src)
      /\ m.src \in Uid /\ m.nick \in Nick
  BY ReceivedFacts, MessageFields
<1>3. TableInv(s, L) /\ IsClient(L, m.src)
  BY <1>2, InvTables, IdAssumption DEF Found
<1>4. \A v \in Uid : Kill(v) \in Sends
  BY KillSends
<1> HIDE DEF L, Kill
<1>5. CASE Holders(L, m.nick) = {} /\ Step(s, {t}, change_remote_nick(L, t, m).L, Nothing ++ change_remote_nick(L, t, m).out)
  BY <1>1, <1>2, <1>3, <1>5, ChangeRemoteNickInv, SendTypes, ReadStep
<1>6. ASSUME NEW v \in Holders(L, m.nick) PROVE
        /\ v \in Uid /\ Holders(L, m.nick) = {v} /\ Holders(DropUser(L, v), m.nick) = {}
        /\ TableInv(s, DropUser(L, v)) /\ TableInv(s, DropUser(L, m.src))
        /\ TableInv(s, DropUser(DropUser(L, m.src), v))
        /\ v # m.src => IsClient(DropUser(L, v), m.src)
        /\ IsUnknown(L, v) => v # m.src
  <2>1. v \in Uid /\ Holders(L, m.nick) = {v} /\ Holders(DropUser(L, v), m.nick) = {}
    BY <1>2, <1>3, HolderGone
  <2>2. TableInv(s, DropUser(L, v)) /\ TableInv(s, DropUser(L, m.src))
    BY <1>2, <1>3, <2>1, DropUserInv
  <2>3. TableInv(s, DropUser(DropUser(L, m.src), v))
    BY <2>1, <2>2, DropUserInv
  <2>4. v # m.src => IsClient(DropUser(L, v), m.src)
    BY <1>2, <1>3, <2>1, ClientStays
  <2>5. IsUnknown(L, v) => v # m.src
    BY <1>3 DEF IsUnknown, IsClient
  <2> QED BY <2>1, <2>2, <2>3, <2>4, <2>5
<1>7. ASSUME NEW v \in Holders(L, m.nick), v # m.src, NEW out \in Sends,
             Step(s, {t}, change_remote_nick(DropUser(L, v), t, m).L,
                  out ++ change_remote_nick(DropUser(L, v), t, m).out)
      PROVE  Inv'
  <2>1. /\ TableInv(s, change_remote_nick(DropUser(L, v), t, m).L)
        /\ change_remote_nick(DropUser(L, v), t, m).out \in Sends
    BY <1>2, <1>6, <1>7, ChangeRemoteNickInv
  <2> QED BY <1>1, <1>2, <1>7, <2>1, SendTypes, ReadStep
<1>8. ASSUME NEW v \in Holders(L, m.nick), v = m.src,
             Step(s, {t}, change_remote_nick(L, t, m).L, Nothing ++ change_remote_nick(L, t, m).out)
      PROVE  Inv'
  <2>1. /\ TableInv(s, change_remote_nick(L, t, m).L)
        /\ change_remote_nick(L, t, m).out \in Sends
    BY <1>2, <1>3, <1>6, <1>8, ChangeRemoteNickInv
  <2> QED BY <1>1, <1>2, <1>8, <2>1, SendTypes, ReadStep
<1>9. CASE Step(s, {t}, L, Nothing)
  BY <1>1, <1>2, <1>3, <1>9, SendTypes, ReadStep
<1>10. ASSUME NEW v \in Holders(L, m.nick),
              Step(s, {t}, DropUser(DropUser(L, m.src), v), Kill(m.src) ++ Kill(v))
       PROVE  Inv'
  <2>1. Kill(m.src) ++ Kill(v) \in Sends
    BY <1>2, <1>4, <1>6, SendTypes
  <2> QED BY <1>1, <1>2, <1>6, <1>10, <2>1, ReadStep
<1>11. ASSUME NEW v \in Holders(L, m.nick), Step(s, {t}, DropUser(L, m.src), Kill(m.src))
       PROVE  Inv'
  BY <1>1, <1>2, <1>4, <1>6, <1>11, ReadStep
<1> QED BY <1>1, <1>4, <1>5, <1>6, <1>7, <1>8, <1>9, <1>10, <1>11, SendTypes

LEMMA ms_uidInv ==
  ASSUME Inv, NEW s \in Server, NEW t \in Server, ms_uid(s, t)
  PROVE  Inv'
<1> DEFINE L == srv[s]
           Kill(v) == To(Links(L), KILL(s, v))
           Refuse(u) == To({t}, KILL(s, u))
           Add(L0, out, m) == Step(s, {t}, uid_from_server(L0, t, m).L, out ++ uid_from_server(L0, t, m).out)
<1>1. PICK m \in Received(s, t, "UID") :
        /\ UNCHANGED born
        /\ m.src = Home[m.uid]
        /\ \/ Step(s, {t}, DropUser(L, m.uid), Kill(m.uid))
           \/ Holders(L, m.nick) = {} /\ Add(L, Nothing, m)
           \/ \E v \in Holders(L, m.nick) :
                \/ Add(DropUser(L, v), Nothing, m)
                \/ Step(s, {t}, DropUser(L, v), Refuse(m.uid) ++ Kill(v))
                \/ Step(s, {t}, L, Refuse(m.uid))
                \/ Add(DropUser(L, v), Kill(v), m)
  BY DEF ms_uid
<1>2. /\ m \in Message /\ m.type = "UID" /\ chan[t][s] # <<>> /\ Found(L, m.src)
      /\ m.src \in Server /\ m.uid \in Uid /\ m.nick \in Nick
  BY ReceivedFacts, MessageFields
<1>3. TableInv(s, L) /\ Known(L, Home[m.uid])
  BY <1>1, <1>2, InvTables DEF Found
<1>4. \A v \in Uid : Kill(v) \in Sends
  BY KillSends
<1>5. Refuse(m.uid) \in Sends
  BY <1>2, MessageTypes, SourceOfSends, SendTypes
<1> HIDE DEF L, Kill, Refuse
<1>6. ASSUME NEW v \in Holders(L, m.nick) PROVE
        /\ v \in Uid /\ Holders(DropUser(L, v), m.nick) = {} /\ TableInv(s, DropUser(L, v))
        /\ Known(DropUser(L, v), Home[m.uid])
  <2>1. v \in Uid /\ Holders(DropUser(L, v), m.nick) = {}
    BY <1>2, <1>3, HolderGone
  <2>2. TableInv(s, DropUser(L, v))
    BY <1>3, <2>1, DropUserInv
  <2>3. Known(DropUser(L, v), Home[m.uid])
    BY <1>3, <2>1 DEF TableInv, Tables, DropUser, Known
  <2> QED BY <2>1, <2>2, <2>3
<1>7. ASSUME NEW L0, TableInv(s, L0), Holders(L0, m.nick) = {}, Known(L0, Home[m.uid]),
             NEW out \in Sends, Add(L0, out, m)
      PROVE  Inv'
  <2>1. /\ TableInv(s, uid_from_server(L0, t, m).L)
        /\ uid_from_server(L0, t, m).out \in Sends
    BY <1>2, <1>7, UidFromServerInv
  <2> QED BY <1>1, <1>2, <1>7, <2>1, SendTypes, ReadStep
<1> HIDE DEF Add
<1>8. CASE Step(s, {t}, DropUser(L, m.uid), Kill(m.uid))
  BY <1>1, <1>2, <1>3, <1>4, <1>8, DropUserInv, ReadStep
<1>9. CASE Holders(L, m.nick) = {} /\ Add(L, Nothing, m)
  BY <1>3, <1>7, <1>9, SendTypes
<1>10. ASSUME NEW v \in Holders(L, m.nick), NEW out \in Sends, Add(DropUser(L, v), out, m)
       PROVE  Inv'
  BY <1>6, <1>7, <1>10
<1>11. ASSUME NEW v \in Holders(L, m.nick), Step(s, {t}, DropUser(L, v), Refuse(m.uid) ++ Kill(v))
       PROVE  Inv'
  <2>1. Refuse(m.uid) ++ Kill(v) \in Sends
    BY <1>4, <1>5, <1>6, SendTypes
  <2> QED BY <1>1, <1>2, <1>6, <1>11, <2>1, ReadStep
<1>12. CASE Step(s, {t}, L, Refuse(m.uid))
  BY <1>1, <1>2, <1>3, <1>5, <1>12, ReadStep
<1> QED BY <1>1, <1>4, <1>6, <1>8, <1>9, <1>10, <1>11, <1>12, SendTypes

LEMMA ms_killInv ==
  ASSUME Inv, NEW s \in Server, NEW t \in Server, ms_kill(s, t)
  PROVE  Inv'
<1> DEFINE out(m) == To(Links(srv[s]) \ {t}, KILL(m.src, m.uid))
<1>1. PICK m \in Received(s, t, "KILL") :
        /\ UNCHANGED born
        /\ \/ Step(s, {t}, DropUser(srv[s], m.uid), out(m))
           \/ Step(s, {t}, srv[s], Nothing)
  BY DEF ms_kill
<1>2. m \in Message /\ chan[t][s] # <<>> /\ m.src \in Source /\ m.uid \in Uid
  BY ReceivedFacts, MessageFields
<1>3. TableInv(s, srv[s]) /\ TableInv(s, DropUser(srv[s], m.uid))
  BY <1>2, InvTables, DropUserInv
<1>4. out(m) \in Sends
  BY <1>2, MessageTypes, SendTypes
<1> QED BY <1>1, <1>2, <1>3, <1>4, SendTypes, ReadStep

LEMMA ms_quitInv ==
  ASSUME Inv, NEW s \in Server, NEW t \in Server, ms_quit(s, t)
  PROVE  Inv'
<1> DEFINE out(m) == To(Links(srv[s]) \ {t}, QUIT(m.src))
<1>1. PICK m \in Received(s, t, "QUIT") :
        UNCHANGED born /\ Step(s, {t}, DropUser(srv[s], m.src), out(m))
  BY DEF ms_quit
<1>2. m \in Message /\ chan[t][s] # <<>> /\ m.src \in Uid
  BY ReceivedFacts, MessageFields
<1>3. TableInv(s, DropUser(srv[s], m.src))
  BY <1>2, InvTables, DropUserInv
<1>4. out(m) \in Sends
  BY <1>2, MessageTypes, SendTypes
<1> QED BY <1>1, <1>2, <1>3, <1>4, ReadStep

-----------------------------------------------------------------------------
(* Servers. *)

LEMMA server_connectInv ==
  ASSUME Inv, NEW p \in Server, NEW q \in Server, server_connect(p, q)
  PROVE  Inv'
<1> DEFINE K(x, y, k) == [srv[x] EXCEPT !.link[y] = k]
<1>1. /\ p # q /\ srv[p].link[q] = "none" /\ srv[q].link[p] = "none" /\ born' = born
      /\ srv'  = [srv EXCEPT ![p].link[q] = "handshake", ![q].link[p] = "unknown"]
      /\ chan' = [chan EXCEPT ![p][q] = <<SERVER(p)>>]
  BY DEF server_connect
<1>2. TableInv(p, K(p, q, "handshake")) /\ TableInv(q, K(q, p, "unknown"))
  BY <1>1, InvTables, ConnectingInv
<1>3. \A x \in Server : TableInv(x, srv[x])
  BY InvTables
<1>4. srv' = [x \in Server |-> CASE x = p -> K(p, q, "handshake")
                                 [] x = q -> K(q, p, "unknown") [] OTHER -> srv[x]]
  BY <1>1 DEF Inv, TypeOK
<1> HIDE DEF K
<1>5. \A x \in Server : TableInv(x, srv'[x])
  BY <1>2, <1>3, <1>4
<1>6. srv' \in [Server -> Tables]
  BY <1>2, <1>3, <1>4 DEF TableInv
<1>7. SERVER(p) \in Message
  BY MessageTypes
<1>8. chan' \in [Server -> [Server -> Seq(Message)]]
  BY <1>1, <1>7 DEF Inv, TypeOK
<1>9. TypeOK'
  BY <1>1, <1>6, <1>8 DEF Inv, TypeOK
<1> QED BY <1>5, <1>9 DEF Inv, NickUnique, Routes, Masked, TableInv

\* What orders a finite set lists it by position.
LEMMA SeqOfSet ==
  ASSUME NEW S, IsFiniteSet(S), NEW q \in SetToSeqs(S)
  PROVE  \E n \in Nat : q \in [1 .. n -> S]
BY FS_CardinalityType DEF SetToSeqs

LEMMA servptrServer ==
  ASSUME NEW s \in Server, NEW L, TableInv(s, L), NEW x \in Server \ {s}, Known(L, x)
  PROVE  servptr(L, s, x) \in Server
<1>1. L.path[x] = {x} \/ \E y \in Server : L.path[y] = L.path[x] \ {x}
  BY DEF TableInv, ChainsClosed, Chain, Tables
<1> QED BY <1>1 DEF servptr

LEMMA BurstSends ==
  ASSUME NEW s \in Server, NEW L, TableInv(s, L),
         NEW q \in ServerOrders(L, {y \in Server \ {s} : Known(L, y)}),
         NEW r \in SetToSeqs({u \in Uid : IsClient(L, u)})
  PROVE  Burst(s, L, q, r) \in Seq(Message)
<1> DEFINE S == {y \in Server \ {s} : Known(L, y)}
           U == {u \in Uid : IsClient(L, u)}
<1>1. IsFiniteSet(S) /\ IsFiniteSet(U)
  BY ServerAssumption, FS_Subset
<1>2. q \in SetToSeqs(S)
  BY DEF ServerOrders
<1>3. PICK k \in Nat : q \in [1 .. k -> S]
  BY <1>1, <1>2, SeqOfSet
<1>4. PICK n \in Nat : r \in [1 .. n -> U]
  BY <1>1, SeqOfSet
<1>5. \A i \in 1 .. k : SID(servptr(L, s, q[i]), q[i]) \in Message
  BY <1>3, servptrServer, MessageTypes
<1>6. \A i \in 1 .. n : UID(Home[r[i]], r[i], L.user[r[i]].nick, L.user[r[i]].ts) \in Message
  <2> SUFFICES ASSUME NEW i \in 1 .. n
               PROVE  UID(Home[r[i]], r[i], L.user[r[i]].nick, L.user[r[i]].ts) \in Message
    OBVIOUS
  <2>1. r[i] \in Uid /\ IsClient(L, r[i])
    BY <1>4
  <2>2. L.user[r[i]].nick \in Nick /\ L.user[r[i]].ts \in Nat /\ Home[r[i]] \in Server
    BY <2>1, HomeAssumption DEF TableInv, Tables, User, IsClient
  <2> QED BY <2>1, <2>2, MessageTypes
<1>7. [i \in DOMAIN q |-> SID(servptr(L, s, q[i]), q[i])] \in Seq(Message)
  <2>1. [i \in 1 .. k |-> SID(servptr(L, s, q[i]), q[i])] \in Seq(Message)
    BY <1>5
  <2> QED BY <1>3, <2>1
<1>8. [i \in DOMAIN r |-> UID(Home[r[i]], r[i], L.user[r[i]].nick, L.user[r[i]].ts)] \in Seq(Message)
  <2>1. [i \in 1 .. n |-> UID(Home[r[i]], r[i], L.user[r[i]].nick, L.user[r[i]].ts)] \in Seq(Message)
    BY <1>6
  <2> QED BY <1>4, <2>1
<1> QED BY <1>7, <1>8 DEF Burst

LEMMA mr_serverInv ==
  ASSUME Inv, NEW s \in Server, NEW t \in Server, mr_server(s, t)
  PROVE  Inv'
<1> DEFINE L == srv[s]
<1>1. /\ chan[t][s] # <<>> /\ UNCHANGED born /\ L.link[t] \in {"unknown", "handshake"}
      /\ \/ Step(s, {}, CloseLink(L, t), Nothing)
         \/ ~Known(L, t) /\ server_estab(s, t)
  BY DEF mr_server, Head1
<1>2. TableInv(s, L)
  BY InvTables
<1>3. CASE Step(s, {}, CloseLink(L, t), Nothing)
  <2>1. TableInv(s, CloseLink(L, t))
    BY <1>1, <1>2, CloseLinkInv
  <2>2. born' \subseteq Uid
    BY <1>1 DEF Inv, TypeOK
  <2> QED BY <1>3, <2>1, <2>2, SendTypes, LocalStep
<1>4. CASE ~Known(L, t) /\ server_estab(s, t)
  <2> DEFINE Hello == IF L.link[t] = "unknown" THEN <<SERVER(s)>> ELSE <<>>
             out(q, r) == [b \in Server |-> IF b = t THEN Hello \o Burst(s, L, q, r)
                                            ELSE IF b \in Links(L) THEN <<SID(s, t)>> ELSE <<>>]
  <2>1. PICK q \in ServerOrders(L, {y \in Server \ {s} : Known(L, y)}),
             r \in SetToSeqs({u \in Uid : IsClient(L, u)}) :
          Step(s, {t}, Established(L, t), out(q, r))
    BY <1>4 DEF server_estab, Established
  <2>2. Burst(s, L, q, r) \in Seq(Message)
    BY <1>2, BurstSends
  <2>3. Hello \in Seq(Message) /\ SID(s, t) \in Message
    BY MessageTypes
  <2>4. Hello \o Burst(s, L, q, r) \in Seq(Message)
    BY <2>2, <2>3
  <2>5. out(q, r) \in Sends
    BY <2>3, <2>4 DEF Sends
  <2>6. TableInv(s, Established(L, t))
    BY <1>2, <1>4, EstablishedInv
  <2> QED BY <1>1, <2>1, <2>5, <2>6, ReadStep
<1> QED BY <1>1, <1>3, <1>4

LEMMA ms_sidInv ==
  ASSUME Inv, NEW s \in Server, NEW t \in Server, ms_sid(s, t)
  PROVE  Inv'
<1> DEFINE K(m) == IF Known(srv[s], m.sid) THEN srv[s] ELSE Override(srv[s], m.sid)
           fwd(m) == To(Links(K(m)) \ {t}, SID(m.src, m.sid))
<1>1. PICK m \in Received(s, t, "SID") :
        /\ UNCHANGED born
        /\ \/ \E x \in {t, m.src} : Step(s, {t}, DropServer(K(m), x), exit_server(K(m), s, x))
           \/ /\ ~Known(srv[s], m.sid) /\ m.sid \in HubMask[t] \ LeafMask[t]
              /\ Step(s, {t}, AddServer(K(m), m.src, m.sid, t), fwd(m))
  BY DEF ms_sid, Unwelcome
<1>2. /\ m \in Message /\ chan[t][s] # <<>> /\ m.src \in Server \ {s} /\ m.sid \in Server
      /\ t \in Server \ {s} /\ Found(srv[s], m.src) /\ Direction(srv[s], m.src) = t
  BY ReceivedFacts, MessageFields
<1>3. Known(srv[s], m.src) /\ srv[s].from[m.src] = t
  BY <1>2 DEF Found, Direction
<1>4. TableInv(s, K(m)) /\ K(m).from = srv[s].from
      /\ \A y \in Server : Known(K(m), y) <=> Known(srv[s], y)
  BY <1>2, InvTables, OverrideInv
<1>5. ASSUME NEW x \in {t, m.src}, Step(s, {t}, DropServer(K(m), x), exit_server(K(m), s, x))
      PROVE  Inv'
  BY <1>1, <1>2, <1>4, <1>5, DropServerInv, ExitServerSends, ReadStep
<1>6. CASE /\ ~Known(srv[s], m.sid) /\ m.sid \in HubMask[t] \ LeafMask[t]
           /\ Step(s, {t}, AddServer(K(m), m.src, m.sid, t), fwd(m))
  <2>1. TableInv(s, AddServer(K(m), m.src, m.sid, t))
    BY <1>2, <1>3, <1>4, <1>6, AddServerInv
  <2>2. fwd(m) \in Sends
    BY <1>2, MessageTypes, SendTypes
  <2> QED BY <1>1, <1>2, <1>6, <2>1, <2>2, ReadStep
<1> QED BY <1>1, <1>5, <1>6

LEMMA mo_squitInv ==
  ASSUME Inv, NEW s \in Server, NEW o \in Uid, NEW x \in Server, mo_squit(s, o, x)
  PROVE  Inv'
<1> DEFINE L == srv[s]
           out == To({x} \cap Links(L), SQUIT(o, s)) ++ To(Links(L) \ {x}, SQUIT(o, x))
<1>1. x # s /\ Step(s, {}, DropServer(L, x), out) /\ born' \subseteq Uid
  BY DEF mo_squit, Inv, TypeOK
<1>2. TableInv(s, DropServer(L, x))
  BY <1>1, InvTables, DropServerInv
<1>3. out \in Sends
  BY MessageTypes, SourceOfSends, SendTypes
<1> QED BY <1>1, <1>2, <1>3, LocalStep

LEMMA ms_squitInv ==
  ASSUME Inv, NEW s \in Server, NEW t \in Server, ms_squit(s, t)
  PROVE  Inv'
<1> DEFINE L == srv[s]
           X(m) == IF m.sid = s THEN t ELSE m.sid
           near(m) == To(Links(L) \ {t}, GLOBOPS(s)) ++ To({X(m)}, SQUIT(m.src, s))
                        ++ To(Links(L) \ {X(m), t}, SQUIT(m.src, X(m)))
           far(m) == To(Links(L) \ {t}, SQUIT(m.src, X(m)))
<1>1. PICK m \in Received(s, t, "SQUIT") :
        /\ UNCHANGED born
        /\ \/ Step(s, {t}, L, Nothing)
           \/ Step(s, {t}, DropServer(L, X(m)), near(m))
           \/ Step(s, {t}, DropServer(L, X(m)), far(m))
  BY DEF ms_squit
<1>2. /\ m \in Message /\ chan[t][s] # <<>> /\ m.src \in Source /\ X(m) \in Server \ {s}
  BY ReceivedFacts, MessageFields
<1>3. TableInv(s, L) /\ TableInv(s, DropServer(L, X(m)))
  BY <1>2, InvTables, DropServerInv
<1>4. near(m) \in Sends /\ far(m) \in Sends
  <2>1. GLOBOPS(s) \in Message /\ SQUIT(m.src, s) \in Message /\ SQUIT(m.src, X(m)) \in Message
    BY <1>2, MessageTypes, SourceOfSends
  <2> QED BY <2>1, SendTypes
<1> QED BY <1>1, <1>2, <1>3, <1>4, SendTypes, ReadStep

LEMMA ms_globopsInv ==
  ASSUME Inv, NEW s \in Server, NEW t \in Server, ms_globops(s, t)
  PROVE  Inv'
<1>1. PICK m \in Received(s, t, "GLOBOPS") :
        UNCHANGED born /\ Step(s, {t}, srv[s], To(Links(srv[s]) \ {t}, GLOBOPS(m.src)))
  BY DEF ms_globops
<1>2. m \in Message /\ chan[t][s] # <<>> /\ m.src \in Source
  BY ReceivedFacts, MessageFields
<1>3. To(Links(srv[s]) \ {t}, GLOBOPS(m.src)) \in Sends
  BY <1>2, MessageTypes, SendTypes
<1> QED BY <1>1, <1>2, <1>3, InvTables, ReadStep

LEMMA parse_dropInv ==
  ASSUME Inv, NEW s \in Server, NEW t \in Server, parse_drop(s, t)
  PROVE  Inv'
<1> DEFINE out(m) == To({t}, IF m.src \in Server THEN SQUIT(s, m.src) ELSE KILL(s, m.src))
<1>1. PICK m \in Head1(s, t) :
        /\ UNCHANGED born
        /\ Step(s, {t}, srv[s], out(m)) \/ Step(s, {t}, srv[s], Nothing)
  BY DEF parse_drop
<1>2. m \in Message /\ chan[t][s] # <<>> /\ m.src \in Source
  BY HeadFacts, MessageFields
<1>3. out(m) \in Sends
  BY <1>2, MessageTypes, SourceOfSends, SendTypes DEF Source
<1> QED BY <1>1, <1>2, <1>3, InvTables, SendTypes, ReadStep

LEMMA lose_linkInv ==
  ASSUME Inv, NEW s \in Server, NEW t \in Server, lose_link(s, t)
  PROVE  Inv'
<1> DEFINE L == srv[s]
<1>1. /\ L.link[t] # "none" /\ born' \subseteq Uid
      /\ \/ Step(s, {}, DropServer(L, t), exit_server(L, s, t))
         \/ L.link[t] # "server" /\ Step(s, {}, CloseLink(L, t), Nothing)
  BY DEF lose_link, Inv, TypeOK
<1>2. TableInv(s, L)
  BY InvTables
<1>3. t # s
  BY <1>1, <1>2 DEF TableInv, ChainsClosed, Chain
<1>4. CASE Step(s, {}, DropServer(L, t), exit_server(L, s, t))
  BY <1>1, <1>2, <1>3, <1>4, DropServerInv, ExitServerSends, LocalStep
<1>5. CASE L.link[t] # "server" /\ Step(s, {}, CloseLink(L, t), Nothing)
  BY <1>1, <1>2, <1>5, CloseLinkInv, SendTypes, LocalStep
<1> QED BY <1>1, <1>4, <1>5

-----------------------------------------------------------------------------
(* The system. *)

LEMMA InitInv == Init => Inv
<1> SUFFICES ASSUME Init PROVE Inv
  OBVIOUS
<1>1. \A s \in Server :
        /\ \A u \in Uid : srv[s].user[u] = NoUser
        /\ \A x \in Server : /\ srv[s].path[x] = IF x = s THEN {s} ELSE {}
                             /\ srv[s].from[x] = x /\ srv[s].link[x] = "none"
  BY DEF Init
<1>2. TypeOK
  BY DEF Init, TypeOK, Tables, NoUser, User
<1>3. ASSUME NEW s \in Server PROVE UniqueNames(srv[s]) /\ ChainsClosed(s, srv[s]) /\ MasksKept(s, srv[s])
  <2> DEFINE L == srv[s]
  <2>1. /\ \A u \in Uid : L.user[u].reg = "none" /\ L.user[u].nick = NoNick
        /\ \A x \in Server : /\ L.path[x] = IF x = s THEN {s} ELSE {}
                             /\ L.from[x] = x /\ L.link[x] = "none"
    BY <1>1 DEF NoUser
  <2> HIDE DEF L
  <2>2. UniqueNames(L)
    BY <2>1 DEF UniqueNames
  <2>3. ChainsClosed(s, L)
    BY <2>1 DEF ChainsClosed, Chain, Known, IsUnknown, IsClient
  <2>4. MasksKept(s, L)
    BY <2>1 DEF MasksKept, Known
  <2> QED BY <2>2, <2>3, <2>4 DEF L
<1>4. NickUnique /\ Routes /\ Masked
  BY <1>3 DEF NickUnique, Routes, Masked
<1> QED BY <1>2, <1>4 DEF Inv

LEMMA NextInv == Inv /\ [Next]_vars => Inv'
<1> SUFFICES ASSUME Inv, [Next]_vars PROVE Inv'
  OBVIOUS
<1>1. ASSUME NEW s \in Server, NEW t \in Server, Receive(s, t) PROVE Inv'
  BY <1>1, mr_serverInv, ms_sidInv, ms_squitInv, ms_globopsInv, ms_uidInv, ms_nickInv,
     ms_killInv, ms_quitInv, parse_dropInv DEF Receive
<1>2. ASSUME NEW s \in Server, NEW t \in Server, Closed(s, t) PROVE Inv'
  BY <1>2, lose_linkInv DEF Closed
<1>3. CASE System
  BY <1>1, <1>2, <1>3 DEF System
<1>4. CASE Environment
  BY <1>4, mr_nickInv, m_nickInv, mr_userInv, exit_localInv, mo_killInv, mo_squitInv,
     server_connectInv, lose_linkInv DEF Environment
<1>5. CASE UNCHANGED vars
  BY <1>5 DEF vars, Inv, TypeOK, NickUnique, Routes, Masked
<1> QED BY <1>3, <1>4, <1>5 DEF Next

LEMMA InvHolds == Spec => []Inv
BY InitInv, NextInv, PTL DEF Spec

\* Every structure a handler reads has the shape the code takes it to have: a record
\* that is registered has a nickname, what is queued on a connection is a command.
THEOREM TypeCorrect == Spec => []TypeOK
<1>1. Inv => TypeOK
  BY DEF Inv
<1> QED BY <1>1, InvHolds, PTL

\* hash_find_client has one answer: no sequence of registrations, nickname changes,
\* collisions, kills, splits and bursts leaves two holders of one name on a server.
THEOREM NamesUnique == Spec => []NickUnique
<1>1. Inv => NickUnique
  BY DEF Inv
<1> QED BY <1>1, InvHolds, PTL

\* No servptr or from pointer dangles: whatever links are made, lost or squitted in
\* whatever order, a server that exits takes every server and user behind it along.
THEOREM RoutesLead == Spec => []Routes
<1>1. Inv => Routes
  BY DEF Inv
<1> QED BY <1>1, InvHolds, PTL

\* connect::hub_mask and leaf_mask bind whatever the order of SIDs, bursts and splits: no
\* server is ever reached through a link that may not introduce it.
THEOREM MasksBind == Spec => []Masked
<1>1. Inv => Masked
  BY DEF Inv
<1> QED BY <1>1, InvHolds, PTL

=============================================================================
