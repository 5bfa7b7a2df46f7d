-------------------------- MODULE ConnectionLemmas --------------------------
(***************************************************************************)
(* The inductive invariant of Connection, and the lemmas about its          *)
(* operators that the theorems of ConnectionProofs rest on: what each       *)
(* operator assigns, how every count follows one connection, and that an    *)
(* exit, a change, or several calls in a row lead from a good state to a    *)
(* good state.                                                              *)
(*                                                                          *)
(* Between the calls of one callback the connection it works on need not be *)
(* settled: it may be read while it holds no block and awaits no lookup.    *)
(* GoodBut(s, E) is therefore said of every state s a callback passes       *)
(* through, but for the connections E it is at work on; between steps E is  *)
(* empty.  A count is stated as what it counts, the number of connections   *)
(* that refer to the thing, so that it can neither leak nor go below zero.  *)
(***************************************************************************)
EXTENDS Connection, ListLemmas

\* The lookups the resolver has under way for c, and the connections with a socket of an ident query.
Asked(s, c) == {q \in s.query : q.who = c}
Idents(s) == {c \in Conn : s.client[c].auth.ident \in {"connect", "read"}}

\* A free slot.
Absent(s, c) == s.client[c] = Gone /\ c \notin s.dead /\ ~OnAbort(s, c) /\ Asked(s, c) = {}
\* Exited: on dead_list, and nothing refers to it.
Closed(s, c) ==
  LET r == s.client[c] IN
  /\ r.list = "none" /\ r.auth = NoAuth /\ ~r.fd /\ r.confs = {} /\ "iphash" \notin r.flags
  /\ c \in s.dead /\ Asked(s, c) = {}
\* On the list of its state; looked up, in a TLS handshake or read; a client is counted.
Live(s, c) ==
  LET r == s.client[c] IN
  /\ r.fd /\ r.list = ListOf(r.is) /\ c \notin s.dead
  /\ r.auth # NoAuth => r.is = "unknown" /\ {"auth", "tls"} \cap r.flags = {} /\ (r.auth.dns \/ r.auth.ident # "no")
  /\ "tls" \in r.flags => r.is \in {"unknown", "connecting"} /\ "auth" \notin r.flags
  /\ r.is = "connecting" => "auth" \notin r.flags
  /\ Asked(s, c) = {} \/ \E p \in BOOLEAN : Asked(s, c) = {[who |-> c, ptr |-> p]}
  /\ r.auth.dns <=> Asked(s, c) # {}
  /\ r.is = "client" => "iphash" \in r.flags
\* On abort_list when it is marked dead; before it is registered it holds no block and has a timer.
Settled(s, c) ==
  LET r == s.client[c] IN
  /\ "dead" \in r.flags <=> OnAbort(s, c)
  /\ r.is = "unknown" /\ "dead" \notin r.flags =>
       "iphash" \notin r.flags /\ r.confs = {} /\ (r.auth # NoAuth \/ "auth" \in r.flags \/ "tls" \in r.flags)
\* E: the connections a callback is still working on, which need not be settled yet.
GoodClient(s, E, c) == IF s.client[c].is = "none" THEN Absent(s, c)
                       ELSE IF Has(s, c, "closing") THEN Closed(s, c)
                       ELSE Live(s, c) /\ (c \in E \/ Settled(s, c))

\* Every count is the number of those that refer.
ConfRefs(s) == \A x \in Conf : s.conf[x].ref = Cardinality({c \in Conn : x \in s.client[c].confs})
ClassRefs(s) == \A k \in Class :
  s.class[k].ref = Cardinality({r \in Conn \X Conf : r[2] \in s.client[r[1]].confs /\ s.conf[r[2]].class = k})
PortRefs(s) == s.listener.ref = Cardinality({c \in Conn : s.client[c].port})
IpRefs(s) == \A p \in Ip : s.ip[p].local = Cardinality({c \in Conn : Has(s, c, "iphash") /\ s.client[c].ip = p})
FdRefs(s) ==
  s.fds = Cardinality({c \in Conn : s.client[c].fd}) + Cardinality(Idents(s))
          + (IF s.listener.is = "open" THEN 1 ELSE 0)
Refs(s) == ConfRefs(s) /\ ClassRefs(s) /\ PortRefs(s) /\ IpRefs(s) /\ FdRefs(s)
\* What is used or valid is there; a block that is valid has a class that is.
Blocks(s) ==
  /\ s.class[Default].is = "on"
  /\ \A x \in Conf : /\ s.conf[x].is = "none" => s.conf[x].ref = 0
                     /\ s.conf[x].is = "off" => s.conf[x].ref > 0
                     /\ s.conf[x].is = "on" => s.class[s.conf[x].class].is = "on"
                     /\ s.conf[x].is # "none" => s.class[s.conf[x].class].is # "none"
  /\ \A q \in s.query : q.who \in Connect => s.conf[q.who].is # "none"
  /\ s.listener.is = "none" => s.listener.ref = 0
\* The clients that passed the limits.
Admitted(s) == {c \in Conn : /\ s.client[c].is = "client" /\ s.client[c].list = "client"
                             /\ s.client[c].confs \cap Auth # {} /\ s.client[c].confs \cap Exempt = {}}
Limits(s) ==
  /\ \A k \in Class : Cardinality({c \in Admitted(s) : \E x \in s.client[c].confs \cap Auth : s.conf[x].class = k}) <= MaxTotal
  /\ \A p \in Ip : Cardinality({c \in Admitted(s) : s.client[c].ip = p}) <= PerIp
  /\ s.fds <= FdLimit
GoodBut(s, E) == /\ s \in State /\ s.misuse = FALSE /\ IsInjective(s.abort)
                 /\ Refs(s) /\ Blocks(s) /\ Limits(s) /\ \A c \in Conn : GoodClient(s, E, c)
Inv == GoodBut(ircd, {}) /\ phase \in {"events", "io", "abort"}

-----------------------------------------------------------------------------
(* The shape of a state, and what one assignment leaves alone. *)

Fields == {"client", "abort", "dead", "query", "conf", "class", "listener", "ip", "fds", "ping_cookie", "misuse"}
Tags   == {"is", "list", "flags", "need", "auth", "fd", "confs", "ip", "port"}
Tagged(r) == r = [g \in Tags |-> r[g]]
Formed(s) == /\ s = [f \in Fields |-> s[f]]
             /\ s.client = [d \in Conn |-> s.client[d]]
             /\ \A d \in Conn : Tagged(s.client[d])

\* t differs from s in the fields F only, and its connection c in the tags G.
Only(F, s, t)  == Formed(t) /\ \A f \in Fields \ F : t[f] = s[f]
At(G, s, t, c) == /\ \A d \in Conn \ {c} : t.client[d] = s.client[d]
                  /\ \A g \in Tags \ G : t.client[c][g] = s.client[c][g]

\* A state of its type is a record of its fields, whose connections are records of their tags.
LEMMA StateFormed == ASSUME NEW s \in State PROVE Formed(s)
<1>1. s = [f \in Fields |-> s[f]] BY DEF State, Fields
<1>2. s.client \in [Conn -> Client] BY DEF State
<1>3. ASSUME NEW d \in Conn PROVE s.client[d] = [g \in Tags |-> s.client[d][g]]
  BY <1>2 DEF Client, Tags
<1> QED BY <1>1, <1>2, <1>3 DEF Formed, Tagged

\* One field of the state, and one of a connection, set.
SetAbort(s, v) == [s EXCEPT !.abort = v]
SetDead(s, v) == [s EXCEPT !.dead = v]
SetQuery(s, v) == [s EXCEPT !.query = v]
SetConf(s, v) == [s EXCEPT !.conf = v]
SetClass(s, v) == [s EXCEPT !.class = v]
SetIp(s, v) == [s EXCEPT !.ip = v]
SetFds(s, v) == [s EXCEPT !.fds = v]
SetMisuse(s, v) == [s EXCEPT !.misuse = v]
PutIs(s, c, v) == [s EXCEPT !.client[c].is = v]
PutAuth(s, c, v) == [s EXCEPT !.client[c].auth = v]
PutFlags(s, c, v) == [s EXCEPT !.client[c].flags = v]
PutList(s, c, v) == [s EXCEPT !.client[c].list = v]
Shut(s, c) == [s EXCEPT !.client[c].fd = FALSE]
PutConfs(s, c, v) == [s EXCEPT !.client[c].confs = v]
PutNeed(s, c, v) == [s EXCEPT !.client[c].need = v]
PutIp(s, c, v) == [s EXCEPT !.client[c].ip = v]

\* One field set: the others are as before.
LEMMA Setters ==
  ASSUME NEW s, Formed(s), NEW v
  PROVE  /\ Only({"abort"}, s, SetAbort(s, v)) /\ SetAbort(s, v).abort = v
         /\ Only({"dead"}, s, SetDead(s, v)) /\ SetDead(s, v).dead = v
         /\ Only({"query"}, s, SetQuery(s, v)) /\ SetQuery(s, v).query = v
         /\ Only({"conf"}, s, SetConf(s, v)) /\ SetConf(s, v).conf = v
         /\ Only({"ip"}, s, SetIp(s, v)) /\ SetIp(s, v).ip = v
         /\ Only({"class"}, s, SetClass(s, v)) /\ SetClass(s, v).class = v
         /\ Only({"fds"}, s, SetFds(s, v)) /\ SetFds(s, v).fds = v
         /\ Only({"misuse"}, s, SetMisuse(s, v)) /\ SetMisuse(s, v).misuse = v
<1>1. Only({"abort"}, s, SetAbort(s, v)) /\ SetAbort(s, v).abort = v
  BY DEF Only, Formed, Fields, SetAbort
<1>2. Only({"dead"}, s, SetDead(s, v)) /\ SetDead(s, v).dead = v
  BY DEF Only, Formed, Fields, SetDead
<1>3. Only({"query"}, s, SetQuery(s, v)) /\ SetQuery(s, v).query = v
  BY DEF Only, Formed, Fields, SetQuery
<1>4. Only({"conf"}, s, SetConf(s, v)) /\ SetConf(s, v).conf = v
  BY DEF Only, Formed, Fields, SetConf
<1>5. Only({"ip"}, s, SetIp(s, v)) /\ SetIp(s, v).ip = v
  BY DEF Only, Formed, Fields, SetIp
<1>6. Only({"fds"}, s, SetFds(s, v)) /\ SetFds(s, v).fds = v
  BY DEF Only, Formed, Fields, SetFds
<1>7. Only({"misuse"}, s, SetMisuse(s, v)) /\ SetMisuse(s, v).misuse = v
  BY DEF Only, Formed, Fields, SetMisuse
<1>8. Only({"class"}, s, SetClass(s, v)) /\ SetClass(s, v).class = v
  BY DEF Only, Formed, Fields, SetClass
<1> QED BY <1>1, <1>2, <1>3, <1>4, <1>5, <1>6, <1>7, <1>8

\* One tag of one connection set: all else is as before.
LEMMA Putters ==
  ASSUME NEW s, Formed(s), NEW c \in Conn, NEW v
  PROVE  /\ LET t == PutIs(s, c, v) IN Only({"client"}, s, t) /\ At({"is"}, s, t, c) /\ t.client[c].is = v
         /\ LET t == PutAuth(s, c, v) IN Only({"client"}, s, t) /\ At({"auth"}, s, t, c) /\ t.client[c].auth = v
         /\ LET t == PutFlags(s, c, v) IN Only({"client"}, s, t) /\ At({"flags"}, s, t, c) /\ t.client[c].flags = v
         /\ LET t == PutList(s, c, v) IN Only({"client"}, s, t) /\ At({"list"}, s, t, c) /\ t.client[c].list = v
         /\ LET t == PutConfs(s, c, v) IN Only({"client"}, s, t) /\ At({"confs"}, s, t, c) /\ t.client[c].confs = v
         /\ LET t == PutNeed(s, c, v) IN Only({"client"}, s, t) /\ At({"need"}, s, t, c) /\ t.client[c].need = v
         /\ LET t == PutIp(s, c, v) IN Only({"client"}, s, t) /\ At({"ip"}, s, t, c) /\ t.client[c].ip = v
<1>1. LET t == PutIs(s, c, v) IN Only({"client"}, s, t) /\ At({"is"}, s, t, c) /\ t.client[c].is = v
  BY DEF Only, At, Formed, Tagged, Fields, Tags, PutIs
<1>2. LET t == PutAuth(s, c, v) IN Only({"client"}, s, t) /\ At({"auth"}, s, t, c) /\ t.client[c].auth = v
  BY DEF Only, At, Formed, Tagged, Fields, Tags, PutAuth
<1>3. LET t == PutFlags(s, c, v) IN Only({"client"}, s, t) /\ At({"flags"}, s, t, c) /\ t.client[c].flags = v
  BY DEF Only, At, Formed, Tagged, Fields, Tags, PutFlags
<1>4. LET t == PutList(s, c, v) IN Only({"client"}, s, t) /\ At({"list"}, s, t, c) /\ t.client[c].list = v
  BY DEF Only, At, Formed, Tagged, Fields, Tags, PutList
<1>6. LET t == PutConfs(s, c, v) IN Only({"client"}, s, t) /\ At({"confs"}, s, t, c) /\ t.client[c].confs = v
  BY DEF Only, At, Formed, Tagged, Fields, Tags, PutConfs
<1>7. LET t == PutNeed(s, c, v) IN Only({"client"}, s, t) /\ At({"need"}, s, t, c) /\ t.client[c].need = v
  BY DEF Only, At, Formed, Tagged, Fields, Tags, PutNeed
<1>8. LET t == PutIp(s, c, v) IN Only({"client"}, s, t) /\ At({"ip"}, s, t, c) /\ t.client[c].ip = v
  BY DEF Only, At, Formed, Tagged, Fields, Tags, PutIp
<1> QED BY <1>1, <1>2, <1>3, <1>4, <1>6, <1>7, <1>8

\* The same of its descriptor.
LEMMA ShutForm ==
  ASSUME NEW s, Formed(s), NEW c \in Conn
  PROVE  LET t == Shut(s, c) IN Only({"client"}, s, t) /\ At({"fd"}, s, t, c) /\ t.client[c].fd = FALSE
  BY DEF Only, At, Formed, Tagged, Fields, Tags, Shut

\* A flag set (AddFlag): only the flags of that connection change.
LEMMA FlagForm ==
  ASSUME NEW s, Formed(s), NEW c \in Conn, NEW f
  PROVE  LET t == Flag(s, c, f) IN
         Only({"client"}, s, t) /\ At({"flags"}, s, t, c) /\ t.client[c].flags = s.client[c].flags \cup {f}
<1>1. Flag(s, c, f) = PutFlags(s, c, s.client[c].flags \cup {f})
  BY DEF Flag, PutFlags
<1> QED BY <1>1, Putters

\* The socket of an ident query, if there is one, is closed, and the query is over.
LEMMA CloseIdentForm ==
  ASSUME NEW s, Formed(s), NEW c \in Conn, s.client[c].auth \in Lookup \cup {NoAuth}
  PROVE  LET r == s.client[c]
             t == CloseIdent(s, c)
             on == r.auth.ident \in {"connect", "read"} IN
         /\ Only({"client", "fds"}, s, t) /\ At({"auth"}, s, t, c)
         /\ t.client[c].auth = IF on THEN [dns |-> r.auth.dns, ident |-> "no"] ELSE r.auth
         /\ t.fds = IF on THEN s.fds - 1 ELSE s.fds
<1> DEFINE r == s.client[c]
           a == [r.auth EXCEPT !.ident = "no"]
           u == PutAuth(s, c, a)
<1>1. CASE r.auth.ident \in {"connect", "read"}
  <2>1. CloseIdent(s, c) = SetFds(u, u.fds - 1)
    BY <1>1 DEF CloseIdent, fd_close, PutAuth, SetFds
  <2>2. a = [dns |-> r.auth.dns, ident |-> "no"] BY DEF Lookup, NoAuth
  <2> HIDE DEF a
  <2>3. Only({"client"}, s, u) /\ At({"auth"}, s, u, c) /\ u.client[c].auth = a
    BY Putters
  <2> HIDE DEF u
  <2>4. Only({"fds"}, u, SetFds(u, u.fds - 1)) /\ SetFds(u, u.fds - 1).fds = u.fds - 1
    BY <2>3, Setters DEF Only
  <2> QED BY <1>1, <2>1, <2>2, <2>3, <2>4 DEF Only, At, Fields, Tags
<1>2. CASE r.auth.ident \notin {"connect", "read"}
  BY <1>2 DEF CloseIdent, Only, At
<1> QED BY <1>1, <1>2

\* auth_delete(): no ident query, no DNS query, no auth record is left.
LEMMA AuthDeleteForm ==
  ASSUME NEW s, Formed(s), NEW c \in Conn, s.client[c].auth \in Lookup \cup {NoAuth}
  PROVE  LET r == s.client[c]
             t == auth_delete(s, c)
             on == r.auth.ident \in {"connect", "read"} IN
         /\ Only({"client", "fds", "query"}, s, t) /\ At({"auth"}, s, t, c) /\ t.client[c].auth = NoAuth
         /\ t.fds = IF on THEN s.fds - 1 ELSE s.fds
         /\ t.query = IF r.auth = NoAuth THEN s.query ELSE {q \in s.query : q.who # c}
<1> DEFINE u == CloseIdent(s, c)
           v == SetQuery(u, {q \in u.query : q.who # c})
<1>1. CASE s.client[c].auth = NoAuth
  BY <1>1 DEF auth_delete, NoAuth, Only, At
<1>2. CASE s.client[c].auth # NoAuth
  <2>1. auth_delete(s, c) = PutAuth(v, c, NoAuth)
    BY <1>2 DEF auth_delete, delete_resolver_queries, PutAuth, SetQuery
  <2>2. Formed(u) /\ u.query = s.query /\ Only({"client", "fds"}, s, u) /\ At({"auth"}, s, u, c)
     /\ u.fds = IF s.client[c].auth.ident \in {"connect", "read"} THEN s.fds - 1 ELSE s.fds
    BY CloseIdentForm DEF Only, Fields
  <2> HIDE DEF u
  <2>3. Formed(v) /\ Only({"query"}, u, v) /\ v.query = {q \in u.query : q.who # c}
    BY <2>2, Setters DEF Only
  <2> HIDE DEF v
  <2>4. LET w == PutAuth(v, c, NoAuth) IN
        Only({"client"}, v, w) /\ At({"auth"}, v, w, c) /\ w.client[c].auth = NoAuth
    BY <2>3, Putters
  <2> QED BY <1>2, <2>1, <2>2, <2>3, <2>4 DEF Only, At, Fields, Tags
<1> QED BY <1>1, <1>2

-----------------------------------------------------------------------------
(* What the exit of a connection changes, in closed form. *)

\* What conf_detach() does to the blocks and classes of a connection.
Dropped(s, c)   == {x \in s.client[c].confs : s.conf[x].ref = 1 /\ s.conf[x].is = "off"}
Uses(s, c, k)   == {x \in s.client[c].confs : s.conf[x].class = k}
Detached(s, c, x) == IF x \in Dropped(s, c) THEN NoConf
                     ELSE IF x \in s.client[c].confs THEN [s.conf[x] EXCEPT !.ref = @ - 1] ELSE s.conf[x]
Left(s, c, k) == IF Cardinality(Uses(s, c, k)) > 0
                 THEN Freed([s.class[k] EXCEPT !.ref = @ - Cardinality(Uses(s, c, k))]) ELSE s.class[k]

\* conf_detach() in closed form: each block and class loses its references, and blocks that were
\* only waiting for that are freed with their lookups; no count falls below zero.
LEMMA ConfDetachForm ==
  ASSUME NEW s, Formed(s), NEW c \in Conn, s.client[c].confs \subseteq Conf, s.conf \in [Conf -> MaskItem]
  PROVE  LET r == s.client[c]
             t == conf_detach(s, c) IN
         /\ Only({"client", "conf", "class", "query", "misuse"}, s, t) /\ At({"confs"}, s, t, c)
         /\ t.client[c].confs = {}
         /\ t.conf = [x \in Conf |-> Detached(s, c, x)]
         /\ t.class = [k \in Class |-> Left(s, c, k)]
         /\ t.query = {q \in s.query : q.who \notin Dropped(s, c)}
         /\ s.misuse = FALSE /\ (\A x \in r.confs : s.conf[x].ref # 0 /\ s.class[s.conf[x].class].ref # 0) => t.misuse = FALSE
<1> DEFINE X == s.client[c].confs
           F == [x \in Conf |-> IF x \in X THEN [s.conf[x] EXCEPT !.ref = @ - 1] ELSE s.conf[x]]
           K == [k \in Class |-> Left(s, c, k)]
           t == SetClass(SetConf(PutConfs(s, c, {}), F), K)
           D == X \cap Unused(t)
           G == [x \in Conf |-> IF x \in D THEN NoConf ELSE t.conf[x]]
           Q == {q \in t.query : q.who \notin D}
           u == SetQuery(SetConf(t, G), Q)
           bad == \E x \in X : s.conf[x].ref = 0 \/ s.class[s.conf[x].class].ref = 0
           w == SetMisuse(u, u.misuse \/ bad)
<1>1. conf_detach(s, c) = w
  BY DEF conf_detach, conf_free, Misused, SetClass, SetConf, PutConfs, SetQuery, SetMisuse, Left, Uses
<1> HIDE DEF F, K, G, Q, bad
<1>2. /\ Only({"client", "conf", "class"}, s, t) /\ At({"confs"}, s, t, c) /\ t.client[c].confs = {}
      /\ t.conf = F /\ t.class = K
  <2> DEFINE a == PutConfs(s, c, {}) b == SetConf(a, F)
  <2>1. Only({"client"}, s, a) /\ At({"confs"}, s, a, c) /\ a.client[c].confs = {}
    BY Putters
  <2>2. Only({"conf"}, a, b) /\ b.conf = F
    BY <2>1, Setters DEF Only
  <2>3. Only({"class"}, b, t) /\ t.class = K
    BY <2>2, Setters DEF Only
  <2> HIDE DEF a, b, t
  <2> QED BY <2>1, <2>2, <2>3 DEF Only, At, Fields, Tags
<1>3. t.query = s.query /\ t.misuse = s.misuse /\ Formed(t)
  BY <1>2 DEF Only, Fields
<1> HIDE DEF t
<1>4. \A x \in Conf : /\ x \in Unused(t) /\ x \in X <=> x \in Dropped(s, c)
                      /\ t.conf[x] = IF x \in X THEN [s.conf[x] EXCEPT !.ref = @ - 1] ELSE s.conf[x]
  BY <1>2 DEF F, Unused, Dropped, MaskItem
<1>5. D = Dropped(s, c)
  BY <1>4 DEF Dropped, Unused
<1> HIDE DEF D
<1>6. G = [x \in Conf |-> Detached(s, c, x)]
  BY <1>4, <1>5 DEF G, Detached
<1>7. Q = {q \in s.query : q.who \notin Dropped(s, c)}
  BY <1>3, <1>5 DEF Q
<1>8. /\ Only({"conf", "query"}, t, u) /\ u.conf = G /\ u.query = Q
  <2> DEFINE a == SetConf(t, G)
  <2>1. Only({"conf"}, t, a) /\ a.conf = G
    BY <1>3, Setters
  <2>2. Only({"query"}, a, u) /\ u.query = Q
    BY <2>1, Setters DEF Only
  <2> HIDE DEF a, u
  <2> QED BY <2>1, <2>2 DEF Only, Fields
<1> HIDE DEF u
<1>9. Only({"misuse"}, u, w) /\ w.misuse = (u.misuse \/ bad)
  BY <1>8, Setters DEF Only
<1> HIDE DEF w
<1>10. Only({"client", "conf", "class", "query", "misuse"}, s, w) /\ At({"confs"}, s, w, c) /\ w.client[c].confs = {}
       /\ w.conf = G /\ w.class = K /\ w.query = Q /\ (s.misuse = FALSE /\ ~bad => w.misuse = FALSE)
  BY <1>2, <1>3, <1>8, <1>9 DEF Only, At, Fields, Tags
<1> QED BY <1>1, <1>6, <1>7, <1>10 DEF K, bad

Uncounted(e) == ipcache_record_delete([e EXCEPT !.local = @ - 1])

\* exit_one_client(): off its address, marked, and on dead_list.
LEMMA ExitOneForm ==
  ASSUME NEW s, Formed(s), NEW c \in Conn
  PROVE  LET r == s.client[c]
             t == exit_one_client(s, c)
             on == "iphash" \in r.flags IN
         /\ Only({"client", "ip", "dead", "misuse"}, s, t) /\ At({"flags"}, s, t, c)
         /\ t.client[c].flags = (r.flags \ {"iphash"}) \cup {"dead"} /\ t.dead = s.dead \cup {c}
         /\ t.ip = IF on THEN [s.ip EXCEPT ![r.ip] = Uncounted(@)] ELSE s.ip
         /\ s.misuse = FALSE /\ ~(on /\ s.ip[r.ip].local = 0) /\ c \notin s.dead => t.misuse = FALSE
<1> DEFINE r == s.client[c]
           on == "iphash" \in r.flags
           a == PutFlags(s, c, r.flags \ {"iphash"})
           I == [a.ip EXCEPT ![r.ip] = Uncounted(@)]
           b == SetIp(a, I)
           t == IF on THEN SetMisuse(b, b.misuse \/ a.ip[r.ip].local = 0) ELSE s
           u == SetDead(t, t.dead \cup {c})
           v == Flag(u, c, "dead")
           w == SetMisuse(v, v.misuse \/ c \in s.dead)
<1>1. exit_one_client(s, c) = w
  BY DEF exit_one_client, Has, ipcache_record_remove, Uncounted, Misused, SetDead, SetIp, SetMisuse, PutFlags
<1>2. /\ Only({"client", "ip", "misuse"}, s, t) /\ At({"flags"}, s, t, c)
      /\ t.client[c].flags = r.flags \ {"iphash"}
      /\ t.ip = IF on THEN [s.ip EXCEPT ![r.ip] = Uncounted(@)] ELSE s.ip
      /\ s.misuse = FALSE /\ ~(on /\ s.ip[r.ip].local = 0) => t.misuse = FALSE
  <2>1. CASE on
    <3>1. Only({"client"}, s, a) /\ At({"flags"}, s, a, c) /\ a.client[c].flags = r.flags \ {"iphash"}
      BY Putters
    <3>2. a.ip = s.ip /\ a.misuse = s.misuse
      BY <3>1 DEF Only, Fields
    <3>3. I = [s.ip EXCEPT ![r.ip] = Uncounted(@)]
      BY <3>2
    <3> HIDE DEF a, I
    <3>4. Only({"ip"}, a, b) /\ b.ip = I
      BY <3>1, Setters DEF Only
    <3> HIDE DEF b
    <3> DEFINE z == SetMisuse(b, b.misuse \/ a.ip[r.ip].local = 0)
    <3>5. Only({"misuse"}, b, z) /\ z.misuse = (b.misuse \/ a.ip[r.ip].local = 0)
      BY <3>4, Setters DEF Only
    <3>6. t = z
      BY <2>1
    <3> HIDE DEF z
    <3>7. b.misuse = s.misuse /\ (s.misuse = FALSE /\ s.ip[r.ip].local # 0 => z.misuse = FALSE)
      <4>1. b.misuse = s.misuse
        BY <3>2, <3>4 DEF Only, Fields
      <4> QED BY <4>1, <3>2, <3>5
    <3>8. Only({"client", "ip", "misuse"}, s, z) /\ At({"flags"}, s, z, c)
          /\ z.client[c].flags = r.flags \ {"iphash"} /\ z.ip = I
      BY <3>1, <3>4, <3>5 DEF Only, At, Fields, Tags
    <3> HIDE DEF t
    <3> QED BY <2>1, <3>3, <3>6, <3>7, <3>8
  <2>2. CASE ~on
    BY <2>2 DEF Only, At
  <2> QED BY <2>1, <2>2
<1> HIDE DEF t
<1>3. Only({"dead"}, t, u) /\ u.dead = t.dead \cup {c}
  BY <1>2, Setters DEF Only
<1> HIDE DEF u
<1>4. Only({"client"}, u, v) /\ At({"flags"}, u, v, c) /\ v.client[c].flags = u.client[c].flags \cup {"dead"}
  BY <1>3, FlagForm DEF Only
<1> HIDE DEF v
<1>5. Only({"misuse"}, v, w) /\ w.misuse = (v.misuse \/ c \in s.dead)
  BY <1>4, Setters DEF Only
<1> HIDE DEF w
<1>6. /\ Only({"client", "ip", "dead", "misuse"}, s, w) /\ At({"flags"}, s, w, c)
      /\ w.client[c].flags = (r.flags \ {"iphash"}) \cup {"dead"} /\ w.dead = s.dead \cup {c}
  BY <1>2, <1>3, <1>4, <1>5 DEF Only, At, Fields, Tags
<1>7. w.ip = t.ip /\ (t.misuse = FALSE /\ c \notin s.dead => w.misuse = FALSE)
  BY <1>3, <1>4, <1>5 DEF Only, Fields
<1> QED BY <1>1, <1>2, <1>6, <1>7

\* t is s after the exit of c, in closed form.
Exits(s, c, t) ==
  LET r == s.client[c] q == t.client[c] IN
  /\ Only(Fields \ {"abort", "listener", "ping_cookie"}, s, t) /\ At(Tags \ {"is", "need", "ip", "port"}, s, t, c)
  /\ q.list = "none" /\ q.flags = (r.flags \ {"iphash"}) \cup {"closing", "dead"} /\ q.auth = NoAuth
  /\ q.fd = FALSE /\ q.confs = {}
  /\ t.dead = s.dead \cup {c}
  /\ t.conf = [x \in Conf |-> Detached(s, c, x)] /\ t.class = [k \in Class |-> Left(s, c, k)]
  /\ t.query = {p \in s.query : p.who \notin Dropped(s, c) /\ (r.auth = NoAuth \/ p.who # c)}
  /\ t.ip = IF "iphash" \in r.flags THEN [s.ip EXCEPT ![r.ip] = Uncounted(@)] ELSE s.ip
  /\ t.fds = (IF r.auth.ident \in {"connect", "read"} THEN s.fds - 1 ELSE s.fds) - 1
  /\ /\ s.misuse = FALSE /\ r.list = ListOf(r.is) /\ c \notin s.dead
     /\ \A x \in r.confs : s.conf[x].ref # 0 /\ s.class[s.conf[x].class].ref # 0
     /\ "iphash" \in r.flags => s.ip[r.ip].local # 0
     => t.misuse = FALSE

\* exit_client() of a connection not exited before does what Exits says.
LEMMA ExitForm ==
  ASSUME NEW s, Formed(s), NEW c \in Conn, "closing" \notin s.client[c].flags, s.client[c].confs \subseteq Conf,
         s.conf \in [Conf -> MaskItem], s.client[c].auth \in Lookup \cup {NoAuth}
  PROVE  Exits(s, c, exit_client(s, c))
<1> DEFINE r == s.client[c]
           a == Flag(s, c, "closing")
           b == auth_delete(a, c)
           d == PutList(b, c, "none")
           e == SetMisuse(d, d.misuse \/ r.list # ListOf(r.is))
           f == Shut(e, c)
           g == SetFds(f, f.fds - 1)
           h == conf_detach(g, c)
           w == exit_one_client(h, c)
<1>1. exit_client(s, c) = w
  BY DEF exit_client, Has, Misused, client_close_connection, fd_close, PutList, SetMisuse, Shut, SetFds
<1>2. Only({"client"}, s, a) /\ At({"flags"}, s, a, c) /\ a.client[c].flags = r.flags \cup {"closing"}
  BY FlagForm
<1>3. a.client[c].auth = r.auth /\ Formed(a)
  BY <1>2 DEF Only, At, Tags
<1> HIDE DEF a
<1>4. /\ Only({"client", "fds", "query"}, a, b) /\ At({"auth"}, a, b, c) /\ b.client[c].auth = NoAuth
      /\ b.fds = IF r.auth.ident \in {"connect", "read"} THEN a.fds - 1 ELSE a.fds
      /\ b.query = IF r.auth = NoAuth THEN a.query ELSE {q \in a.query : q.who # c}
  <2>1. a.client[c].auth \in Lookup \cup {NoAuth}
    BY <1>3
  <2>2. LET q == a.client[c] IN
        /\ Only({"client", "fds", "query"}, a, b) /\ At({"auth"}, a, b, c) /\ b.client[c].auth = NoAuth
        /\ b.fds = IF q.auth.ident \in {"connect", "read"} THEN a.fds - 1 ELSE a.fds
        /\ b.query = IF q.auth = NoAuth THEN a.query ELSE {p \in a.query : p.who # c}
    BY <1>3, <2>1, AuthDeleteForm
  <2> QED BY <1>3, <2>2
<1> HIDE DEF b
<1>5. Only({"client"}, b, d) /\ At({"list"}, b, d, c) /\ d.client[c].list = "none"
  BY <1>4, Putters DEF Only
<1> HIDE DEF d
<1>6. Only({"misuse"}, d, e) /\ e.misuse = (d.misuse \/ r.list # ListOf(r.is))
  BY <1>5, Setters DEF Only
<1> HIDE DEF e
<1>7. Only({"client"}, e, f) /\ At({"fd"}, e, f, c) /\ f.client[c].fd = FALSE
  BY <1>6, ShutForm DEF Only
<1> HIDE DEF f
<1>8. Only({"fds"}, f, g) /\ g.fds = f.fds - 1
  BY <1>7, Setters DEF Only
<1> HIDE DEF g
<1>9. /\ Only({"client", "fds", "query", "misuse"}, s, g) /\ At({"flags", "auth", "list", "fd"}, s, g, c)
      /\ g.client[c].flags = r.flags \cup {"closing"} /\ g.client[c].auth = NoAuth
      /\ g.client[c].list = "none" /\ g.client[c].fd = FALSE
  BY <1>2, <1>4, <1>5, <1>6, <1>7, <1>8 DEF Only, At, Fields, Tags
<1>10. /\ g.fds = (IF r.auth.ident \in {"connect", "read"} THEN s.fds - 1 ELSE s.fds) - 1
       /\ g.query = IF r.auth = NoAuth THEN s.query ELSE {q \in s.query : q.who # c}
       /\ (s.misuse = FALSE /\ r.list = ListOf(r.is) => g.misuse = FALSE)
  <2>1. a.fds = s.fds /\ a.query = s.query /\ a.misuse = s.misuse
    BY <1>2 DEF Only, Fields
  <2>2. g.fds = b.fds - 1 /\ g.query = b.query /\ b.misuse = a.misuse
    BY <1>4, <1>5, <1>6, <1>7, <1>8 DEF Only, Fields
  <2>3. d.misuse = s.misuse /\ g.misuse = e.misuse
    BY <2>1, <2>2, <1>5, <1>7, <1>8 DEF Only, Fields
  <2> QED BY <2>1, <2>2, <2>3, <1>4, <1>6
<1>11. Formed(g) /\ g.client[c].confs = r.confs /\ g.conf = s.conf /\ g.class = s.class
  BY <1>9 DEF Only, At, Fields, Tags
<1>12. /\ Only({"client", "conf", "class", "query", "misuse"}, g, h) /\ At({"confs"}, g, h, c)
       /\ h.client[c].confs = {}
       /\ h.conf = [x \in Conf |-> Detached(g, c, x)]
       /\ h.class = [k \in Class |-> Left(g, c, k)]
       /\ h.query = {q \in g.query : q.who \notin Dropped(g, c)}
       /\ g.misuse = FALSE /\ (\A x \in r.confs : s.conf[x].ref # 0 /\ s.class[s.conf[x].class].ref # 0) => h.misuse = FALSE
  <2>1. g.client[c].confs \subseteq Conf /\ g.conf \in [Conf -> MaskItem]
    BY <1>11
  <2>2. LET t == conf_detach(g, c) q == g.client[c] IN
         /\ Only({"client", "conf", "class", "query", "misuse"}, g, t) /\ At({"confs"}, g, t, c)
         /\ t.client[c].confs = {}
         /\ t.conf = [x \in Conf |-> Detached(g, c, x)]
         /\ t.class = [k \in Class |-> Left(g, c, k)]
         /\ t.query = {p \in g.query : p.who \notin Dropped(g, c)}
         /\ g.misuse = FALSE /\ (\A x \in q.confs : g.conf[x].ref # 0 /\ g.class[g.conf[x].class].ref # 0) => t.misuse = FALSE
    BY <1>11, <2>1, ConfDetachForm
  <2> QED BY <1>11, <2>2
<1>13. /\ Dropped(g, c) = Dropped(s, c) /\ \A x \in Conf : Detached(g, c, x) = Detached(s, c, x)
       /\ \A k \in Class : Left(g, c, k) = Left(s, c, k)
  <2>1. Dropped(g, c) = Dropped(s, c) /\ \A k \in Class : Uses(g, c, k) = Uses(s, c, k)
    BY <1>11 DEF Dropped, Uses
  <2> QED BY <1>11, <2>1 DEF Detached, Left
<1> HIDE DEF h
<1>14. LET on == "iphash" \in h.client[c].flags IN
       /\ Only({"client", "ip", "dead", "misuse"}, h, w) /\ At({"flags"}, h, w, c)
       /\ w.client[c].flags = (h.client[c].flags \ {"iphash"}) \cup {"dead"} /\ w.dead = h.dead \cup {c}
       /\ w.ip = IF on THEN [h.ip EXCEPT ![h.client[c].ip] = Uncounted(@)] ELSE h.ip
       /\ h.misuse = FALSE /\ ~(on /\ h.ip[h.client[c].ip].local = 0) /\ c \notin h.dead => w.misuse = FALSE
  BY <1>12, ExitOneForm DEF Only
<1> HIDE DEF w
<1>15. h.client[c].flags = r.flags \cup {"closing"} /\ h.client[c].ip = r.ip /\ h.ip = s.ip /\ h.dead = s.dead
  BY <1>9, <1>12 DEF Only, At, Fields, Tags
<1>16. Only(Fields \ {"abort", "listener", "ping_cookie"}, s, w) /\ At(Tags \ {"is", "need", "ip", "port"}, s, w, c)
  BY <1>9, <1>12, <1>14 DEF Only, At, Fields, Tags
<1>17. w.client[c].list = "none" /\ w.client[c].auth = NoAuth /\ w.client[c].fd = FALSE /\ w.client[c].confs = {}
  BY <1>9, <1>12, <1>14 DEF At, Tags
<1>18. /\ w.conf = h.conf /\ w.class = h.class /\ w.query = h.query /\ w.fds = g.fds
  BY <1>12, <1>14 DEF Only, Fields
<1>19. w.client[c].flags = (r.flags \ {"iphash"}) \cup {"closing", "dead"}
  BY <1>14, <1>15
<1>20. /\ w.ip = IF "iphash" \in r.flags THEN [s.ip EXCEPT ![r.ip] = Uncounted(@)] ELSE s.ip
       /\ w.dead = s.dead \cup {c}
  BY <1>14, <1>15
<1>21. w.query = {p \in s.query : p.who \notin Dropped(s, c) /\ (r.auth = NoAuth \/ p.who # c)}
  BY <1>10, <1>12, <1>13, <1>18
<1>22. w.conf = [x \in Conf |-> Detached(s, c, x)] /\ w.class = [k \in Class |-> Left(s, c, k)]
  BY <1>12, <1>13, <1>18
<1>23. /\ s.misuse = FALSE /\ r.list = ListOf(r.is) /\ c \notin s.dead
       /\ \A x \in r.confs : s.conf[x].ref # 0 /\ s.class[s.conf[x].class].ref # 0
       /\ "iphash" \in r.flags => s.ip[r.ip].local # 0
       => w.misuse = FALSE
  BY <1>10, <1>12, <1>14, <1>15
<1> QED BY <1>1, <1>10, <1>16, <1>17, <1>18, <1>19, <1>20, <1>21, <1>22, <1>23 DEF Exits

-----------------------------------------------------------------------------
(* How the counts change with one connection. *)

Num(b) == IF b THEN 1 ELSE 0

\* Two subsets of a finite set that differ in one element at most.
LEMMA CardChange ==
  ASSUME NEW S, IsFiniteSet(S), NEW A \in SUBSET S, NEW B \in SUBSET S, NEW c, A \ {c} = B \ {c}
  PROVE  /\ IsFiniteSet(A) /\ IsFiniteSet(B) /\ Cardinality(A) \in Nat /\ Cardinality(B) \in Nat
         /\ Cardinality(B) = Cardinality(A) + Num(c \in B) - Num(c \in A)
<1>1. IsFiniteSet(A) /\ IsFiniteSet(B)
  BY FS_Subset
<1>2. Cardinality(A) \in Nat /\ Cardinality(B) \in Nat
  BY <1>1, FS_CardinalityType
<1>3. Cardinality(A \ {c}) = IF c \in A THEN Cardinality(A) - 1 ELSE Cardinality(A)
  BY <1>1, FS_RemoveElement
<1>4. Cardinality(B \ {c}) = IF c \in B THEN Cardinality(B) - 1 ELSE Cardinality(B)
  BY <1>1, FS_RemoveElement
<1> QED BY <1>1, <1>2, <1>3, <1>4 DEF Num

\* The counts of the blocks stay right when one connection takes or leaves some.
LEMMA ConfRefsChange ==
  ASSUME NEW s, NEW t, NEW c \in Conn, ConfRefs(s), \A d \in Conn \ {c} : t.client[d] = s.client[d],
         \A x \in Conf : t.conf[x].ref = s.conf[x].ref + Num(x \in t.client[c].confs) - Num(x \in s.client[c].confs)
  PROVE  ConfRefs(t)
<1> SUFFICES ASSUME NEW x \in Conf
             PROVE  t.conf[x].ref = Cardinality({d \in Conn : x \in t.client[d].confs})
  BY DEF ConfRefs
<1> DEFINE A == {d \in Conn : x \in s.client[d].confs}
           B == {d \in Conn : x \in t.client[d].confs}
<1>1. A \in SUBSET Conn /\ B \in SUBSET Conn /\ A \ {c} = B \ {c} /\ IsFiniteSet(Conn)
  BY ConnAssumption
<1>2. (c \in A <=> x \in s.client[c].confs) /\ (c \in B <=> x \in t.client[c].confs)
  OBVIOUS
<1>3. s.conf[x].ref = Cardinality(A)
  BY DEF ConfRefs
<1> HIDE DEF A, B
<1>4. Cardinality(B) = Cardinality(A) + Num(c \in B) - Num(c \in A)
  BY <1>1, CardChange
<1>5. t.conf[x].ref = Cardinality(B)
  BY <1>2, <1>3, <1>4 DEF Num
<1> QED BY <1>5 DEF B

\* The count of the listener does when one connection comes or goes.
LEMMA PortRefsChange ==
  ASSUME NEW s, NEW t, NEW c \in Conn, PortRefs(s), \A d \in Conn \ {c} : t.client[d] = s.client[d],
         t.listener.ref = s.listener.ref + Num(t.client[c].port) - Num(s.client[c].port)
  PROVE  PortRefs(t)
<1> DEFINE A == {d \in Conn : s.client[d].port}
           B == {d \in Conn : t.client[d].port}
<1>1. A \in SUBSET Conn /\ B \in SUBSET Conn /\ A \ {c} = B \ {c} /\ IsFiniteSet(Conn)
  BY ConnAssumption
<1>2. (c \in A <=> s.client[c].port) /\ (c \in B <=> t.client[c].port)
  OBVIOUS
<1>3. s.listener.ref = Cardinality(A)
  BY DEF PortRefs
<1> HIDE DEF A, B
<1>4. Cardinality(B) = Cardinality(A) + Num(c \in B) - Num(c \in A)
  BY <1>1, CardChange
<1>5. t.listener.ref = Cardinality(B)
  BY <1>2, <1>3, <1>4 DEF Num
<1> QED BY <1>5 DEF B, PortRefs

Counted(r, p) == "iphash" \in r.flags /\ r.ip = p

\* The counts of the addresses do when one connection is counted, or is not any more.
LEMMA IpRefsChange ==
  ASSUME NEW s, NEW t, NEW c \in Conn, IpRefs(s), \A d \in Conn \ {c} : t.client[d] = s.client[d],
         \A p \in Ip : t.ip[p].local = s.ip[p].local + Num(Counted(t.client[c], p)) - Num(Counted(s.client[c], p))
  PROVE  IpRefs(t)
<1> SUFFICES ASSUME NEW p \in Ip
             PROVE  t.ip[p].local = Cardinality({d \in Conn : Has(t, d, "iphash") /\ t.client[d].ip = p})
  BY DEF IpRefs
<1> DEFINE A == {d \in Conn : Has(s, d, "iphash") /\ s.client[d].ip = p}
           B == {d \in Conn : Has(t, d, "iphash") /\ t.client[d].ip = p}
<1>1. A \in SUBSET Conn /\ B \in SUBSET Conn /\ A \ {c} = B \ {c} /\ IsFiniteSet(Conn)
  BY ConnAssumption DEF Has
<1>2. (c \in A <=> Counted(s.client[c], p)) /\ (c \in B <=> Counted(t.client[c], p))
  BY DEF Counted, Has
<1>3. s.ip[p].local = Cardinality(A)
  BY DEF IpRefs
<1> HIDE DEF A, B
<1>4. Cardinality(B) = Cardinality(A) + Num(c \in B) - Num(c \in A)
  BY <1>1, CardChange
<1>5. t.ip[p].local = Cardinality(B)
  BY <1>2, <1>3, <1>4 DEF Num
<1> QED BY <1>5 DEF B

Asking(r) == r.auth.ident \in {"connect", "read"}

\* The descriptors are still those in use when a connection, its ident query or the listener opens or closes.
LEMMA FdRefsChange ==
  ASSUME NEW s, NEW t, NEW c \in Conn, FdRefs(s), \A d \in Conn \ {c} : t.client[d] = s.client[d],
         t.fds = s.fds + Num(t.client[c].fd) - Num(s.client[c].fd) + Num(Asking(t.client[c])) - Num(Asking(s.client[c]))
                 + Num(t.listener.is = "open") - Num(s.listener.is = "open")
  PROVE  FdRefs(t)
<1> DEFINE A == {d \in Conn : s.client[d].fd}
           B == {d \in Conn : t.client[d].fd}
           I == Idents(s)
           J == Idents(t)
<1>1. A \in SUBSET Conn /\ B \in SUBSET Conn /\ A \ {c} = B \ {c} /\ IsFiniteSet(Conn)
  BY ConnAssumption
<1>2. I \in SUBSET Conn /\ J \in SUBSET Conn /\ I \ {c} = J \ {c}
  BY DEF Idents
<1>3. /\ (c \in A <=> s.client[c].fd) /\ (c \in B <=> t.client[c].fd)
      /\ (c \in I <=> Asking(s.client[c])) /\ (c \in J <=> Asking(t.client[c]))
  BY DEF Idents, Asking
<1>4. s.fds = Cardinality(A) + Cardinality(I) + Num(s.listener.is = "open")
  BY DEF FdRefs, Num
<1> HIDE DEF A, B, I, J
<1>5. Cardinality(B) = Cardinality(A) + Num(c \in B) - Num(c \in A) /\ Cardinality(A) \in Nat
      /\ Cardinality(B) \in Nat
  BY <1>1, CardChange
<1>6. Cardinality(J) = Cardinality(I) + Num(c \in J) - Num(c \in I) /\ Cardinality(I) \in Nat
      /\ Cardinality(J) \in Nat
  BY <1>1, <1>2, CardChange
<1>7. t.fds = Cardinality(B) + Cardinality(J) + Num(t.listener.is = "open")
  BY <1>3, <1>4, <1>5, <1>6 DEF Num
<1> QED BY <1>7 DEF B, J, FdRefs, Num

Pairs(s, k) == {r \in Conn \X Conf : r[2] \in s.client[r[1]].confs /\ s.conf[r[2]].class = k}

\* A connection is in as many pairs as it has blocks.
LEMMA PairsOfOne ==
  ASSUME NEW c, NEW X \in SUBSET Conf
  PROVE  LET P == {<<c, x>> : x \in X} IN
         /\ IsFiniteSet(P) /\ IsFiniteSet(X) /\ Cardinality(P) = Cardinality(X) /\ Cardinality(X) \in Nat
<1> DEFINE P == {<<c, x>> : x \in X}
<1>1. IsFiniteSet(X)
  BY ConnAssumption, FS_Subset
<1>2. P = {c} \X X
  OBVIOUS
<1>3. IsFiniteSet({c}) /\ Cardinality({c}) = 1
  BY FS_Singleton
<1>4. IsFiniteSet(P) /\ Cardinality(P) = 1 * Cardinality(X) /\ Cardinality(X) \in Nat
  BY <1>1, <1>2, <1>3, FS_Product, FS_CardinalityType
<1> QED BY <1>1, <1>4

\* The counts of the classes stay right when one connection takes or leaves blocks, and the blocks
\* of the others keep their class.
LEMMA ClassRefsChange ==
  ASSUME NEW s, NEW t, NEW c \in Conn, ClassRefs(s), \A d \in Conn \ {c} : t.client[d] = s.client[d],
         s.client[c].confs \subseteq Conf, t.client[c].confs \subseteq Conf,
         \A x \in Conf, d \in Conn \ {c} : x \in s.client[d].confs => t.conf[x].class = s.conf[x].class,
         \A k \in Class : t.class[k].ref = s.class[k].ref + Cardinality(Uses(t, c, k)) - Cardinality(Uses(s, c, k))
  PROVE  ClassRefs(t)
<1> SUFFICES ASSUME NEW k \in Class
             PROVE  t.class[k].ref = Cardinality(Pairs(t, k))
  BY DEF ClassRefs, Pairs
<1> DEFINE O == {r \in Pairs(s, k) : r[1] # c}
           PS == {<<c, x>> : x \in Uses(s, c, k)}
           PT == {<<c, x>> : x \in Uses(t, c, k)}
<1>1. IsFiniteSet(Conn \X Conf)
  BY ConnAssumption, FS_Product
<1>2. IsFiniteSet(O) /\ Cardinality(O) \in Nat
  BY <1>1, FS_Subset, FS_CardinalityType DEF Pairs
<1>3. Pairs(s, k) = O \cup PS /\ O \cap PS = {}
  BY DEF Pairs, Uses
<1>4. Pairs(t, k) = O \cup PT /\ O \cap PT = {}
  BY DEF Pairs, Uses
<1>5. /\ IsFiniteSet(PS) /\ Cardinality(PS) = Cardinality(Uses(s, c, k)) /\ Cardinality(Uses(s, c, k)) \in Nat
      /\ IsFiniteSet(PT) /\ Cardinality(PT) = Cardinality(Uses(t, c, k)) /\ Cardinality(Uses(t, c, k)) \in Nat
  <2>1. Uses(s, c, k) \in SUBSET Conf /\ Uses(t, c, k) \in SUBSET Conf
    BY DEF Uses
  <2> QED BY <2>1, PairsOfOne
<1> HIDE DEF O, PS, PT
<1>6. Cardinality(O \cap PS) = 0 /\ Cardinality(O \cap PT) = 0
  BY <1>3, <1>4, FS_EmptySet
<1>7. Cardinality(Pairs(s, k)) = Cardinality(O) + Cardinality(Uses(s, c, k))
  <2>1. Cardinality(O \cup PS) = Cardinality(O) + Cardinality(PS) - Cardinality(O \cap PS)
    BY <1>2, <1>5, FS_Union
  <2> QED BY <2>1, <1>2, <1>3, <1>5, <1>6
<1>8. Cardinality(Pairs(t, k)) = Cardinality(O) + Cardinality(Uses(t, c, k))
  <2>1. Cardinality(O \cup PT) = Cardinality(O) + Cardinality(PT) - Cardinality(O \cap PT)
    BY <1>2, <1>5, FS_Union
  <2> QED BY <2>1, <1>2, <1>4, <1>5, <1>6
<1>9. s.class[k].ref = Cardinality(Pairs(s, k))
  BY DEF ClassRefs, Pairs
<1> QED BY <1>2, <1>5, <1>7, <1>8, <1>9

-----------------------------------------------------------------------------
(* What the types and the counts of a good state give. *)

\* What the types and the counts of a good state give.
LEMMA Typed ==
  ASSUME NEW s \in State
  PROVE  /\ s.client \in [Conn -> Client] /\ s.abort \in Seq(Conn) /\ s.dead \in SUBSET Conn
         /\ s.query \in SUBSET Request
         /\ s.conf \in [Conf -> MaskItem] /\ s.class \in [Class -> ClassItem] /\ s.listener \in Listener
         /\ s.ip \in [Ip -> IpEntry] /\ s.fds \in Int /\ s.ping_cookie \in BOOLEAN /\ s.misuse \in BOOLEAN
  BY DEF State

\* The converse: a formed record with those fields is a state.
LEMMA StateOf ==
  ASSUME NEW s, Formed(s), s.client \in [Conn -> Client], s.abort \in Seq(Conn), s.dead \in SUBSET Conn,
         s.query \in SUBSET Request,
         s.conf \in [Conf -> MaskItem], s.class \in [Class -> ClassItem], s.listener \in Listener,
         s.ip \in [Ip -> IpEntry], s.fds \in Int, s.ping_cookie \in BOOLEAN, s.misuse \in BOOLEAN
  PROVE  s \in State
  BY DEF State, Formed, Fields

\* The types of the tags of a connection.
LEMMA ClientTyped ==
  ASSUME NEW r \in Client
  PROVE  /\ r.is \in {"none", "unknown", "connecting", "handshake", "client", "server"}
         /\ r.list \in {"none", "unknown", "client", "server"}
         /\ r.flags \in SUBSET Flags /\ r.need \in SUBSET {"nick", "user", "cap"}
         /\ r.auth \in Lookup \cup {NoAuth} /\ r.fd \in BOOLEAN /\ r.confs \in SUBSET Conf /\ r.ip \in Ip
         /\ r.port \in BOOLEAN
         /\ Tagged(r)
  BY DEF Client, Tagged, Tags

\* The converse.
LEMMA ClientOf ==
  ASSUME NEW r, Tagged(r), r.is \in {"none", "unknown", "connecting", "handshake", "client", "server"},
         r.list \in {"none", "unknown", "client", "server"},
         r.flags \in SUBSET Flags, r.need \in SUBSET {"nick", "user", "cap"},
         r.auth \in Lookup \cup {NoAuth}, r.fd \in BOOLEAN, r.confs \in SUBSET Conf, r.ip \in Ip, r.port \in BOOLEAN
  PROVE  r \in Client
  BY DEF Client, Tagged, Tags

\* A table of connections stays one when one of them is replaced.
LEMMA ClientsOf ==
  ASSUME NEW s, s.client \in [Conn -> Client], NEW t, Formed(t), NEW c \in Conn,
         \A d \in Conn \ {c} : t.client[d] = s.client[d],
         t.client[c] \in Client
  PROVE  t.client \in [Conn -> Client]
  BY DEF Formed

\* The cardinality of a part of a finite set is a number, and zero only of the empty set.
LEMMA Some ==
  ASSUME NEW S, IsFiniteSet(S), NEW T \in SUBSET S
  PROVE  Cardinality(T) \in Nat /\ (Cardinality(T) = 0 <=> T = {})
  BY FS_Subset, FS_EmptySet, FS_CardinalityType

\* What is referred to has a count above zero, since the counts are right.
LEMMA Counts ==
  ASSUME NEW s, Refs(s)
  PROVE  /\ \A x \in Conf : s.conf[x].ref \in Nat /\ \A c \in Conn : x \in s.client[c].confs => s.conf[x].ref > 0
         /\ \A k \in Class : s.class[k].ref \in Nat
         /\ \A c \in Conn : \A x \in s.client[c].confs \cap Conf : s.conf[x].class \in Class => s.class[s.conf[x].class].ref > 0
         /\ s.listener.ref \in Nat /\ \A c \in Conn : s.client[c].port => s.listener.ref > 0
         /\ \A p \in Ip : s.ip[p].local \in Nat
         /\ \A c \in Conn : "iphash" \in s.client[c].flags /\ s.client[c].ip \in Ip => s.ip[s.client[c].ip].local > 0
         /\ s.fds \in Int
<1>1. IsFiniteSet(Conn) /\ IsFiniteSet(Conn \X Conf)
  BY ConnAssumption, FS_Product
<1>2. ASSUME NEW x \in Conf PROVE s.conf[x].ref \in Nat /\ \A c \in Conn : x \in s.client[c].confs => s.conf[x].ref > 0
  <2> DEFINE A == {c \in Conn : x \in s.client[c].confs}
  <2>1. s.conf[x].ref = Cardinality(A)
    BY DEF Refs, ConfRefs
  <2>2. Cardinality(A) \in Nat /\ (Cardinality(A) = 0 <=> A = {})
    BY <1>1, Some
  <2>3. \A c \in Conn : x \in s.client[c].confs => A # {}
    OBVIOUS
  <2> HIDE DEF A
  <2> QED BY <2>1, <2>2, <2>3
<1>3. ASSUME NEW k \in Class PROVE s.class[k].ref = Cardinality(Pairs(s, k)) /\ Cardinality(Pairs(s, k)) \in Nat
                                   /\ (Cardinality(Pairs(s, k)) = 0 <=> Pairs(s, k) = {})
  <2>1. Pairs(s, k) \in SUBSET (Conn \X Conf)
    BY DEF Pairs
  <2>2. s.class[k].ref = Cardinality(Pairs(s, k))
    BY DEF Pairs, Refs, ClassRefs
  <2> QED BY <1>1, <2>1, <2>2, Some
<1>4. ASSUME NEW c \in Conn, NEW x \in s.client[c].confs \cap Conf,
             s.conf[x].class \in Class PROVE s.class[s.conf[x].class].ref > 0
  <2>1. <<c, x>> \in Pairs(s, s.conf[x].class)
    BY DEF Pairs
  <2> QED BY <1>3, <1>4, <2>1
<1>5. s.listener.ref \in Nat /\ \A c \in Conn : s.client[c].port => s.listener.ref > 0
  <2> DEFINE A == {c \in Conn : s.client[c].port}
  <2>1. s.listener.ref = Cardinality(A)
    BY DEF Refs, PortRefs
  <2>2. Cardinality(A) \in Nat /\ (Cardinality(A) = 0 <=> A = {})
    BY <1>1, Some
  <2>3. \A c \in Conn : s.client[c].port => A # {}
    OBVIOUS
  <2> HIDE DEF A
  <2> QED BY <2>1, <2>2, <2>3
<1>6. ASSUME NEW p \in Ip
      PROVE  s.ip[p].local \in Nat /\ \A c \in Conn : "iphash" \in s.client[c].flags /\ s.client[c].ip = p => s.ip[p].local > 0
  <2> DEFINE A == {c \in Conn : Has(s, c, "iphash") /\ s.client[c].ip = p}
  <2>1. s.ip[p].local = Cardinality(A)
    BY DEF Refs, IpRefs
  <2>2. Cardinality(A) \in Nat /\ (Cardinality(A) = 0 <=> A = {})
    BY <1>1, Some
  <2>3. \A c \in Conn : "iphash" \in s.client[c].flags /\ s.client[c].ip = p => A # {}
    BY DEF Has
  <2> HIDE DEF A
  <2> QED BY <2>1, <2>2, <2>3
<1>7. s.fds \in Int
  <2>1. Cardinality({c \in Conn : s.client[c].fd}) \in Nat
    BY <1>1, Some
  <2>2. Cardinality(Idents(s)) \in Nat
    BY <1>1, Some DEF Idents
  <2> QED BY <2>1, <2>2 DEF Refs, FdRefs
<1> QED BY <1>2, <1>3, <1>4, <1>5, <1>6, <1>7

\* Limits hold on when nobody is admitted.
LEMMA LimitsShrink ==
  ASSUME NEW s, NEW t, Limits(s), t.fds <= FdLimit, 
         \A d \in Conn : d \in Admitted(t) =>
           /\ d \in Admitted(s) /\ t.client[d].confs = s.client[d].confs /\ t.client[d].ip = s.client[d].ip
           /\ \A x \in t.client[d].confs \cap Auth : t.conf[x].class = s.conf[x].class
  PROVE  Limits(t)
<1> DEFINE Of(u, k) == {c \in Admitted(u) : \E x \in u.client[c].confs \cap Auth : u.conf[x].class = k}
           From(u, p) == {c \in Admitted(u) : u.client[c].ip = p}
<1>1. IsFiniteSet(Conn) /\ MaxTotal \in Nat /\ PerIp \in Nat
  BY ConnAssumption
<1>2. ASSUME NEW k \in Class PROVE Cardinality(Of(t, k)) <= MaxTotal
  <2>1. Of(t, k) \in SUBSET Of(s, k) /\ Of(s, k) \in SUBSET Conn
    BY DEF Admitted
  <2>2. Cardinality(Of(s, k)) <= MaxTotal
    BY DEF Limits
  <2> HIDE DEF Of
  <2>3. IsFiniteSet(Of(s, k)) /\ IsFiniteSet(Of(t, k))
    BY <1>1, <2>1, FS_Subset
  <2>4. Cardinality(Of(t, k)) <= Cardinality(Of(s, k))
    BY <2>1, <2>3, FS_Subset
  <2>5. Cardinality(Of(t, k)) \in Nat /\ Cardinality(Of(s, k)) \in Nat
    BY <2>3, FS_CardinalityType
  <2> QED BY <1>1, <2>2, <2>4, <2>5
<1>3. ASSUME NEW p \in Ip PROVE Cardinality(From(t, p)) <= PerIp
  <2>1. From(t, p) \in SUBSET From(s, p) /\ From(s, p) \in SUBSET Conn
    BY DEF Admitted
  <2>2. Cardinality(From(s, p)) <= PerIp
    BY DEF Limits
  <2> HIDE DEF From
  <2>3. IsFiniteSet(From(s, p)) /\ IsFiniteSet(From(t, p))
    BY <1>1, <2>1, FS_Subset
  <2>4. Cardinality(From(t, p)) <= Cardinality(From(s, p))
    BY <2>1, <2>3, FS_Subset
  <2>5. Cardinality(From(t, p)) \in Nat /\ Cardinality(From(s, p)) \in Nat
    BY <2>3, FS_CardinalityType
  <2> QED BY <1>1, <2>2, <2>4, <2>5
<1> QED BY <1>2, <1>3 DEF Limits

\* What is known of a connection depends on it, and on the lists and lookups it is in.
LEMMA SameClient ==
  ASSUME NEW s, NEW t, NEW E, NEW d, GoodClient(s, E, d), t.client[d] = s.client[d],
         d \in t.dead <=> d \in s.dead, OnAbort(t, d) <=> OnAbort(s, d), Asked(t, d) = Asked(s, d)
  PROVE  GoodClient(t, E, d)
  BY DEF GoodClient, Absent, Closed, Live, Settled, Has

-----------------------------------------------------------------------------
(* An exit leaves a good state. *)

\* What stays of a connection whatever happens to the others.
Spared(s, t, c) == /\ \A d \in Conn \ {c} : t.client[d] = s.client[d]
                   /\ t.client[c].is = s.client[c].is
                   /\ "closing" \in s.client[c].flags => t.client[c] = s.client[c]

\* An exit leaves every count right.
LEMMA ExitRefs ==
  ASSUME NEW s \in State, Refs(s), NEW c \in Conn, NEW t, Exits(s, c, t), s.client[c].fd = TRUE
  PROVE  Refs(t)
<1> DEFINE r == s.client[c]
<1>1. r \in Client /\ s.conf \in [Conf -> MaskItem] /\ s.class \in [Class -> ClassItem]
      /\ s.ip \in [Ip -> IpEntry] /\ s.fds \in Int
  BY Typed
<1>2. r.confs \in SUBSET Conf /\ r.ip \in Ip /\ r.auth \in Lookup \cup {NoAuth}
  BY <1>1, ClientTyped
<1>3. /\ \A x \in Conf : s.conf[x].ref \in Nat /\ (x \in r.confs => s.conf[x].ref > 0)
      /\ \A k \in Class : s.class[k].ref \in Nat
      /\ \A p \in Ip : s.ip[p].local \in Nat
  BY Counts
<1>4. \A d \in Conn \ {c} : t.client[d] = s.client[d]
  BY DEF Exits, At
<1>5. t.client[c].confs = {} /\ t.client[c].fd = FALSE /\ t.client[c].auth = NoAuth
      /\ "iphash" \notin t.client[c].flags
  BY DEF Exits
<1>6. ConfRefs(t)
  <2>1. ASSUME NEW x \in Conf PROVE t.conf[x].ref = s.conf[x].ref + Num(x \in t.client[c].confs) - Num(x \in r.confs)
    <3>1. t.conf[x] = Detached(s, c, x)
      BY DEF Exits
    <3>2. CASE x \in Dropped(s, c)
      <4>1. t.conf[x].ref = 0 /\ s.conf[x].ref = 1 /\ x \in r.confs
        BY <3>1, <3>2 DEF Detached, Dropped, NoConf
      <4> QED BY <4>1, <1>5 DEF Num
    <3>3. CASE x \notin Dropped(s, c) /\ x \in r.confs
      <4>1. t.conf[x].ref = s.conf[x].ref - 1
        BY <1>1, <3>1, <3>3 DEF Detached, MaskItem
      <4> QED BY <4>1, <3>3, <1>3, <1>5 DEF Num
    <3>4. CASE x \notin Dropped(s, c) /\ x \notin r.confs
      BY <3>1, <3>4, <1>3, <1>5 DEF Num, Detached
    <3> QED BY <3>2, <3>3, <3>4
  <2> QED BY <1>4, <2>1, ConfRefsChange DEF Refs
<1>7. ClassRefs(t)
  <2>1. ASSUME NEW x \in Conf, NEW d \in Conn \ {c}, x \in s.client[d].confs PROVE t.conf[x].class = s.conf[x].class
    <3>1. x \notin Dropped(s, c)
      <4> SUFFICES ASSUME x \in Dropped(s, c) PROVE FALSE
        OBVIOUS
      <4> DEFINE A == {e \in Conn : x \in s.client[e].confs}
      <4>1. s.conf[x].ref = Cardinality(A) /\ s.conf[x].ref = 1 /\ c \in A /\ d \in A /\ c # d
        BY <2>1 DEF Refs, ConfRefs, Dropped
      <4>2. IsFiniteSet(A)
        BY ConnAssumption, FS_Subset
      <4>3. PICK e : A = {e}
        <5> HIDE DEF A
        <5> QED BY <4>1, <4>2, FS_Singleton
      <4> QED BY <4>1, <4>3
    <3>2. t.conf[x] = Detached(s, c, x)
      BY DEF Exits
    <3> QED BY <1>1, <3>1, <3>2 DEF Detached, MaskItem
  <2>2. ASSUME NEW k \in Class
        PROVE  t.class[k].ref = s.class[k].ref + Cardinality(Uses(t, c, k)) - Cardinality(Uses(s, c, k))
    <3>1. Uses(t, c, k) = {}
      BY <1>5 DEF Uses
    <3>2. Cardinality(Uses(t, c, k)) = 0
      BY <3>1, FS_EmptySet
    <3>3. IsFiniteSet(Conf) /\ Uses(s, c, k) \in SUBSET Conf
      BY <1>2, ConnAssumption DEF Uses
    <3>4. Cardinality(Uses(s, c, k)) \in Nat
      BY <3>3, Some
    <3>5. t.class[k] = Left(s, c, k)
      BY DEF Exits
    <3>6. Left(s, c, k).ref = s.class[k].ref - Cardinality(Uses(s, c, k))
      BY <1>1, <1>3, <3>4, <3>5 DEF Left, Freed, ClassItem
    <3> QED BY <1>3, <3>2, <3>4, <3>5, <3>6
  <2> QED BY <1>2, <1>4, <1>5, <2>1, <2>2, ClassRefsChange DEF Refs
<1>8. PortRefs(t)
  <2>1. t.listener = s.listener /\ t.client[c].port = r.port
    BY DEF Exits, Only, At, Fields, Tags
  <2>2. s.listener.ref \in Nat
    BY Counts
  <2>3. t.listener.ref = s.listener.ref + Num(t.client[c].port) - Num(s.client[c].port)
    BY <2>1, <2>2 DEF Num
  <2> QED BY <1>4, <2>3, PortRefsChange DEF Refs
<1>9. IpRefs(t)
  <2>1. ASSUME NEW p \in Ip PROVE t.ip[p].local = s.ip[p].local + Num(Counted(t.client[c], p)) - Num(Counted(r, p))
    <3>1. ~Counted(t.client[c], p)
      BY <1>5 DEF Counted
    <3>2. CASE "iphash" \in r.flags /\ p = r.ip
      <4>1. t.ip[p] = Uncounted(s.ip[p]) /\ Counted(r, p)
        BY <1>1, <3>2 DEF Exits, Counted
      <4>2. Uncounted(s.ip[p]).local = s.ip[p].local - 1
        BY <1>1, <1>3 DEF Uncounted, ipcache_record_delete, IpEntry, NoEntry
      <4> QED BY <1>3, <3>1, <4>1, <4>2 DEF Num
    <3>3. CASE ~ ("iphash" \in r.flags /\ p = r.ip)
      <4>1. t.ip[p] = s.ip[p] /\ ~Counted(r, p)
        BY <1>1, <3>3 DEF Exits, Counted
      <4> QED BY <1>3, <3>1, <4>1 DEF Num
    <3> QED BY <3>2, <3>3
  <2> QED BY <1>4, <2>1, IpRefsChange DEF Refs
<1>10. FdRefs(t)
  <2>1. t.listener = s.listener /\ ~Asking(t.client[c])
    BY <1>5 DEF Exits, Only, Fields, Asking, NoAuth
  <2>2. t.fds = s.fds - 1 - Num(Asking(r))
    BY <1>1 DEF Exits, Asking, Num
  <2>3. t.fds = s.fds + Num(t.client[c].fd) - Num(r.fd) + Num(Asking(t.client[c])) - Num(Asking(r))
                 + Num(t.listener.is = "open") - Num(s.listener.is = "open")
    BY <1>1, <1>5, <2>1, <2>2 DEF Num
  <2> QED BY <1>4, <2>3, FdRefsChange DEF Refs
<1> QED BY <1>6, <1>7, <1>8, <1>9, <1>10 DEF Refs

\* An exit leaves a state of the type.
LEMMA ExitTyped ==
  ASSUME NEW s \in State, NEW c \in Conn, NEW t, Exits(s, c, t), t.misuse = FALSE, Refs(t)
  PROVE  t \in State
<1> DEFINE r == s.client[c]
<1>1. r \in Client /\ s.conf \in [Conf -> MaskItem] /\ s.class \in [Class -> ClassItem]
      /\ s.ip \in [Ip -> IpEntry] /\ s.fds \in Int
      /\ s.dead \in SUBSET Conn /\ s.query \in SUBSET Request /\ s.client \in [Conn -> Client]
  BY Typed
<1>2. Formed(t) /\ t.abort = s.abort /\ t.listener = s.listener /\ t.ping_cookie = s.ping_cookie
  BY DEF Exits, Only, Fields
<1>3. \A d \in Conn \ {c} : t.client[d] = s.client[d]
  BY DEF Exits, At
<1>4. t.client[c] \in Client
  <2>1. t.client[c].is = r.is /\ t.client[c].need = r.need /\ t.client[c].ip = r.ip /\ t.client[c].port = r.port
    BY DEF Exits, At, Tags
  <2>2. Tagged(t.client[c])
    BY <1>2 DEF Formed
  <2>3. /\ r.is \in {"none", "unknown", "connecting", "handshake", "client", "server"}
        /\ r.flags \in SUBSET Flags /\ r.need \in SUBSET {"nick", "user", "cap"} /\ r.ip \in Ip /\ r.port \in BOOLEAN
    BY <1>1, ClientTyped
  <2>4. t.client[c].list = "none" /\ t.client[c].flags \in SUBSET Flags /\ t.client[c].auth = NoAuth
        /\ t.client[c].fd = FALSE /\ t.client[c].confs = {}
    BY <2>3 DEF Exits, Flags
  <2> QED BY <2>1, <2>2, <2>3, <2>4, ClientOf
<1>5. t.client \in [Conn -> Client]
  BY <1>1, <1>2, <1>3, <1>4, ClientsOf
<1>6. t.dead \in SUBSET Conn /\ t.query \in SUBSET Request
  BY <1>1 DEF Exits
<1>7. t.fds \in Int
  BY <1>1 DEF Exits
<1>8. /\ \A x \in Conf : t.conf[x].ref \in Nat
      /\ \A k \in Class : t.class[k].ref \in Nat
      /\ \A p \in Ip : t.ip[p].local \in Nat
  BY Counts
<1>9. t.conf \in [Conf -> MaskItem]
  <2>1. t.conf = [x \in Conf |-> Detached(s, c, x)]
    BY DEF Exits
  <2>2. ASSUME NEW x \in Conf PROVE Detached(s, c, x) \in MaskItem
    <3>1. s.conf[x] \in MaskItem /\ Detached(s, c, x).ref \in Nat
      BY <1>1, <1>8, <2>1
    <3>2. NoConf \in MaskItem
      BY ConnAssumption DEF NoConf, MaskItem
    <3>3. [s.conf[x] EXCEPT !.ref = @ - 1] \in MaskItem \/ [s.conf[x] EXCEPT !.ref = @ - 1].ref \notin Nat
      BY <3>1 DEF MaskItem
    <3> QED BY <3>1, <3>2, <3>3 DEF Detached
  <2> QED BY <2>1, <2>2
<1>10. t.class \in [Class -> ClassItem]
  <2>1. t.class = [k \in Class |-> Left(s, c, k)]
    BY DEF Exits
  <2>2. ASSUME NEW k \in Class PROVE Left(s, c, k) \in ClassItem
    <3>1. s.class[k] \in ClassItem /\ Left(s, c, k).ref \in Nat
      BY <1>1, <1>8, <2>1
    <3> QED BY <3>1 DEF Left, Freed, ClassItem
  <2> QED BY <2>1, <2>2
<1>11. t.ip \in [Ip -> IpEntry]
  <2>1. CASE "iphash" \in r.flags
    <3>1. t.ip = [s.ip EXCEPT ![r.ip] = Uncounted(s.ip[r.ip])] /\ r.ip \in Ip
      BY <1>1, <2>1, ClientTyped DEF Exits
    <3>2. t.ip[r.ip].local \in Nat /\ t.ip[r.ip] = Uncounted(s.ip[r.ip]) /\ s.ip[r.ip] \in IpEntry
      BY <1>1, <1>8, <3>1
    <3>3. Uncounted(s.ip[r.ip]) \in IpEntry
      BY <3>2 DEF Uncounted, ipcache_record_delete, IpEntry, NoEntry
    <3> QED BY <1>1, <3>1, <3>3
  <2>2. CASE "iphash" \notin r.flags
    BY <1>1, <2>2 DEF Exits
  <2> QED BY <2>1, <2>2
<1>12. s.abort \in Seq(Conn) /\ s.listener \in Listener /\ s.ping_cookie \in BOOLEAN
  BY Typed
<1> QED BY <1>2, <1>5, <1>6, <1>7, <1>9, <1>10, <1>11, <1>12, StateOf

\* An exit leaves blocks and classes fit: what is still used or valid is there.
LEMMA ExitBlocks ==
  ASSUME NEW s \in State, Refs(s), Blocks(s), NEW c \in Conn, NEW t, Exits(s, c, t), t \in State, Refs(t)
  PROVE  Blocks(t)
<1> DEFINE r == s.client[c]
<1>1. r \in Client /\ s.conf \in [Conf -> MaskItem] /\ s.class \in [Class -> ClassItem]
      /\ t.conf \in [Conf -> MaskItem]
  BY Typed
<1>2. r.confs \in SUBSET Conf
  BY <1>1, ClientTyped
<1>3. \A x \in Conf : s.conf[x].ref \in Nat /\ (x \in r.confs => s.conf[x].ref > 0) /\ t.conf[x].ref \in Nat
  BY Counts
<1>4. ASSUME NEW k \in Class
      PROVE  /\ s.class[k].is = "on" => t.class[k].is = "on"
             /\ t.class[k].ref # 0 => t.class[k].is = s.class[k].is
  <2>1. t.class[k] = Left(s, c, k)
    BY DEF Exits
  <2> QED BY <1>1, <2>1 DEF Left, Freed, ClassItem
<1>5. ASSUME NEW x \in Conf, t.conf[x].is # "none"
      PROVE  /\ t.conf[x].is = s.conf[x].is /\ t.conf[x].class = s.conf[x].class /\ x \notin Dropped(s, c)
             /\ t.conf[x].ref = IF x \in r.confs THEN s.conf[x].ref - 1 ELSE s.conf[x].ref
  <2>1. t.conf[x] = Detached(s, c, x)
    BY DEF Exits
  <2>2. x \notin Dropped(s, c)
    BY <1>5, <2>1 DEF Detached, NoConf
  <2> QED BY <1>1, <2>1, <2>2 DEF Detached, MaskItem
<1>6. ASSUME NEW x \in Conf,
             t.conf[x].is = "none" PROVE t.conf[x].ref = 0 /\ (x \notin Dropped(s, c) => s.conf[x].is = "none")
  <2>1. t.conf[x] = Detached(s, c, x)
    BY DEF Exits
  <2>2. CASE x \in Dropped(s, c)
    BY <2>1, <2>2 DEF Detached, NoConf
  <2>3. CASE x \notin Dropped(s, c)
    <3>1. s.conf[x].is = "none"
      BY <1>1, <1>6, <2>1, <2>3 DEF Detached, MaskItem
    <3>2. s.conf[x].ref = 0
      BY <3>1 DEF Blocks
    <3>3. x \notin r.confs
      BY <1>3, <3>2
    <3> QED BY <2>1, <2>3, <3>1, <3>2, <3>3 DEF Detached
  <2> QED BY <2>2, <2>3
<1>7. ASSUME NEW x \in Conf, t.conf[x].is = "off" PROVE t.conf[x].ref > 0
  <2>1. s.conf[x].is = "off" /\ s.conf[x].ref > 0 /\ x \notin Dropped(s, c)
        /\ t.conf[x].ref = IF x \in r.confs THEN s.conf[x].ref - 1 ELSE s.conf[x].ref
    BY <1>5, <1>7 DEF Blocks
  <2> QED BY <1>3, <2>1 DEF Dropped
<1>8. ASSUME NEW x \in Conf, t.conf[x].is = "on" PROVE t.class[t.conf[x].class].is = "on"
  <2>1. s.conf[x].is = "on" /\ t.conf[x].class = s.conf[x].class
    BY <1>5, <1>8
  <2>2. s.class[s.conf[x].class].is = "on"
    BY <2>1 DEF Blocks
  <2>3. s.conf[x].class \in Class
    BY <1>1 DEF MaskItem
  <2> QED BY <1>4, <2>1, <2>2, <2>3
<1>9. ASSUME NEW x \in Conf, t.conf[x].is # "none" PROVE t.class[t.conf[x].class].is # "none"
  <2>1. CASE t.conf[x].is = "on"
    BY <1>8, <2>1
  <2>2. CASE t.conf[x].is = "off"
    <3>1. t.conf[x].ref > 0 /\ t.conf[x].class \in Class
      BY <1>1, <1>7, <2>2 DEF MaskItem
    <3>2. PICK d \in Conn : x \in t.client[d].confs
      <4> DEFINE A == {d \in Conn : x \in t.client[d].confs}
      <4>1. t.conf[x].ref = Cardinality(A)
        BY DEF Refs, ConfRefs
      <4>2. A # {}
        <5> HIDE DEF A
        <5> QED BY <3>1, <4>1, FS_EmptySet
      <4> QED BY <4>2
    <3>3. t.class[t.conf[x].class].ref > 0
      BY <3>1, <3>2, Counts
    <3>4. t.class[t.conf[x].class].is = s.class[s.conf[x].class].is
      <4>1. t.conf[x].class = s.conf[x].class
        BY <1>5, <1>9
      <4>2. t.class[t.conf[x].class].ref # 0
        BY <3>3
      <4> QED BY <1>4, <3>1, <4>1, <4>2
    <3>5. s.conf[x].is # "none"
      BY <1>5, <1>9
    <3> QED BY <3>4, <3>5 DEF Blocks
  <2> QED BY <1>1, <1>9, <2>1, <2>2 DEF MaskItem
<1>10. ASSUME NEW q \in t.query, q.who \in Connect PROVE t.conf[q.who].is # "none"
  <2>1. q \in s.query /\ q.who \notin Dropped(s, c) /\ q.who \in Conf
    BY <1>10 DEF Exits, Conf
  <2>2. s.conf[q.who].is # "none"
    BY <1>10, <2>1 DEF Blocks
  <2> QED BY <1>6, <2>1, <2>2
<1>11. t.listener = s.listener
  BY DEF Exits, Only, Fields
<1>12. t.class[Default].is = "on"
  BY <1>4, ConnAssumption DEF Blocks
<1>13. t.listener.is = "none" => t.listener.ref = 0
  BY <1>11 DEF Blocks
<1> QED BY <1>6, <1>7, <1>8, <1>9, <1>10, <1>12, <1>13 DEF Blocks

\* A state that is good but for E is so but for any larger set.
LEMMA GoodMore ==
  ASSUME NEW s, NEW E, GoodBut(s, E), NEW F, E \subseteq F
  PROVE  GoodBut(s, F)
  BY DEF GoodBut, GoodClient

\* A connection that is open, and what it holds.
LEMMA LiveClient ==
  ASSUME NEW s, NEW E, GoodBut(s, E), NEW c \in Conn, s.client[c].is # "none", "closing" \notin s.client[c].flags
  PROVE  /\ Live(s, c) /\ s.client[c].fd = TRUE /\ s.client[c].list = ListOf(s.client[c].is) /\ c \notin s.dead
         /\ s \in State /\ Formed(s) /\ s.client[c] \in Client
<1>1. GoodClient(s, E, c) /\ s \in State
  BY DEF GoodBut
<1>2. Live(s, c)
  BY <1>1 DEF GoodClient, Has
<1>3. Formed(s) /\ s.client[c] \in Client
  BY <1>1, StateFormed, Typed
<1>4. s.client[c].fd \in BOOLEAN
  BY <1>3, ClientTyped
<1> QED BY <1>1, <1>2, <1>3, <1>4 DEF Live

\* An exit admits nobody.
LEMMA ExitLimits ==
  ASSUME NEW s \in State, Limits(s), Refs(s), NEW c \in Conn, NEW t, Exits(s, c, t)
  PROVE  Limits(t)
<1>1. s.conf \in [Conf -> MaskItem] /\ s.fds \in Int /\ FdLimit \in Nat
  BY Typed, ConnAssumption
<1>2. t.fds <= FdLimit
  BY <1>1 DEF Exits, Limits
<1>3. ASSUME NEW d \in Conn, d \in Admitted(t) 
      PROVE  /\ d \in Admitted(s) /\ t.client[d].confs = s.client[d].confs /\ t.client[d].ip = s.client[d].ip
             /\ \A x \in t.client[d].confs \cap Auth : t.conf[x].class = s.conf[x].class
  <2>1. d # c /\ t.client[d] = s.client[d]
    BY <1>3 DEF Exits, At, Admitted
  <2>2. ASSUME NEW x \in t.client[d].confs \cap Auth PROVE t.conf[x].class = s.conf[x].class
    <3>1. x \in Conf /\ x \in s.client[d].confs
      BY <2>1 DEF Conf
    <3>2. x \notin Dropped(s, c)
      <4> SUFFICES ASSUME x \in Dropped(s, c) PROVE FALSE
        OBVIOUS
      <4> DEFINE A == {e \in Conn : x \in s.client[e].confs}
      <4>1. s.conf[x].ref = Cardinality(A) /\ s.conf[x].ref = 1 /\ c \in A /\ d \in A /\ c # d
        BY <2>1, <3>1 DEF Refs, ConfRefs, Dropped
      <4>2. IsFiniteSet(A)
        BY ConnAssumption, FS_Subset
      <4>3. PICK e : A = {e}
        <5> HIDE DEF A
        <5> QED BY <4>1, <4>2, FS_Singleton
      <4> QED BY <4>1, <4>3
    <3>3. t.conf[x] = Detached(s, c, x)
      BY <3>1 DEF Exits
    <3> QED BY <1>1, <3>1, <3>2, <3>3 DEF Detached, MaskItem
  <2> QED BY <1>3, <2>1, <2>2 DEF Admitted
<1> QED BY <1>2, <1>3, LimitsShrink

\* Whoever is exited is settled by it, in whatever state the callback had brought it.
LEMMA ExitsGood ==
  ASSUME NEW s, NEW E, GoodBut(s, E), NEW c \in Conn, s.client[c].is # "none",
         "closing" \notin s.client[c].flags, NEW t, Exits(s, c, t)
  PROVE  GoodBut(t, E \ {c}) /\ Spared(s, t, c) /\ Has(t, c, "closing") /\ t.abort = s.abort
<1> DEFINE r == s.client[c]
<1>1. /\ s \in State /\ s.misuse = FALSE /\ Refs(s) /\ Blocks(s) /\ Limits(s)
      /\ IsInjective(s.abort) /\ \A d \in Conn : GoodClient(s, E, d)
  BY DEF GoodBut
<1>2. Live(s, c) /\ r.fd = TRUE /\ r.list = ListOf(r.is) /\ c \notin s.dead /\ Formed(s) /\ r \in Client
  BY LiveClient
<1>3. r.confs \in SUBSET Conf /\ r.ip \in Ip /\ r.auth \in Lookup \cup {NoAuth}
  BY <1>2, ClientTyped
<1>4. s.conf \in [Conf -> MaskItem] /\ s.query \in SUBSET Request
  BY <1>1, Typed
<1>6. t.misuse = FALSE
  <2>1. \A x \in r.confs : s.conf[x].ref # 0 /\ s.class[s.conf[x].class].ref # 0
    <3>1. \A x \in r.confs : x \in Conf /\ s.conf[x].class \in Class
      BY <1>3, <1>4 DEF MaskItem
    <3> QED BY <1>1, <3>1, Counts
  <2>2. "iphash" \in r.flags => s.ip[r.ip].local # 0
    BY <1>1, <1>3, Counts
  <2> QED BY <1>1, <1>2, <2>1, <2>2 DEF Exits
<1>7. Refs(t)
  BY <1>1, <1>2, ExitRefs
<1>8. t \in State
  BY <1>1, <1>6, <1>7, ExitTyped
<1>9. Blocks(t)
  BY <1>1, <1>7, <1>8, ExitBlocks
<1>10. Limits(t)
  BY <1>1, ExitLimits
<1>11. t.abort = s.abort /\ t.client[c].is = r.is /\ \A d \in Conn \ {c} : t.client[d] = s.client[d]
  BY DEF Exits, Only, At, Fields, Tags
<1>12. t.dead = s.dead \cup {c} /\ "closing" \in t.client[c].flags
       /\ t.query = {p \in s.query : p.who \notin Dropped(s, c) /\ (r.auth = NoAuth \/ p.who # c)}
  BY DEF Exits
<1>13. \A d \in Conn : d \notin Dropped(s, c)
  BY <1>3, ConnAssumption DEF Dropped
<1>14. ASSUME NEW d \in Conn \ {c} PROVE GoodClient(t, E \ {c}, d)
  <2>1. t.client[d] = s.client[d] /\ (d \in t.dead <=> d \in s.dead) /\ (OnAbort(t, d) <=> OnAbort(s, d))
    BY <1>11, <1>12 DEF OnAbort
  <2>2. Asked(t, d) = Asked(s, d)
    BY <1>12, <1>13 DEF Asked
  <2>3. GoodClient(s, E \ {c}, d)
    BY <1>1 DEF GoodClient
  <2> QED BY <2>1, <2>2, <2>3, SameClient
<1>15. GoodClient(t, E \ {c}, c)
  <2>1. t.client[c].list = "none" /\ t.client[c].auth = NoAuth /\ t.client[c].fd = FALSE /\ t.client[c].confs = {}
        /\ "iphash" \notin t.client[c].flags
    BY DEF Exits
  <2>2. Asked(t, c) = {}
    <3>1. CASE r.auth = NoAuth
      BY <1>2, <1>12, <3>1 DEF Asked, Live, NoAuth
    <3>2. CASE r.auth # NoAuth
      BY <1>12, <3>2 DEF Asked
    <3> QED BY <3>1, <3>2
  <2> QED BY <1>11, <1>12, <2>1, <2>2 DEF GoodClient, Closed, Has
<1>16. GoodBut(t, E \ {c})
  BY <1>1, <1>6, <1>7, <1>8, <1>9, <1>10, <1>11, <1>14, <1>15 DEF GoodBut
<1> QED BY <1>11, <1>12, <1>16 DEF Spared, Has

\* So exit_client() of any connection that is there leaves a good state, twice as well as once.
LEMMA ExitGood ==
  ASSUME NEW s, NEW E, GoodBut(s, E), NEW c \in Conn, s.client[c].is # "none"
  PROVE  LET t == exit_client(s, c) IN
         GoodBut(t, E \ {c}) /\ Spared(s, t, c) /\ Has(t, c, "closing") /\ t.abort = s.abort
<1> DEFINE t == exit_client(s, c)
           r == s.client[c]
<1>1. CASE "closing" \in r.flags
  <2>1. t = s
    BY <1>1 DEF exit_client, Has
  <2>2. \A d \in Conn : GoodClient(s, E \ {c}, d)
    BY <1>1 DEF GoodBut, GoodClient, Has
  <2> QED BY <1>1, <2>1, <2>2 DEF GoodBut, Spared, Has
<1>2. CASE "closing" \notin r.flags
  <2>1. Formed(s) /\ s \in State /\ r \in Client
    BY <1>2, LiveClient
  <2>2. r.confs \in SUBSET Conf /\ r.auth \in Lookup \cup {NoAuth} /\ s.conf \in [Conf -> MaskItem]
    BY <2>1, ClientTyped, Typed
  <2>3. Exits(s, c, t)
    BY <1>2, <2>1, <2>2, ExitForm
  <2> HIDE DEF t
  <2> QED BY <1>2, <2>3, ExitsGood DEF t
<1> QED BY <1>1, <1>2

\* A change to one connection that does not admit it keeps the limits.
LEMMA ChangeLimits ==
  ASSUME NEW s, Limits(s), NEW c \in Conn, NEW t, t.conf = s.conf,
         \A d \in Conn \ {c} : t.client[d] = s.client[d], t.fds <= FdLimit,
         c \in Admitted(t) =>
           c \in Admitted(s) /\ t.client[c].ip = s.client[c].ip /\ t.client[c].confs = s.client[c].confs
  PROVE  Limits(t)
<1>1. ASSUME NEW d \in Conn, d \in Admitted(t)
      PROVE  /\ d \in Admitted(s) /\ t.client[d].confs = s.client[d].confs /\ t.client[d].ip = s.client[d].ip
             /\ \A x \in t.client[d].confs \cap Auth : t.conf[x].class = s.conf[x].class
  BY <1>1 DEF Admitted
<1> QED BY <1>1, LimitsShrink

-----------------------------------------------------------------------------
(* A change to one connection. *)

\* A change to one connection that leaves what others count of it alone, but for the descriptor of
\* its ident query.
Changed(s, t, c) ==
  /\ Only({"client", "abort", "query", "fds"}, s, t) /\ \A d \in Conn \ {c} : t.client[d] = s.client[d]
  /\ t.client[c] \in Client
  /\ t.client[c].fd = s.client[c].fd /\ t.client[c].confs = s.client[c].confs /\ t.client[c].port = s.client[c].port
  /\ \A p \in Ip : Counted(t.client[c], p) <=> Counted(s.client[c], p)
  /\ t.abort \in Seq(Conn) /\ IsInjective(t.abort) /\ \A d \in Conn \ {c} : OnAbort(t, d) <=> OnAbort(s, d)
  /\ t.query \in SUBSET Request /\ \A q \in t.query : q \in s.query \/ q.who = c
  /\ \A d \in Conn \ {c} : Asked(t, d) = Asked(s, d)
  /\ t.fds = s.fds + Num(Asking(t.client[c])) - Num(Asking(s.client[c]))
  /\ Limits(t)

\* It leaves a good state, but for those that are not settled.
LEMMA Change ==
  ASSUME NEW s, NEW E, GoodBut(s, E), NEW c \in Conn, NEW t, Changed(s, t, c), NEW F,
         GoodClient(t, F, c), E \subseteq F \cup {c}
  PROVE  GoodBut(t, F)
<1>0. /\ Only({"client", "abort", "query", "fds"}, s, t) /\ \A d \in Conn \ {c} : t.client[d] = s.client[d]
      /\ t.client[c] \in Client
      /\ t.client[c].fd = s.client[c].fd /\ t.client[c].confs = s.client[c].confs
      /\ t.client[c].port = s.client[c].port
      /\ \A p \in Ip : Counted(t.client[c], p) <=> Counted(s.client[c], p)
      /\ t.abort \in Seq(Conn) /\ IsInjective(t.abort) /\ \A d \in Conn \ {c} : OnAbort(t, d) <=> OnAbort(s, d)
      /\ t.query \in SUBSET Request /\ \A q \in t.query : q \in s.query \/ q.who = c
      /\ \A d \in Conn \ {c} : Asked(t, d) = Asked(s, d)
      /\ t.fds = s.fds + Num(Asking(t.client[c])) - Num(Asking(s.client[c]))
      /\ Limits(t)
  BY DEF Changed
<1> USE <1>0
<1>1. /\ s \in State /\ s.misuse = FALSE /\ Refs(s) /\ Blocks(s) /\ Limits(s)
      /\ \A d \in Conn : GoodClient(s, E, d)
  BY DEF GoodBut
<1>2. /\ t.dead = s.dead /\ t.conf = s.conf /\ t.class = s.class /\ t.listener = s.listener
      /\ t.ip = s.ip /\ t.ping_cookie = s.ping_cookie /\ t.misuse = s.misuse /\ Formed(t)
  BY DEF Only, Fields
<1>3. /\ s.client \in [Conn -> Client] /\ s.abort \in Seq(Conn) /\ s.dead \in SUBSET Conn
      /\ s.query \in SUBSET Request
         /\ s.conf \in [Conf -> MaskItem] /\ s.class \in [Class -> ClassItem] /\ s.listener \in Listener
         /\ s.ip \in [Ip -> IpEntry] /\ s.fds \in Int /\ s.ping_cookie \in BOOLEAN /\ s.misuse \in BOOLEAN
  BY <1>1, Typed
<1>4. t.fds \in Int
  BY <1>3 DEF Num
<1>5. t \in State
  <2>1. t.client \in [Conn -> Client]
    BY <1>2, <1>3, ClientsOf
  <2> QED BY <1>2, <1>3, <1>4, <2>1, StateOf
<1>6. /\ \A x \in Conf : s.conf[x].ref \in Nat
      /\ \A k \in Class : s.class[k].ref \in Nat
      /\ \A p \in Ip : s.ip[p].local \in Nat
      /\ s.listener.ref \in Nat
  BY <1>1, Counts
<1>7. s.client[c].confs \in SUBSET Conf
  BY <1>3, ClientTyped
<1>8. ConfRefs(t)
  <2>1. \A x \in Conf : t.conf[x].ref = s.conf[x].ref + Num(x \in t.client[c].confs) - Num(x \in s.client[c].confs)
    BY <1>2, <1>6 DEF Num
  <2> QED BY <1>1, <2>1, ConfRefsChange DEF Refs
<1>9. ClassRefs(t)
  <2>1. ASSUME NEW k \in Class
        PROVE  t.class[k].ref = s.class[k].ref + Cardinality(Uses(t, c, k)) - Cardinality(Uses(s, c, k))
    <3>1. Uses(t, c, k) = Uses(s, c, k) /\ Uses(s, c, k) \in SUBSET Conf
      BY <1>2, <1>7 DEF Uses
    <3>2. Cardinality(Uses(s, c, k)) \in Nat
      BY <3>1, ConnAssumption, Some
    <3> QED BY <1>2, <1>6, <3>1, <3>2
  <2> QED BY <1>1, <1>2, <1>7, <2>1, ClassRefsChange DEF Refs
<1>10. PortRefs(t)
  <2>1. t.listener.ref = s.listener.ref + Num(t.client[c].port) - Num(s.client[c].port)
    BY <1>2, <1>6 DEF Num
  <2> QED BY <1>1, <2>1, PortRefsChange DEF Refs
<1>11. IpRefs(t)
  <2>1. \A p \in Ip : t.ip[p].local = s.ip[p].local + Num(Counted(t.client[c], p)) - Num(Counted(s.client[c], p))
    BY <1>2, <1>6 DEF Num
  <2> QED BY <1>1, <2>1, IpRefsChange DEF Refs
<1>12. FdRefs(t)
  <2>1. t.fds = s.fds + Num(t.client[c].fd) - Num(s.client[c].fd) + Num(Asking(t.client[c])) - Num(Asking(s.client[c]))
                 + Num(t.listener.is = "open") - Num(s.listener.is = "open")
    BY <1>2, <1>3 DEF Num
  <2> QED BY <1>1, <2>1, FdRefsChange DEF Refs
<1>13. Blocks(t)
  <2>1. \A q \in t.query : q.who \in Connect => q \in s.query
    BY ConnAssumption DEF Conf
  <2> QED BY <1>1, <1>2, <2>1 DEF Blocks
<1>15. \A d \in Conn \ {c} : GoodClient(t, F, d)
  <2> TAKE d \in Conn \ {c}
  <2>1. GoodClient(s, F, d)
    BY <1>1 DEF GoodClient
  <2> QED BY <1>2, <2>1, SameClient
<1> QED BY <1>1, <1>2, <1>5, <1>8, <1>9, <1>10, <1>11, <1>12, <1>13, <1>15 DEF GoodBut, Refs

\* The same without descriptors, lookups and lists.
LEMMA Retag ==
  ASSUME NEW s, NEW E, GoodBut(s, E), NEW c \in Conn, NEW t, NEW F,
         Only({"client"}, s, t), \A d \in Conn \ {c} : t.client[d] = s.client[d],
         t.client[c] \in Client,
         t.client[c].fd = s.client[c].fd, t.client[c].confs = s.client[c].confs, t.client[c].port = s.client[c].port,
         \A p \in Ip : Counted(t.client[c], p) <=> Counted(s.client[c], p),
         Asking(t.client[c]) <=> Asking(s.client[c]),
         c \in Admitted(t) => c \in Admitted(s) /\ t.client[c].ip = s.client[c].ip,
         GoodClient(t, F, c), E \subseteq F \cup {c}
  PROVE  GoodBut(t, F)
<1>1. t.abort = s.abort /\ t.query = s.query /\ t.fds = s.fds
  BY DEF Only, Fields
<1>2. s \in State /\ IsInjective(s.abort) /\ Limits(s)
  BY DEF GoodBut
<1>3. s.abort \in Seq(Conn) /\ s.query \in SUBSET Request /\ s.fds \in Int
  BY <1>2, Typed
<1>4. t.fds = s.fds + Num(Asking(t.client[c])) - Num(Asking(s.client[c])) /\ t.fds <= FdLimit
  BY <1>1, <1>2, <1>3 DEF Num, Limits
<1>5. \A d \in Conn : (OnAbort(t, d) <=> OnAbort(s, d)) /\ Asked(t, d) = Asked(s, d)
  BY <1>1 DEF OnAbort, Asked
<1>6. Only({"client", "abort", "query", "fds"}, s, t)
  BY DEF Only
<1>7. Limits(t)
  <2>1. t.conf = s.conf
    BY DEF Only, Fields
  <2> QED BY <1>2, <1>4, <2>1, ChangeLimits
<1>8. Changed(s, t, c)
  BY <1>1, <1>2, <1>3, <1>4, <1>5, <1>6, <1>7 DEF Changed
<1> QED BY <1>8, Change

-----------------------------------------------------------------------------
(* Nothing happens to a connection that was exited. *)

Kept(s, t) == \A d \in Conn : "closing" \in s.client[d].flags => t.client[d] = s.client[d]

\* If only c was touched, and not when closing, no closing connection was.
LEMMA SparedKept ==
  ASSUME NEW s, NEW t, NEW c \in Conn, Spared(s, t, c)
  PROVE  Kept(s, t)
  BY DEF Spared, Kept

\* Nor by two steps when by neither.
LEMMA KeptTrans ==
  ASSUME NEW s, NEW t, NEW u, Kept(s, t), Kept(t, u)
  PROVE  Kept(s, u)
  BY DEF Kept

\* An assertion that holds changes nothing.
LEMMA MisusedNot ==
  ASSUME NEW s, Formed(s), s.misuse = FALSE, NEW bad, bad = FALSE
  PROVE  Misused(s, bad) = s
<1>1. (s.misuse \/ bad) = FALSE
  OBVIOUS
<1>2. Misused(s, bad) = [s EXCEPT !.misuse = FALSE]
  BY <1>1 DEF Misused
<1>3. s = [f \in Fields |-> s[f]]
  BY DEF Formed
<1> QED BY <1>2, <1>3 DEF Fields

\* A list without repetition stays so when somebody new is appended.
LEMMA AppendNew ==
  ASSUME NEW S, NEW q \in Seq(S), NEW c \in S, IsInjective(q), c \notin Range(q)
  PROVE  /\ Append(q, c) \in Seq(S) /\ IsInjective(Append(q, c)) /\ Range(Append(q, c)) = Range(q) \cup {c}
<1>1. /\ Append(q, c) \in Seq(S) /\ Len(q) \in Nat /\ DOMAIN q = 1..Len(q) /\ DOMAIN Append(q, c) = 1..(Len(q) + 1)
      /\ Append(q, c)[Len(q) + 1] = c /\ \A i \in 1..Len(q) : Append(q, c)[i] = q[i]
  OBVIOUS
<1>2. \A i \in 1..Len(q) : q[i] # c
  BY <1>1 DEF Range
<1>3. IsInjective(Append(q, c))
  <2> SUFFICES ASSUME NEW i \in 1..(Len(q) + 1), NEW j \in 1..(Len(q) + 1), Append(q, c)[i] = Append(q, c)[j] PROVE i = j
    BY <1>1 DEF IsInjective
  <2>1. (i \in 1..Len(q) \/ i = Len(q) + 1) /\ (j \in 1..Len(q) \/ j = Len(q) + 1)
    BY <1>1
  <2> QED BY <1>1, <1>2, <2>1 DEF IsInjective
<1>4. Range(Append(q, c)) = Range(q) \cup {c}
  <2>1. \A i \in 1..(Len(q) + 1) : i \in 1..Len(q) \/ i = Len(q) + 1
    BY <1>1
  <2>2. \A i \in 1..Len(q) : i \in 1..(Len(q) + 1)
    BY <1>1
  <2>3. Len(q) + 1 \in 1..(Len(q) + 1)
    BY <1>1
  <2> QED BY <1>1, <2>1, <2>2, <2>3 DEF Range
<1> QED BY <1>1, <1>3, <1>4

\* And when its first is taken.
LEMMA TailOf ==
  ASSUME NEW S, NEW q \in Seq(S), IsInjective(q), q # <<>>
  PROVE  /\ Tail(q) \in Seq(S) /\ IsInjective(Tail(q)) /\ Head(q) \in S /\ Range(Tail(q)) = Range(q) \ {Head(q)}
<1>1. /\ Tail(q) \in Seq(S) /\ Len(q) \in Nat /\ Len(q) > 0 /\ DOMAIN q = 1..Len(q)
      /\ DOMAIN Tail(q) = 1..(Len(q) - 1)
      /\ Head(q) = q[1] /\ \A i \in 1..(Len(q) - 1) : Tail(q)[i] = q[i + 1]
  OBVIOUS
<1>2. \A i \in 1..(Len(q) - 1) : i + 1 \in 1..Len(q)
  BY <1>1
<1>3. IsInjective(Tail(q))
  <2> SUFFICES ASSUME NEW i \in 1..(Len(q) - 1), NEW j \in 1..(Len(q) - 1), Tail(q)[i] = Tail(q)[j] PROVE i = j
    BY <1>1 DEF IsInjective
  <2>1. i + 1 = j + 1
    BY <1>1, <1>2 DEF IsInjective
  <2> QED BY <2>1
<1>4. \A i \in 1..Len(q) : i = 1 \/ (i - 1 \in 1..(Len(q) - 1) /\ Tail(q)[i - 1] = q[i])
  <2> TAKE i \in 1..Len(q)
  <2>1. i = 1 \/ i - 1 \in 1..(Len(q) - 1)
    BY <1>1
  <2>2. i - 1 \in 1..(Len(q) - 1) => Tail(q)[i - 1] = q[(i - 1) + 1] /\ (i - 1) + 1 = i
    BY <1>1
  <2> QED BY <2>1, <2>2
<1>5. Range(Tail(q)) = Range(q) \ {Head(q)}
  <2>1. ASSUME NEW i \in 1..(Len(q) - 1) PROVE Tail(q)[i] \in Range(q) \ {Head(q)}
    <3>1. i + 1 # 1 /\ 1 \in 1..Len(q)
      BY <1>1
    <3>2. q[i + 1] # q[1]
      BY <1>1, <1>2, <3>1 DEF IsInjective
    <3> QED BY <1>1, <1>2, <3>2 DEF Range
  <2>2. ASSUME NEW i \in 1..Len(q), q[i] # Head(q) PROVE q[i] \in Range(Tail(q))
    <3>1. i - 1 \in 1..(Len(q) - 1) /\ Tail(q)[i - 1] = q[i]
      BY <1>1, <1>4, <2>2
    <3> QED BY <1>1, <3>1 DEF Range
  <2> QED BY <1>1, <2>1, <2>2 DEF Range
<1>6. Head(q) \in S
  BY <1>1
<1> QED BY <1>1, <1>3, <1>5, <1>6

\* A client whose write failed is marked, and on abort_list.
LEMMA DeadGood ==
  ASSUME NEW s, NEW E, GoodBut(s, E), NEW c \in Conn, s.client[c].is # "none", ~Defunct(s, c), ~OnAbort(s, c)
  PROVE  LET t == dead_link_on_write(s, c) IN GoodBut(t, E \ {c}) /\ Spared(s, t, c)
<1> DEFINE r == s.client[c]
           a == SetAbort(s, Append(s.abort, c))
           t == Flag(a, c, "dead")
<1>1. dead_link_on_write(s, c) = t
  BY DEF dead_link_on_write, SetAbort
<1>2. Live(s, c) /\ Formed(s) /\ s \in State /\ r \in Client /\ {"closing", "dead"} \cap r.flags = {}
  BY LiveClient DEF Defunct, Has
<1>3. Only({"abort"}, s, a) /\ a.abort = Append(s.abort, c)
  BY <1>2, Setters
<1> HIDE DEF a
<1>4. Only({"client"}, a, t) /\ At({"flags"}, a, t, c) /\ t.client[c].flags = a.client[c].flags \cup {"dead"}
  BY <1>3, FlagForm DEF Only
<1> HIDE DEF t
<1>5. Only({"client", "abort"}, s, t) /\ At({"flags"}, s, t, c) /\ t.client[c].flags = r.flags \cup {"dead"}
      /\ t.abort = Append(s.abort, c)
  BY <1>3, <1>4 DEF Only, At, Fields, Tags
<1>6. /\ t.abort \in Seq(Conn) /\ IsInjective(t.abort) /\ OnAbort(t, c)
      /\ \A d \in Conn \ {c} : OnAbort(t, d) <=> OnAbort(s, d)
  <2>1. s.abort \in Seq(Conn) /\ IsInjective(s.abort) /\ c \notin Range(s.abort)
    BY <1>2, Typed DEF GoodBut, OnAbort
  <2> QED BY <1>5, <2>1, AppendNew DEF OnAbort
<1>7. /\ t.query = s.query /\ t.fds = s.fds /\ t.dead = s.dead /\ Formed(t)
      /\ \A g \in Tags \ {"flags"} : t.client[c][g] = r[g]
      /\ \A d \in Conn \ {c} : t.client[d] = s.client[d]
  BY <1>5 DEF Only, At, Fields
<1>8. \A g \in {"is", "list", "need", "auth", "fd", "confs", "ip", "port"} : t.client[c][g] = r[g]
  BY <1>7 DEF Tags
<1>9. t.client[c].is = r.is /\ t.client[c].list = r.list /\ t.client[c].need = r.need /\ t.client[c].auth = r.auth
      /\ t.client[c].fd = r.fd /\ t.client[c].confs = r.confs /\ t.client[c].ip = r.ip /\ t.client[c].port = r.port
  BY <1>8
<1>10. t.client[c] \in Client
  <2>1. Tagged(t.client[c])
    BY <1>7 DEF Formed
  <2>2. t.client[c].flags \in SUBSET Flags
    BY <1>2, <1>5, ClientTyped DEF Flags
  <2> QED BY <1>2, <1>9, <2>1, <2>2, ClientTyped, ClientOf
<1>11. GoodClient(t, E \ {c}, c)
  <2>1. Asked(t, c) = Asked(s, c)
    BY <1>7 DEF Asked
  <2>2. Live(t, c)
    BY <1>2, <1>5, <1>7, <1>9, <2>1 DEF Live
  <2>3. Settled(t, c)
    BY <1>5, <1>6 DEF Settled
  <2> QED BY <1>2, <1>5, <1>9, <2>2, <2>3 DEF GoodClient, Has
<1>12. s.fds \in Int /\ s.query \in SUBSET Request /\ s.fds <= FdLimit
  BY <1>2, Typed DEF GoodBut, Limits
<1>13. GoodBut(t, E \ {c})
  <2>1. \A p \in Ip : Counted(t.client[c], p) <=> Counted(r, p)
    BY <1>5, <1>9 DEF Counted
  <2>2. \A d \in Conn \ {c} : Asked(t, d) = Asked(s, d)
    BY <1>7 DEF Asked
  <2>3. t.fds = s.fds + Num(Asking(t.client[c])) - Num(Asking(r))
    BY <1>7, <1>9, <1>12 DEF Asking, Num
  <2>4. Limits(t)
    <3>1. c \in Admitted(t) => c \in Admitted(s)
      BY <1>9 DEF Admitted
    <3>2. t.conf = s.conf /\ t.fds <= FdLimit /\ Limits(s)
      BY <1>5, <1>7, <1>12 DEF Only, Fields, GoodBut
    <3> QED BY <1>7, <1>9, <3>1, <3>2, ChangeLimits
  <2>5. Only({"client", "abort", "query", "fds"}, s, t)
    BY <1>5 DEF Only
  <2>6. Changed(s, t, c)
    BY <1>6, <1>7, <1>9, <1>10, <1>12, <2>1, <2>2, <2>3, <2>4, <2>5 DEF Changed
  <2>7. E \subseteq (E \ {c}) \cup {c}
    OBVIOUS
  <2> QED BY <1>11, <2>6, <2>7, Change
<1> QED BY <1>1, <1>2, <1>7, <1>9, <1>13 DEF Spared

-----------------------------------------------------------------------------
(* Flags, marks and counts. *)

Others == {"fd", "confs", "port"}

\* A change to tags nobody else counts leaves a good state.
LEMMA RetagAt ==
  ASSUME NEW s, NEW E, GoodBut(s, E), NEW c \in Conn, NEW t, NEW F, Only({"client"}, s, t),
         At(Tags \ Others, s, t, c),
         t.client[c].is \in {"none", "unknown", "connecting", "handshake", "client", "server"},
         t.client[c].list \in {"none", "unknown", "client", "server"},
         t.client[c].flags \in SUBSET Flags, t.client[c].need \in SUBSET {"nick", "user", "cap"},
         t.client[c].auth \in Lookup \cup {NoAuth}, t.client[c].ip \in Ip,
         \A p \in Ip : Counted(t.client[c], p) <=> Counted(s.client[c], p),
         Asking(t.client[c]) <=> Asking(s.client[c]),
         c \in Admitted(t) => c \in Admitted(s) /\ t.client[c].ip = s.client[c].ip,
         GoodClient(t, F, c), E \subseteq F \cup {c}
  PROVE  GoodBut(t, F)
<1>1. \A g \in Others : t.client[c][g] = s.client[c][g]
  BY DEF At, Others, Tags
<1>2. t.client[c].fd = s.client[c].fd /\ t.client[c].confs = s.client[c].confs /\ t.client[c].port = s.client[c].port
  BY <1>1 DEF Others
<1>3. s.client[c] \in Client
  BY Typed DEF GoodBut
<1>4. t.client[c] \in Client
  <2>1. Tagged(t.client[c])
    BY DEF Only, Formed
  <2> QED BY <1>2, <1>3, <2>1, ClientTyped, ClientOf
<1>5. \A d \in Conn \ {c} : t.client[d] = s.client[d]
  BY DEF At
<1> QED BY <1>2, <1>4, <1>5, Retag

\* What is asked of a client, and the flags of ping cookies, matter to nothing else.
Minor == {"ping", "cookie"}

\* Such a change, of what a client still needs and of its cookie, leaves a good state.
LEMMA MinorGood ==
  ASSUME NEW s, NEW E, GoodBut(s, E), NEW c \in Conn, s.client[c].is # "none", "closing" \notin s.client[c].flags,
         NEW t, Only({"client"}, s, t), At({"need", "flags"}, s, t, c),
         t.client[c].need \in SUBSET {"nick", "user", "cap"}, t.client[c].flags \in SUBSET Flags,
         t.client[c].flags \ Minor = s.client[c].flags \ Minor
  PROVE  GoodBut(t, E) /\ Spared(s, t, c)
<1> DEFINE r == s.client[c] q == t.client[c]
<1>1. /\ q.is = r.is /\ q.list = r.list /\ q.auth = r.auth /\ q.fd = r.fd /\ q.confs = r.confs /\ q.ip = r.ip
      /\ q.port = r.port
  BY DEF At, Tags
<1>2. \A f \in Flags \ Minor : f \in q.flags <=> f \in r.flags
  OBVIOUS
<1>3. /\ "closing" \in q.flags <=> "closing" \in r.flags
      /\ "dead" \in q.flags <=> "dead" \in r.flags
      /\ "auth" \in q.flags <=> "auth" \in r.flags
      /\ "tls" \in q.flags <=> "tls" \in r.flags
      /\ "iphash" \in q.flags <=> "iphash" \in r.flags
  BY <1>2 DEF Flags, Minor
<1>4. r \in Client /\ GoodClient(s, E, c)
  BY Typed DEF GoodBut
<1>5. t.dead = s.dead /\ t.query = s.query /\ t.abort = s.abort
  BY DEF Only, Fields
<1>6. Asked(t, c) = Asked(s, c) /\ (OnAbort(t, c) <=> OnAbort(s, c))
  BY <1>5 DEF Asked, OnAbort
<1>7. GoodClient(t, E, c)
  <2>1. Live(s, c) => Live(t, c)
    BY <1>1, <1>3, <1>5, <1>6 DEF Live
  <2>2. Settled(s, c) => Settled(t, c)
    BY <1>1, <1>3, <1>6 DEF Settled
  <2> QED BY <1>1, <1>3, <1>4, <2>1, <2>2 DEF GoodClient, Has
<1>8. \A p \in Ip : Counted(q, p) <=> Counted(r, p)
  BY <1>1, <1>3 DEF Counted
<1>9. Asking(q) <=> Asking(r)
  BY <1>1 DEF Asking
<1>10. c \in Admitted(t) => c \in Admitted(s)
  BY <1>1 DEF Admitted
<1>11. At(Tags \ Others, s, t, c)
  BY DEF At, Others, Tags
<1>12. GoodBut(t, E)
  <2>1. /\ r.is \in {"none", "unknown", "connecting", "handshake", "client", "server"}
        /\ r.list \in {"none", "unknown", "client", "server"}
        /\ r.auth \in Lookup \cup {NoAuth} /\ r.ip \in Ip
    BY <1>4, ClientTyped
  <2> QED BY <1>1, <1>7, <1>8, <1>9, <1>10, <1>11, <2>1, RetagAt
<1> QED BY <1>1, <1>12 DEF Spared, At

\* A client is counted under its address.
Counting(s, c) == Flag([s EXCEPT !.ip[s.client[c].ip].local = @ + 1], c, "iphash")

\* Counting a client under its address leaves a good state, but for that client.
LEMMA CountGood ==
  ASSUME NEW s, NEW E, GoodBut(s, E), NEW c \in Conn, s.client[c].is # "none", "closing" \notin s.client[c].flags,
         "iphash" \notin s.client[c].flags
  PROVE  LET t == Counting(s, c) IN
         /\ GoodBut(t, E \cup {c}) /\ Spared(s, t, c) /\ Only({"client", "ip"}, s, t) /\ At({"flags"}, s, t, c)
         /\ t.client[c].flags = s.client[c].flags \cup {"iphash"}
<1> DEFINE r == s.client[c]
           I == [s.ip EXCEPT ![r.ip].local = @ + 1]
           a == SetIp(s, I)
           t == Flag(a, c, "iphash")
<1>1. Counting(s, c) = t
  BY DEF Counting, SetIp
<1>2. Live(s, c) /\ Formed(s) /\ s \in State /\ r \in Client /\ Refs(s) /\ Blocks(s) /\ Limits(s)
      /\ \A d \in Conn : GoodClient(s, E, d)
  BY LiveClient DEF GoodBut
<1> HIDE DEF I
<1>3. Only({"ip"}, s, a) /\ a.ip = I
  BY <1>2, Setters
<1> HIDE DEF a
<1>4. Only({"client"}, a, t) /\ At({"flags"}, a, t, c) /\ t.client[c].flags = a.client[c].flags \cup {"iphash"}
  BY <1>3, FlagForm DEF Only
<1> HIDE DEF t
<1>5. Only({"client", "ip"}, s, t) /\ At({"flags"}, s, t, c) /\ t.client[c].flags = r.flags \cup {"iphash"}
      /\ t.ip = I
  BY <1>3, <1>4 DEF Only, At, Fields, Tags
<1>6. LET q == t.client[c] IN q.is = r.is /\ q.list = r.list /\ q.need = r.need /\ q.auth = r.auth
      /\ q.fd = r.fd /\ q.confs = r.confs /\ q.ip = r.ip /\ q.port = r.port
  BY <1>5 DEF At, Tags
<1>7. /\ Formed(t) /\ t.abort = s.abort /\ t.dead = s.dead /\ t.query = s.query /\ t.conf = s.conf
      /\ t.class = s.class
      /\ t.listener = s.listener /\ t.fds = s.fds /\ t.ping_cookie = s.ping_cookie /\ t.misuse = s.misuse
      /\ \A d \in Conn \ {c} : t.client[d] = s.client[d]
  BY <1>5 DEF Only, At, Fields
<1>8. /\ s.client \in [Conn -> Client] /\ s.abort \in Seq(Conn) /\ s.dead \in SUBSET Conn
      /\ s.query \in SUBSET Request
         /\ s.conf \in [Conf -> MaskItem] /\ s.class \in [Class -> ClassItem] /\ s.listener \in Listener
         /\ s.ip \in [Ip -> IpEntry] /\ s.fds \in Int /\ s.ping_cookie \in BOOLEAN /\ s.misuse \in BOOLEAN
         /\ r.ip \in Ip /\ r.flags \in SUBSET Flags /\ r.confs \in SUBSET Conf
  BY <1>2, Typed, ClientTyped
<1>9. t \in State
  <2>1. Tagged(t.client[c])
    BY <1>7 DEF Formed
  <2>2. t.client[c] \in Client
    <3>1. t.client[c].flags \in SUBSET Flags
      BY <1>5, <1>8 DEF Flags
    <3> QED BY <1>2, <1>6, <2>1, <3>1, ClientTyped, ClientOf
  <2>3. t.client \in [Conn -> Client]
    BY <1>7, <1>8, <2>2, ClientsOf
  <2>4. t.ip \in [Ip -> IpEntry]
    <3>1. s.ip[r.ip] \in IpEntry
      BY <1>8
    <3>2. [s.ip[r.ip] EXCEPT !.local = @ + 1] \in IpEntry
      BY <3>1 DEF IpEntry
    <3> QED BY <1>5, <1>8, <3>2 DEF I
  <2> QED BY <1>7, <1>8, <2>3, <2>4, StateOf
<1>10. /\ \A x \in Conf : s.conf[x].ref \in Nat
       /\ \A k \in Class : s.class[k].ref \in Nat
       /\ \A p \in Ip : s.ip[p].local \in Nat
       /\ s.listener.ref \in Nat
  BY <1>2, Counts
<1>11. ConfRefs(t)
  <2>1. \A x \in Conf : t.conf[x].ref = s.conf[x].ref + Num(x \in t.client[c].confs) - Num(x \in s.client[c].confs)
    BY <1>6, <1>7, <1>10 DEF Num
  <2> QED BY <1>2, <1>7, <2>1, ConfRefsChange DEF Refs
<1>12. ClassRefs(t)
  <2>1. ASSUME NEW k \in Class
        PROVE  t.class[k].ref = s.class[k].ref + Cardinality(Uses(t, c, k)) - Cardinality(Uses(s, c, k))
    <3>1. Uses(t, c, k) = Uses(s, c, k) /\ Uses(s, c, k) \in SUBSET Conf
      BY <1>6, <1>7, <1>8 DEF Uses
    <3>2. Cardinality(Uses(s, c, k)) \in Nat
      BY <3>1, ConnAssumption, Some
    <3> QED BY <1>7, <1>10, <3>1, <3>2
  <2> QED BY <1>2, <1>6, <1>7, <1>8, <2>1, ClassRefsChange DEF Refs
<1>13. PortRefs(t)
  <2>1. t.listener.ref = s.listener.ref + Num(t.client[c].port) - Num(s.client[c].port)
    <3>1. t.client[c].port = r.port /\ t.listener.ref = s.listener.ref
      BY <1>6, <1>7
    <3> QED BY <1>10, <3>1 DEF Num
  <2> QED BY <1>2, <1>7, <2>1, PortRefsChange DEF Refs
<1>14. IpRefs(t)
  <2>1. ASSUME NEW p \in Ip
        PROVE  t.ip[p].local = s.ip[p].local + Num(Counted(t.client[c], p)) - Num(Counted(s.client[c], p))
    <3>1. ~Counted(r, p) /\ (Counted(t.client[c], p) <=> p = r.ip)
      BY <1>5, <1>6 DEF Counted
    <3>2. t.ip[p].local = IF p = r.ip THEN s.ip[p].local + 1 ELSE s.ip[p].local
      BY <1>5, <1>8 DEF I, IpEntry
    <3>3. s.ip[p].local \in Nat
      BY <1>10
    <3>4. CASE p = r.ip
      BY <3>1, <3>2, <3>3, <3>4 DEF Num
    <3>5. CASE p # r.ip
      BY <3>1, <3>2, <3>3, <3>5 DEF Num
    <3> QED BY <3>4, <3>5
  <2> QED BY <1>2, <1>7, <2>1, IpRefsChange DEF Refs
<1>15. FdRefs(t)
  <2>1. t.fds = s.fds + Num(t.client[c].fd) - Num(s.client[c].fd) + Num(Asking(t.client[c])) - Num(Asking(s.client[c]))
                 + Num(t.listener.is = "open") - Num(s.listener.is = "open")
    BY <1>6, <1>7, <1>8 DEF Num, Asking
  <2> QED BY <1>2, <1>7, <2>1, FdRefsChange DEF Refs
<1>16. Blocks(t)
  BY <1>2, <1>7 DEF Blocks
<1>17. Limits(t)
  <2>1. ASSUME NEW d \in Conn, d \in Admitted(t)
        PROVE  /\ d \in Admitted(s) /\ t.client[d].confs = s.client[d].confs /\ t.client[d].ip = s.client[d].ip
               /\ \A x \in t.client[d].confs \cap Auth : t.conf[x].class = s.conf[x].class
    BY <1>6, <1>7, <2>1 DEF Admitted
  <2>2. t.fds <= FdLimit
    BY <1>2, <1>7 DEF Limits
  <2> QED BY <1>2, <2>1, <2>2, LimitsShrink
<1>18. \A d \in Conn \ {c} : GoodClient(t, E \cup {c}, d)
  <2> TAKE d \in Conn \ {c}
  <2>1. GoodClient(s, E \cup {c}, d)
    BY <1>2 DEF GoodClient
  <2> QED BY <1>7, <2>1, SameClient DEF OnAbort, Asked
<1>19. GoodClient(t, E \cup {c}, c)
  <2>1. Asked(t, c) = Asked(s, c)
    BY <1>7 DEF Asked
  <2>2. Live(t, c)
    BY <1>2, <1>5, <1>6, <1>7, <2>1 DEF Live
  <2> QED BY <1>5, <1>6, <2>2 DEF GoodClient, Has
<1>20. GoodBut(t, E \cup {c})
  BY <1>7, <1>9, <1>11, <1>12, <1>13, <1>14, <1>15, <1>16, <1>17, <1>18, <1>19 DEF GoodBut, Refs
<1> QED BY <1>1, <1>5, <1>6, <1>7, <1>20 DEF Spared

\* conf_attach() in closed form.
LEMMA AttachForm ==
  ASSUME NEW s, Formed(s), NEW c \in Conn, NEW x \in Conf, x \notin s.client[c].confs
  PROVE  LET t == conf_attach(s, c, x)
             k == s.conf[x].class IN
         /\ Only({"client", "conf", "class"}, s, t) /\ At({"confs"}, s, t, c)
         /\ t.client[c].confs = s.client[c].confs \cup {x}
         /\ t.conf = [s.conf EXCEPT ![x].ref = @ + 1] /\ t.class = [s.class EXCEPT ![k].ref = @ + 1]
<1> DEFINE k == s.conf[x].class
           F == [s.conf EXCEPT ![x].ref = @ + 1]
           K == [s.class EXCEPT ![k].ref = @ + 1]
           X == s.client[c].confs \cup {x}
           a == PutConfs(s, c, X)
           b == SetConf(a, F)
           t == SetClass(b, K)
<1>1. conf_attach(s, c, x) = t
  BY DEF conf_attach, PutConfs, SetConf, SetClass
<1> HIDE DEF F, K, X
<1>2. Only({"client"}, s, a) /\ At({"confs"}, s, a, c) /\ a.client[c].confs = X
  BY Putters
<1> HIDE DEF a
<1>3. Only({"conf"}, a, b) /\ b.conf = F
  BY <1>2, Setters DEF Only
<1> HIDE DEF b
<1>4. Only({"class"}, b, t) /\ t.class = K
  BY <1>3, Setters DEF Only
<1> HIDE DEF t
<1>5. Only({"client", "conf", "class"}, s, t) /\ At({"confs"}, s, t, c) /\ t.client[c].confs = X /\ t.conf = F
      /\ t.class = K
  BY <1>2, <1>3, <1>4 DEF Only, At, Fields, Tags
<1> QED BY <1>1, <1>5 DEF F, K, X

\* The blocks and the classes they name stay what they are.
NamesKept(s, t) == \A y \in Conf : t.conf[y].is = s.conf[y].is /\ t.conf[y].class = s.conf[y].class
ClassTaken(s, t, c, x) == x \notin s.client[c].confs => t.class[s.conf[x].class].ref = s.class[s.conf[x].class].ref + 1

\* A connection that is not a client yet may take a valid block.
LEMMA AttachGood ==
  ASSUME NEW s, NEW E, GoodBut(s, E), NEW c \in Conn, s.client[c].is # "none", s.client[c].is # "client",
         "closing" \notin s.client[c].flags,
         NEW x \in Conf, s.conf[x].is = "on"
  PROVE  LET t == conf_attach(s, c, x) IN
         /\ GoodBut(t, E \cup {c}) /\ Spared(s, t, c) /\ Only({"client", "conf", "class"}, s, t)
         /\ At({"confs"}, s, t, c)
         /\ t.client[c].confs = s.client[c].confs \cup {x}
         /\ NamesKept(s, t)
         /\ ClassTaken(s, t, c, x)
<1> DEFINE r == s.client[c]
           t == conf_attach(s, c, x)
           j == s.conf[x].class
<1>1. CASE x \in r.confs
  <2>1. t = s /\ Formed(s)
    BY <1>1, LiveClient DEF conf_attach
  <2>2. r.confs \cup {x} = r.confs
    BY <1>1
  <2>3. GoodBut(s, E \cup {c})
    BY GoodMore
  <2> HIDE DEF t
  <2>4. Spared(s, t, c) /\ Only({"client", "conf", "class"}, s, t) /\ At({"confs"}, s, t, c)
    BY <2>1 DEF Spared, Only, At
  <2>5. \A y \in Conf : t.conf[y].is = s.conf[y].is /\ t.conf[y].class = s.conf[y].class
    BY <2>1
  <2>6. t.client[c].confs = r.confs \cup {x} /\ GoodBut(t, E \cup {c})
    BY <2>1, <2>2, <2>3
  <2> QED BY <1>1, <2>4, <2>5, <2>6 DEF t, NamesKept, ClassTaken
<1>2. CASE x \notin r.confs
  <2>1. Live(s, c) /\ Formed(s) /\ s \in State /\ r \in Client /\ Refs(s) /\ Blocks(s) /\ Limits(s)
        /\ s.misuse = FALSE /\ IsInjective(s.abort) /\ \A d \in Conn : GoodClient(s, E, d)
    BY LiveClient DEF GoodBut
  <2>2. /\ Only({"client", "conf", "class"}, s, t) /\ At({"confs"}, s, t, c)
        /\ t.client[c].confs = r.confs \cup {x}
        /\ t.conf = [s.conf EXCEPT ![x].ref = @ + 1] /\ t.class = [s.class EXCEPT ![j].ref = @ + 1]
    BY <1>2, <2>1, AttachForm
  <2> HIDE DEF t
  <2>3. LET q == t.client[c] IN q.is = r.is /\ q.list = r.list /\ q.need = r.need /\ q.auth = r.auth
        /\ q.fd = r.fd /\ q.flags = r.flags /\ q.ip = r.ip /\ q.port = r.port
    BY <2>2 DEF At, Tags
  <2>4. /\ Formed(t) /\ t.abort = s.abort /\ t.dead = s.dead /\ t.query = s.query /\ t.ip = s.ip
        /\ t.listener = s.listener /\ t.fds = s.fds /\ t.ping_cookie = s.ping_cookie /\ t.misuse = s.misuse
        /\ \A d \in Conn \ {c} : t.client[d] = s.client[d]
    BY <2>2 DEF Only, At, Fields
  <2>5. /\ s.client \in [Conn -> Client] /\ s.abort \in Seq(Conn) /\ s.dead \in SUBSET Conn
        /\ s.query \in SUBSET Request
        /\ s.conf \in [Conf -> MaskItem] /\ s.class \in [Class -> ClassItem] /\ s.listener \in Listener
        /\ s.ip \in [Ip -> IpEntry] /\ s.fds \in Int /\ s.ping_cookie \in BOOLEAN /\ s.misuse \in BOOLEAN
        /\ r.confs \in SUBSET Conf
    BY <2>1, Typed, ClientTyped
  <2>6. j \in Class
    BY <2>5 DEF MaskItem
  <2>7. /\ \A y \in Conf : s.conf[y].ref \in Nat
        /\ \A k \in Class : s.class[k].ref \in Nat
        /\ \A p \in Ip : s.ip[p].local \in Nat
        /\ s.listener.ref \in Nat
    BY <2>1, Counts
  <2>8. ASSUME NEW y \in Conf
        PROVE  /\ t.conf[y] \in MaskItem /\ t.conf[y].is = s.conf[y].is /\ t.conf[y].class = s.conf[y].class
               /\ t.conf[y].ref = IF y = x THEN s.conf[y].ref + 1 ELSE s.conf[y].ref
    <3>1. s.conf[y] \in MaskItem
      BY <2>5
    <3>2. CASE y # x
      BY <2>2, <2>5, <3>1, <3>2
    <3>3. CASE y = x
      <4>1. t.conf[x] = [s.conf[x] EXCEPT !.ref = @ + 1]
        BY <2>2, <2>5
      <4> QED BY <3>1, <3>3, <4>1 DEF MaskItem
    <3> QED BY <3>2, <3>3
  <2>9. ASSUME NEW k \in Class
        PROVE  /\ t.class[k] \in ClassItem /\ t.class[k].is = s.class[k].is
               /\ t.class[k].ref = IF k = j THEN s.class[k].ref + 1 ELSE s.class[k].ref
    <3>1. s.class[k] \in ClassItem
      BY <2>5
    <3>2. CASE k # j
      BY <2>2, <2>5, <3>1, <3>2
    <3>3. CASE k = j
      <4>1. t.class[j] = [s.class[j] EXCEPT !.ref = @ + 1]
        BY <2>2, <2>5, <2>6
      <4> QED BY <3>1, <3>3, <4>1 DEF ClassItem
    <3> QED BY <3>2, <3>3
  <2>10. t \in State
    <3>1. Tagged(t.client[c]) /\ t.client[c].confs \in SUBSET Conf
      BY <2>2, <2>4, <2>5 DEF Formed
    <3>2. t.client[c] \in Client
      BY <2>1, <2>3, <3>1, ClientTyped, ClientOf
    <3>3. t.client \in [Conn -> Client]
      BY <2>4, <2>5, <3>2, ClientsOf
    <3>4. t.conf \in [Conf -> MaskItem] /\ t.class \in [Class -> ClassItem]
      BY <2>2, <2>5, <2>8, <2>9
    <3> QED BY <2>4, <2>5, <3>3, <3>4, StateOf
  <2>11. ConfRefs(t)
    <3>1. ASSUME NEW y \in Conf PROVE t.conf[y].ref = s.conf[y].ref + Num(y \in t.client[c].confs) - Num(y \in r.confs)
      <4>1. s.conf[y].ref \in Nat /\ (y \in t.client[c].confs <=> y \in r.confs \/ y = x)
        BY <2>2, <2>7
      <4>2. CASE y = x
        BY <1>2, <2>8, <4>1, <4>2 DEF Num
      <4>3. CASE y # x
        BY <2>8, <4>1, <4>3 DEF Num
      <4> QED BY <4>2, <4>3
    <3> QED BY <2>1, <2>4, <3>1, ConfRefsChange DEF Refs
  <2>12. ClassRefs(t)
    <3>1. ASSUME NEW k \in Class
          PROVE  t.class[k].ref = s.class[k].ref + Cardinality(Uses(t, c, k)) - Cardinality(Uses(s, c, k))
      <4>1. IsFiniteSet(Uses(s, c, k)) /\ Cardinality(Uses(s, c, k)) \in Nat /\ s.class[k].ref \in Nat
        <5>1. Uses(s, c, k) \in SUBSET Conf
          BY <2>5 DEF Uses
        <5> QED BY <2>7, <5>1, ConnAssumption, Some, FS_Subset
      <4>2. CASE k = j
        <5>1. Uses(t, c, k) = Uses(s, c, k) \cup {x} /\ x \notin Uses(s, c, k)
          BY <1>2, <2>2, <2>5, <2>8, <4>2 DEF Uses
        <5>2. Cardinality(Uses(t, c, k)) = Cardinality(Uses(s, c, k)) + 1
          BY <4>1, <5>1, FS_AddElement
        <5> QED BY <2>9, <4>1, <4>2, <5>2
      <4>3. CASE k # j
        <5>1. Uses(t, c, k) = Uses(s, c, k)
          BY <2>2, <2>5, <2>8, <4>3 DEF Uses
        <5> QED BY <2>9, <4>1, <4>3, <5>1
      <4> QED BY <4>2, <4>3
    <3>2. t.client[c].confs \subseteq Conf /\ r.confs \subseteq Conf
      BY <2>2, <2>5
    <3>3. \A y \in Conf, d \in Conn \ {c} : y \in s.client[d].confs => t.conf[y].class = s.conf[y].class
      BY <2>8
    <3> QED BY <2>1, <2>4, <3>1, <3>2, <3>3, ClassRefsChange DEF Refs
  <2>13. PortRefs(t)
    <3>1. t.client[c].port = r.port /\ t.listener.ref = s.listener.ref
      BY <2>3, <2>4
    <3>2. t.listener.ref = s.listener.ref + Num(t.client[c].port) - Num(r.port)
      BY <2>7, <3>1 DEF Num
    <3> QED BY <2>1, <2>4, <3>2, PortRefsChange DEF Refs
  <2>14. IpRefs(t)
    <3>1. ASSUME NEW p \in Ip PROVE t.ip[p].local = s.ip[p].local + Num(Counted(t.client[c], p)) - Num(Counted(r, p))
      <4>1. (Counted(t.client[c], p) <=> Counted(r, p)) /\ s.ip[p].local \in Nat /\ t.ip[p].local = s.ip[p].local
        BY <2>3, <2>4, <2>7 DEF Counted
      <4> QED BY <4>1 DEF Num
    <3> QED BY <2>1, <2>4, <3>1, IpRefsChange DEF Refs
  <2>15. FdRefs(t)
    <3>1. t.fds = s.fds + Num(t.client[c].fd) - Num(r.fd) + Num(Asking(t.client[c])) - Num(Asking(r))
                   + Num(t.listener.is = "open") - Num(s.listener.is = "open")
      BY <2>3, <2>4, <2>5 DEF Num, Asking
    <3> QED BY <2>1, <2>4, <3>1, FdRefsChange DEF Refs
  <2>16. Blocks(t)
    <3>1. \A y \in Conf : s.conf[y].class \in Class
      BY <2>5 DEF MaskItem
    <3>2. \A y \in Conf : /\ s.conf[y].is = "none" => s.conf[y].ref = 0
                          /\ s.conf[y].is = "off" => s.conf[y].ref > 0
                          /\ s.conf[y].is = "on" => s.class[s.conf[y].class].is = "on"
                          /\ s.conf[y].is # "none" => s.class[s.conf[y].class].is # "none"
      BY <2>1 DEF Blocks
    <3>4. \A y \in Conf : /\ t.conf[y].is = "none" => t.conf[y].ref = 0
                          /\ t.conf[y].is = "off" => t.conf[y].ref > 0
                          /\ t.conf[y].is = "on" => t.class[t.conf[y].class].is = "on"
                          /\ t.conf[y].is # "none" => t.class[t.conf[y].class].is # "none"
      BY <2>7, <2>8, <2>9, <3>1, <3>2
    <3>5. \A q \in t.query : q.who \in Connect => t.conf[q.who].is # "none"
      BY <2>1, <2>4, <2>8 DEF Blocks, Conf
    <3>6. t.class[Default].is = "on"
      BY <2>1, <2>9, ConnAssumption DEF Blocks
    <3>7. t.listener.is = "none" => t.listener.ref = 0
      BY <2>1, <2>4 DEF Blocks
    <3> QED BY <3>4, <3>5, <3>6, <3>7 DEF Blocks
  <2>17. Limits(t)
    <3>1. ASSUME NEW d \in Conn, d \in Admitted(t)
          PROVE  /\ d \in Admitted(s) /\ t.client[d].confs = s.client[d].confs /\ t.client[d].ip = s.client[d].ip
                 /\ \A y \in t.client[d].confs \cap Auth : t.conf[y].class = s.conf[y].class
      <4>1. d # c /\ t.client[d] = s.client[d]
        BY <2>3, <2>4, <3>1 DEF Admitted
      <4> QED BY <2>8, <3>1, <4>1 DEF Admitted, Conf
    <3>2. t.fds <= FdLimit
      BY <2>1, <2>4 DEF Limits
    <3> QED BY <2>1, <3>1, <3>2, LimitsShrink
  <2>18. \A d \in Conn \ {c} : GoodClient(t, E \cup {c}, d)
    <3> TAKE d \in Conn \ {c}
    <3>1. GoodClient(s, E \cup {c}, d)
      BY <2>1 DEF GoodClient
    <3> QED BY <2>4, <3>1, SameClient DEF OnAbort, Asked
  <2>19. GoodClient(t, E \cup {c}, c)
    <3>1. Asked(t, c) = Asked(s, c)
      BY <2>4 DEF Asked
    <3>2. Live(t, c)
      BY <2>1, <2>3, <2>4, <3>1 DEF Live
    <3> QED BY <2>3, <3>2 DEF GoodClient, Has
  <2>20. GoodBut(t, E \cup {c})
    BY <2>1, <2>4, <2>10, <2>11, <2>12, <2>13, <2>14, <2>15, <2>16, <2>17, <2>18, <2>19 DEF GoodBut, Refs
  <2>21. Spared(s, t, c)
    BY <2>3, <2>4 DEF Spared
  <2>22. t.class[j].ref = s.class[j].ref + 1
    BY <2>6, <2>9
  <2> QED BY <2>2, <2>8, <2>20, <2>21, <2>22 DEF t, NamesKept, ClassTaken
<1> QED BY <1>1, <1>2

\* The same for a block it does not hold.
LEMMA AttachOne ==
  ASSUME NEW u, NEW c \in Conn, NEW x \in Conf, GoodBut(u, {c}), u.conf[x].is = "on",
         u.client[c].is # "none", u.client[c].is # "client",
    "closing" \notin u.client[c].flags, x \notin u.client[c].confs
  PROVE LET t == conf_attach(u, c, x) IN
        /\ GoodBut(t, {c}) /\ Spared(u, t, c) /\ Only({"client", "conf", "class"}, u, t) /\ At({"confs"}, u, t, c)
        /\ t.client[c].confs = u.client[c].confs \cup {x}
        /\ t.conf[x].class = u.conf[x].class
        /\ t.class[u.conf[x].class].ref = u.class[u.conf[x].class].ref + 1
<1> DEFINE t == conf_attach(u, c, x)
<1>1. GoodBut(t, {c} \cup {c}) /\ Spared(u, t, c) 
  BY AttachGood
<1>2. Only({"client", "conf", "class"}, u, t) /\ At({"confs"}, u, t, c)
  BY AttachGood
<1>3. t.client[c].confs = u.client[c].confs \cup {x}
  BY AttachGood
<1>4. t.conf[x].class = u.conf[x].class
  <2>1. NamesKept(u, t)
    BY AttachGood
  <2> QED BY <2>1 DEF NamesKept
<1>5. t.class[u.conf[x].class].ref = u.class[u.conf[x].class].ref + 1
  <2>1. ClassTaken(u, t, c, x)
    BY AttachGood
  <2> QED BY <2>1 DEF ClassTaken
<1>6. {c} \cup {c} = {c}
  OBVIOUS
<1> HIDE DEF t
<1> QED BY <1>1, <1>2, <1>3, <1>4, <1>5, <1>6 DEF t

-----------------------------------------------------------------------------
(* Several exits in a row. *)

One(T) == CHOOSE x \in T : TRUE
OneMore(s, g, T) == IF T = {} THEN s ELSE exit_client(g[T \ {One(T)}], One(T))
Exiting(s, C, g) == g = [T \in SUBSET C |-> OneMore(s, g, T)]

\* exit_all() is the value at C of a function that solves its recursion over the subsets of C.
LEMMA ExitAllFold ==
  ASSUME NEW s, NEW C
  PROVE  exit_all(s, C) = (CHOOSE g : Exiting(s, C, g))[C]
BY DEF exit_all, FoldSet, MapThenFoldSet, Exiting, OneMore, One

\* The recursion of a fold has a solution over the subsets of a finite set.
Small(C, n) == {T \in SUBSET C : Cardinality(T) <= n}

\* There is such a function: on the sets of at most n elements for each n, each from the one before.
LEMMA ExitingExists ==
  ASSUME NEW s, NEW C, IsFiniteSet(C)
  PROVE  \E g : Exiting(s, C, g)
<1> DEFINE Sol(n, g) == g = [T \in Small(C, n) |-> OneMore(s, g, T)]
           Bad == {n \in Nat : ~ \E g : Sol(n, g)}
<1>1. \A T \in SUBSET C : IsFiniteSet(T) /\ Cardinality(T) \in Nat /\ Cardinality(T) <= Cardinality(C)
  BY FS_Subset, FS_CardinalityType
<1>2. \A T \in SUBSET C : T # {} => /\ One(T) \in T /\ T \ {One(T)} \in SUBSET C
                                     /\ Cardinality(T \ {One(T)}) = Cardinality(T) - 1
  <2> TAKE T \in SUBSET C
  <2> HAVE T # {}
  <2>1. One(T) \in T
    BY DEF One
  <2> QED BY <1>1, <2>1, FS_RemoveElement
<1>3. Bad = {}
  <2> SUFFICES ASSUME Bad # {} PROVE FALSE
    OBVIOUS
  <2>1. PICK m \in Bad : \A n \in Bad : m <= n
    <3>1. Bad \subseteq Nat
      OBVIOUS
    <3> HIDE DEF Bad
    <3> QED BY <3>1, Least
  <2>2. m \in Nat /\ ~ \E g : Sol(m, g)
    OBVIOUS
  <2>3. CASE m = 0
    <3> DEFINE g == [T \in Small(C, 0) |-> s]
    <3>1. \A T \in Small(C, 0) : T = {}
      <4> TAKE T \in Small(C, 0)
      <4>1. IsFiniteSet(T) /\ Cardinality(T) = 0
        BY <1>1 DEF Small
      <4> QED BY <4>1, FS_EmptySet
    <3>2. Sol(0, g)
      BY <3>1 DEF OneMore
    <3> QED BY <2>2, <2>3, <3>2
  <2>4. CASE m # 0
    <3>1. m - 1 \in Nat /\ m - 1 \notin Bad
      BY <2>1, <2>2, <2>4
    <3>2. PICK g : Sol(m - 1, g)
      BY <3>1
    <3> DEFINE h == [T \in Small(C, m) |-> OneMore(s, g, T)]
    <3>3. ASSUME NEW T \in Small(C, m - 1) PROVE h[T] = g[T]
      <4>1. T \in Small(C, m)
        BY <1>1, <2>2, <3>3 DEF Small
      <4>2. g[T] = OneMore(s, g, T)
        BY <3>2
      <4> QED BY <4>1, <4>2
    <3>4. ASSUME NEW T \in Small(C, m) PROVE OneMore(s, h, T) = OneMore(s, g, T)
      <4>1. T # {} => T \ {One(T)} \in Small(C, m - 1)
        BY <1>1, <1>2, <2>2 DEF Small
      <4>2. T # {} => h[T \ {One(T)}] = g[T \ {One(T)}]
        BY <3>3, <4>1
      <4> HIDE DEF h
      <4> QED BY <4>2 DEF OneMore
    <3>5. Sol(m, h)
      BY <3>4
    <3> QED BY <2>2, <3>5
  <2> QED BY <2>3, <2>4
<1>4. PICK g : Sol(Cardinality(C), g)
  <2>1. Cardinality(C) \in Nat
    BY FS_CardinalityType
  <2> QED BY <1>3, <2>1
<1>5. Small(C, Cardinality(C)) = SUBSET C
  BY <1>1 DEF Small
<1> QED BY <1>4, <1>5 DEF Exiting

\* All of T are exited, and nothing else has happened to a connection.
AllOut(s, T, t) == /\ Kept(s, t) /\ t.abort = s.abort
                   /\ \A d \in Conn : /\ t.client[d].is = s.client[d].is
                                      /\ d \in T => Has(t, d, "closing")
                                      /\ d \notin T => t.client[d] = s.client[d]

\* Several exits in a row leave a good state, and exit those and nobody else. (Of the sets for which
\* it fails, take one of least size.)
LEMMA ExitAllGood ==
  ASSUME NEW s, NEW E, GoodBut(s, E), NEW C \in SUBSET Conn, \A c \in C : s.client[c].is # "none"
  PROVE  GoodBut(exit_all(s, C), E) /\ AllOut(s, C, exit_all(s, C))
<1>1. IsFiniteSet(C)
  BY ConnAssumption, FS_Subset
<1> DEFINE g == CHOOSE h : Exiting(s, C, h)
<1>2. Exiting(s, C, g)
  BY <1>1, ExitingExists
<1>3. exit_all(s, C) = g[C]
  BY ExitAllFold
<1> HIDE DEF g
<1>4. \A T \in SUBSET C : g[T] = OneMore(s, g, T)
  BY <1>2 DEF Exiting
<1>5. \A T \in SUBSET C : IsFiniteSet(T) /\ Cardinality(T) \in Nat
  BY <1>1, FS_Subset, FS_CardinalityType
<1> DEFINE Ok(T) == GoodBut(g[T], E) /\ AllOut(s, T, g[T])
           Bad == {Cardinality(T) : T \in {U \in SUBSET C : ~Ok(U)}}
<1>6. ASSUME Bad # {} PROVE FALSE
  <2>1. PICK m \in Bad : \A n \in Bad : m <= n
    <3>1. Bad \subseteq Nat
      BY <1>5
    <3> HIDE DEF Bad
    <3> QED BY <1>6, <3>1, Least
  <2>2. PICK T \in SUBSET C : ~Ok(T) /\ m = Cardinality(T)
    OBVIOUS
  <2>3. \A U \in SUBSET C : ~Ok(U) => Cardinality(T) <= Cardinality(U)
    BY <2>1, <2>2
  <2> HIDE DEF Bad
  <2>4. CASE T = {}
    <3>1. g[T] = s
      BY <1>4, <2>4 DEF OneMore
    <3> QED BY <2>2, <2>4, <3>1 DEF AllOut, Kept
  <2>5. CASE T # {}
    <3> DEFINE c == One(T)
               U == T \ {c}
    <3>1. c \in T /\ c \in Conn
      BY <2>5 DEF One
    <3>2. g[T] = exit_client(g[U], c)
      BY <1>4, <2>5 DEF OneMore
    <3>3. U \in SUBSET C /\ Cardinality(U) = Cardinality(T) - 1 /\ Cardinality(T) \in Nat /\ Cardinality(U) \in Nat
      BY <1>5, <3>1, FS_RemoveElement
    <3>4. Ok(U)
      <4> HIDE DEF Ok, U
      <4> QED BY <2>3, <3>3
    <3>5. GoodBut(g[U], E) /\ AllOut(s, U, g[U])
      BY <3>4
    <3>6. g[U].client[c].is # "none"
      BY <3>1, <3>5 DEF AllOut
    <3> DEFINE u == g[U]
               t == exit_client(u, c)
    <3> HIDE DEF c, U
    <3>7. GoodBut(u, E) /\ AllOut(s, U, u) /\ u.client[c].is # "none"
      BY <3>5, <3>6
    <3> HIDE DEF u
    <3>8. GoodBut(t, E \ {c}) /\ Spared(u, t, c) /\ Has(t, c, "closing") /\ t.abort = u.abort
      BY <3>1, <3>7, ExitGood
    <3> HIDE DEF t
    <3>9. GoodBut(t, E)
      <4>1. E \ {c} \subseteq E
        OBVIOUS
      <4> QED BY <3>8, <4>1, GoodMore
    <3>10. AllOut(s, T, t)
      <4>1. \A d \in Conn : d \in T <=> d \in U \/ d = c
        BY <3>1 DEF U
      <4>2. Kept(s, t)
        <5>1. Kept(s, u)
          BY <3>7 DEF AllOut
        <5>2. Kept(u, t)
          BY <3>1, <3>8, SparedKept
        <5> QED BY <5>1, <5>2, KeptTrans
      <4> QED BY <3>1, <3>7, <3>8, <4>1, <4>2 DEF AllOut, Spared, Has
    <3> QED BY <2>2, <3>2, <3>9, <3>10 DEF t, u
  <2> QED BY <2>4, <2>5
<1>7. Ok(C)
  BY <1>6
<1> QED BY <1>3, <1>7

\* Of a good state: what has a descriptor, or is on a list, is there.
LEMMA There ==
  ASSUME NEW s, NEW E, GoodBut(s, E), NEW c \in Conn
  PROVE  /\ s.client[c].fd \/ s.client[c].list # "none" \/ s.client[c].auth # NoAuth
              => s.client[c].is # "none" /\ ~Has(s, c, "closing")
         /\ s.client[c].fd \in BOOLEAN
<1>1. GoodClient(s, E, c) /\ s.client[c] \in Client
  BY Typed DEF GoodBut
<1>2. s.client[c].fd \in BOOLEAN
  BY <1>1, ClientTyped
<1> QED BY <1>1, <1>2 DEF GoodClient, Absent, Closed, Gone

-----------------------------------------------------------------------------
(* A change to the lookups of one connection. *)

\* A change of the lookups and flags of one connection.
Looked(s, t, c) ==
  /\ Only({"client", "query", "fds"}, s, t) /\ At({"auth", "flags"}, s, t, c)
  /\ t.client[c].auth \in Lookup \cup {NoAuth} /\ t.client[c].flags \in SUBSET Flags
  /\ "iphash" \in t.client[c].flags <=> "iphash" \in s.client[c].flags
  /\ t.fds = s.fds + Num(Asking(t.client[c])) - Num(Asking(s.client[c])) /\ t.fds <= FdLimit
  /\ t.query \in SUBSET Request /\ \A q \in Request : q.who # c => (q \in t.query <=> q \in s.query)

\* It leaves a good state when the connection is fit again.
LEMMA LookedGood ==
  ASSUME NEW s, NEW E, GoodBut(s, E), NEW c \in Conn, NEW t, Looked(s, t, c), NEW F, GoodClient(t, F, c),
         E \subseteq F \cup {c}
  PROVE  GoodBut(t, F)
<1> DEFINE r == s.client[c] q == t.client[c]
<1>1. /\ Only({"client", "query", "fds"}, s, t) /\ At({"auth", "flags"}, s, t, c)
      /\ q.auth \in Lookup \cup {NoAuth} /\ q.flags \in SUBSET Flags
      /\ "iphash" \in q.flags <=> "iphash" \in r.flags
      /\ t.fds = s.fds + Num(Asking(q)) - Num(Asking(r)) /\ t.fds <= FdLimit
      /\ t.query \in SUBSET Request /\ \A p \in Request : p.who # c => (p \in t.query <=> p \in s.query)
  BY DEF Looked
<1>2. s \in State /\ r \in Client /\ IsInjective(s.abort) /\ Limits(s) /\ s.abort \in Seq(Conn)
      /\ s.query \in SUBSET Request
  BY Typed DEF GoodBut
<1>3. q.is = r.is /\ q.list = r.list /\ q.need = r.need /\ q.fd = r.fd /\ q.confs = r.confs /\ q.ip = r.ip
      /\ q.port = r.port
  BY <1>1 DEF At, Tags
<1>4. t.abort = s.abort /\ t.conf = s.conf /\ \A d \in Conn \ {c} : t.client[d] = s.client[d]
  BY <1>1 DEF Only, At, Fields
<1>5. q \in Client
  <2>1. Tagged(q)
    BY <1>1 DEF Only, Formed
  <2> QED BY <1>1, <1>2, <1>3, <2>1, ClientTyped, ClientOf
<1>6. \A p \in Ip : Counted(q, p) <=> Counted(r, p)
  BY <1>1, <1>3 DEF Counted
<1>7. Limits(t)
  <2>1. c \in Admitted(t) => c \in Admitted(s)
    BY <1>3 DEF Admitted
  <2> QED BY <1>1, <1>2, <1>3, <1>4, <2>1, ChangeLimits
<1>8. Changed(s, t, c)
  <2>1. \A d \in Conn \ {c} : (OnAbort(t, d) <=> OnAbort(s, d)) /\ Asked(t, d) = Asked(s, d)
    BY <1>1, <1>2, <1>4 DEF OnAbort, Asked
  <2>2. \A p \in t.query : p \in s.query \/ p.who = c
    BY <1>1
  <2>3. Only({"client", "abort", "query", "fds"}, s, t)
    BY <1>1 DEF Only
  <2> QED BY <1>1, <1>2, <1>3, <1>4, <1>5, <1>6, <1>7, <2>1, <2>2, <2>3 DEF Changed
<1> QED BY <1>8, Change

-----------------------------------------------------------------------------
(* What is around the connections. *)

\* A change around the connections: to blocks, classes, the listener, addresses and lookups for blocks.
Around(s, t) ==
  /\ Formed(t) /\ t.client = s.client /\ t.abort = s.abort /\ t.dead = s.dead
  /\ t.query \in SUBSET Request /\ \A q \in Request : q.who \in Conn => (q \in t.query <=> q \in s.query)
  /\ t.ip \in [Ip -> IpEntry] /\ \A p \in Ip : t.ip[p].local = s.ip[p].local
  /\ t.conf \in [Conf -> MaskItem]
  /\ \A x \in Conf : t.conf[x].ref = s.conf[x].ref /\ (s.conf[x].ref > 0 => t.conf[x].class = s.conf[x].class)
  /\ t.class \in [Class -> ClassItem] /\ \A k \in Class : t.class[k].ref = s.class[k].ref
  /\ t.listener \in Listener /\ t.listener.ref = s.listener.ref
  /\ t.fds = s.fds + Num(t.listener.is = "open") - Num(s.listener.is = "open") /\ t.fds <= FdLimit
  /\ t.ping_cookie \in BOOLEAN /\ t.misuse = FALSE

\* It leaves a good state if the blocks are fit.
LEMMA AroundGood ==
  ASSUME NEW s, NEW E, GoodBut(s, E), NEW t, Around(s, t), Blocks(t)
  PROVE  GoodBut(t, E) /\ Kept(s, t)
<1>1. /\ s \in State /\ Refs(s) /\ Limits(s) /\ IsInjective(s.abort) /\ \A d \in Conn : GoodClient(s, E, d)
  BY DEF GoodBut
<1>2. /\ Formed(t) /\ t.client = s.client /\ t.abort = s.abort /\ t.dead = s.dead
      /\ t.query \in SUBSET Request /\ \A q \in Request : q.who \in Conn => (q \in t.query <=> q \in s.query)
      /\ t.ip \in [Ip -> IpEntry] /\ \A p \in Ip : t.ip[p].local = s.ip[p].local
      /\ t.conf \in [Conf -> MaskItem]
      /\ \A x \in Conf : t.conf[x].ref = s.conf[x].ref /\ (s.conf[x].ref > 0 => t.conf[x].class = s.conf[x].class)
      /\ t.class \in [Class -> ClassItem] /\ \A k \in Class : t.class[k].ref = s.class[k].ref
      /\ t.listener \in Listener /\ t.listener.ref = s.listener.ref
      /\ t.fds = s.fds + Num(t.listener.is = "open") - Num(s.listener.is = "open") /\ t.fds <= FdLimit
      /\ t.ping_cookie \in BOOLEAN /\ t.misuse = FALSE
  BY DEF Around
<1>3. s.client \in [Conn -> Client] /\ s.abort \in Seq(Conn) /\ s.dead \in SUBSET Conn
      /\ s.query \in SUBSET Request /\ s.fds \in Int
  BY <1>1, Typed
<1>4. t \in State
  <2>1. t.fds \in Int
    <3>1. t.fds = s.fds + Num(t.listener.is = "open") - Num(s.listener.is = "open") /\ s.fds \in Int
      BY <1>2, <1>3
    <3> QED BY <3>1 DEF Num
  <2>2. t.misuse \in BOOLEAN
    BY <1>2
  <2> QED BY <1>2, <1>3, <2>1, <2>2, StateOf
<1>5. \A d \in Conn : \A x \in s.client[d].confs : x \in Conf /\ s.conf[x].ref > 0 /\ t.conf[x].class = s.conf[x].class
  <2>1. \A d \in Conn : s.client[d].confs \in SUBSET Conf
    BY <1>3, ClientTyped
  <2>2. \A x \in Conf : \A d \in Conn : x \in s.client[d].confs => s.conf[x].ref > 0
    BY <1>1, Counts
  <2> QED BY <1>2, <2>1, <2>2
<1>6. Refs(t)
  <2>1. ConfRefs(t) /\ PortRefs(t)
    BY <1>1, <1>2 DEF Refs, ConfRefs, PortRefs
  <2>2. IpRefs(t)
    BY <1>1, <1>2 DEF Refs, IpRefs, Has
  <2>3. ClassRefs(t)
    <3>1. ASSUME NEW k \in Class
          PROVE  {r \in Conn \X Conf : r[2] \in t.client[r[1]].confs /\ t.conf[r[2]].class = k}
                 = {r \in Conn \X Conf : r[2] \in s.client[r[1]].confs /\ s.conf[r[2]].class = k}
      BY <1>2, <1>5
    <3> QED BY <1>1, <1>2, <3>1 DEF Refs, ClassRefs
  <2>4. FdRefs(t)
    <3>1. Cardinality({c \in Conn : s.client[c].fd}) \in Nat /\ Cardinality(Idents(s)) \in Nat
      BY ConnAssumption, Some DEF Idents
    <3>2. Idents(t) = Idents(s)
      BY <1>2 DEF Idents
    <3>3. s.fds = Cardinality({c \in Conn : s.client[c].fd}) + Cardinality(Idents(s))
                 + (IF s.listener.is = "open" THEN 1 ELSE 0)
      BY <1>1 DEF Refs, FdRefs
    <3>4. t.fds = Cardinality({c \in Conn : s.client[c].fd}) + Cardinality(Idents(s))
                 + (IF t.listener.is = "open" THEN 1 ELSE 0)
      <4>1. t.fds = s.fds + Num(t.listener.is = "open") - Num(s.listener.is = "open")
        BY <1>2
      <4> QED BY <3>1, <3>3, <4>1 DEF Num
    <3> QED BY <1>2, <3>2, <3>4 DEF FdRefs
  <2> QED BY <2>1, <2>2, <2>3, <2>4 DEF Refs
<1>7. Limits(t)
  <2>1. \A d \in Conn : d \in Admitted(t) =>
           /\ d \in Admitted(s) /\ t.client[d].confs = s.client[d].confs /\ t.client[d].ip = s.client[d].ip
           /\ \A x \in t.client[d].confs \cap Auth : t.conf[x].class = s.conf[x].class
    BY <1>2, <1>5 DEF Admitted
  <2> QED BY <1>1, <1>2, <2>1, LimitsShrink
<1>8. ASSUME NEW d \in Conn PROVE GoodClient(t, E, d)
  <2>1. Asked(t, d) = Asked(s, d)
    BY <1>2, <1>3 DEF Asked
  <2> QED BY <1>1, <1>2, <2>1, SameClient DEF OnAbort
<1> QED BY <1>1, <1>2, <1>4, <1>6, <1>7, <1>8 DEF GoodBut, Kept

-----------------------------------------------------------------------------
(* Connections on their way: TLS, connect(), ident. *)

\* A connection that is not registered yet goes on to another state, or is flagged.
Early == {"unknown", "connecting", "handshake"}
Turned(s, t, c) ==
  LET r == s.client[c] q == t.client[c] IN
  /\ Only({"client"}, s, t) /\ At({"is", "flags"}, s, t, c) /\ r.is \in Early /\ q.is \in Early
  /\ q.flags \in SUBSET Flags /\ ("iphash" \in q.flags <=> "iphash" \in r.flags)

\* It leaves a good state when the connection is fit again.
LEMMA TurnedGood ==
  ASSUME NEW s, NEW E, GoodBut(s, E), NEW c \in Conn, NEW t, Turned(s, t, c), NEW F, GoodClient(t, F, c),
         E \subseteq F \cup {c},
         "closing" \notin s.client[c].flags
  PROVE  GoodBut(t, F) /\ Kept(s, t)
<1> DEFINE r == s.client[c]
           q == t.client[c]
<1>1. /\ Only({"client"}, s, t) /\ At({"is", "flags"}, s, t, c) /\ r.is \in Early /\ q.is \in Early
      /\ q.flags \in SUBSET Flags /\ ("iphash" \in q.flags <=> "iphash" \in r.flags)
  BY DEF Turned
<1>2. q.list = r.list /\ q.need = r.need /\ q.auth = r.auth /\ q.ip = r.ip /\ At(Tags \ Others, s, t, c)
      /\ \A d \in Conn \ {c} : t.client[d] = s.client[d]
  BY <1>1 DEF At, Tags, Others
<1>3. r \in Client /\ r.is # "none"
  BY <1>1, LiveClient DEF Early
<1>4. /\ r.list \in {"none", "unknown", "client", "server"} /\ r.need \in SUBSET {"nick", "user", "cap"}
      /\ r.auth \in Lookup \cup {NoAuth} /\ r.ip \in Ip
  BY <1>3, ClientTyped
<1>5. \A p \in Ip : Counted(q, p) <=> Counted(r, p)
  BY <1>1, <1>2 DEF Counted
<1>6. (Asking(q) <=> Asking(r)) /\ q.is \in {"none", "unknown", "connecting", "handshake", "client", "server"}
  BY <1>1, <1>2 DEF Asking, Early
<1>7. c \notin Admitted(t)
  BY <1>1 DEF Admitted, Early
<1>8. GoodBut(t, F)
  BY <1>1, <1>2, <1>4, <1>5, <1>6, <1>7, RetagAt
<1> QED BY <1>2, <1>8 DEF Kept

-----------------------------------------------------------------------------
(* A new connection. *)

\* r is the connection that takes the free slot c.
Arrives(s, t, c, r) ==
  /\ Only({"client", "listener", "fds", "ip"}, s, t) /\ t.client = [s.client EXCEPT ![c] = r]
  /\ r \in Client /\ r.is \in Early /\ r.fd = TRUE /\ r.confs = {} /\ "iphash" \notin r.flags /\ r.auth = NoAuth
  /\ r.port => s.listener.is # "none"
  /\ t.listener.is = s.listener.is /\ t.listener.ref = s.listener.ref + Num(r.port) /\ t.listener \in Listener
  /\ t.ip \in [Ip -> IpEntry] /\ \A p \in Ip : t.ip[p].local = s.ip[p].local
  /\ t.fds = s.fds + 1 /\ t.fds <= FdLimit

\* A free slot.
LEMMA GoneForm ==
  /\ Tagged(Gone) /\ Gone.flags = {} /\ Gone.auth = NoAuth /\ Gone.confs = {}
  /\ Gone.port = FALSE /\ Gone.ip \in Ip
<1>1. Tagged(Gone)
  <2>1. Gone \in [is : {"none"}, list : {"none"}, flags : {{}}, need : {{}}, auth : {NoAuth},
              fd : {FALSE}, confs : {{}}, ip : {Gone.ip}, port : {FALSE}]
    BY DEF Gone
  <2> QED BY <2>1 DEF Tagged, Tags
<1>2. Gone.flags = {} /\ Gone.auth = NoAuth /\ Gone.confs = {}
  BY DEF Gone
<1>3. Gone.port = FALSE
  BY DEF Gone
<1>4. Gone.ip \in Ip
  BY ConnAssumption DEF Gone
<1> QED BY <1>1, <1>2, <1>3, <1>4

\* A new connection leaves a good state if it is fit itself.
LEMMA ArrivesGood ==
  ASSUME NEW s, GoodBut(s, {}), NEW c \in Conn, s.client[c].is = "none", NEW r, NEW t, Arrives(s, t, c, r),
         NEW F, GoodClient(t, F, c)
  PROVE  GoodBut(t, F) /\ Kept(s, t)
<1>1. /\ s \in State /\ s.misuse = FALSE /\ Refs(s) /\ Blocks(s) /\ Limits(s) /\ IsInjective(s.abort)
      /\ \A d \in Conn : GoodClient(s, {}, d)
  BY DEF GoodBut
<1>2. /\ Only({"client", "listener", "fds", "ip"}, s, t) /\ t.client = [s.client EXCEPT ![c] = r]
      /\ r \in Client /\ r.is \in Early /\ r.fd = TRUE /\ r.confs = {} /\ "iphash" \notin r.flags /\ r.auth = NoAuth
      /\ r.port => s.listener.is # "none"
      /\ t.listener.is = s.listener.is /\ t.listener.ref = s.listener.ref + Num(r.port) /\ t.listener \in Listener
      /\ t.ip \in [Ip -> IpEntry] /\ \A p \in Ip : t.ip[p].local = s.ip[p].local
      /\ t.fds = s.fds + 1 /\ t.fds <= FdLimit
  BY DEF Arrives
<1>3. /\ s.client \in [Conn -> Client] /\ s.abort \in Seq(Conn) /\ s.dead \in SUBSET Conn
      /\ s.query \in SUBSET Request
      /\ s.conf \in [Conf -> MaskItem] /\ s.class \in [Class -> ClassItem] /\ s.listener \in Listener
      /\ s.ip \in [Ip -> IpEntry] /\ s.fds \in Int /\ s.ping_cookie \in BOOLEAN /\ s.misuse \in BOOLEAN
  BY <1>1, Typed
<1>4. /\ Formed(t) /\ t.abort = s.abort /\ t.dead = s.dead /\ t.query = s.query /\ t.conf = s.conf
      /\ t.class = s.class
      /\ t.ping_cookie = s.ping_cookie /\ t.misuse = s.misuse
  BY <1>2 DEF Only, Fields
<1>5. t.client[c] = r /\ \A d \in Conn \ {c} : t.client[d] = s.client[d]
  BY <1>2, <1>3
<1>6. s.client[c] = Gone
  BY <1>1 DEF GoodClient, Absent
<1>7. /\ Gone.fd = FALSE /\ Gone.confs = {} /\ Gone.flags = {} /\ Gone.auth = NoAuth /\ Gone.port = FALSE
      /\ NoAuth.ident = "off"
  BY DEF Gone, NoAuth
<1>8. t \in State
  <2>1. t.client \in [Conn -> Client]
    BY <1>2, <1>3
  <2>2. t.fds \in Int
    BY <1>2, <1>3
  <2> QED BY <1>2, <1>3, <1>4, <2>1, <2>2, StateOf
<1>9. /\ \A x \in Conf : s.conf[x].ref \in Nat
      /\ \A k \in Class : s.class[k].ref \in Nat
      /\ \A p \in Ip : s.ip[p].local \in Nat
      /\ s.listener.ref \in Nat
  BY <1>1, Counts
<1>10. Refs(t)
  <2>1. ConfRefs(t)
    <3>1. \A x \in Conf : t.conf[x].ref = s.conf[x].ref + Num(x \in t.client[c].confs) - Num(x \in s.client[c].confs)
      BY <1>2, <1>4, <1>5, <1>6, <1>7, <1>9 DEF Num
    <3> QED BY <1>1, <1>5, <3>1, ConfRefsChange DEF Refs
  <2>2. ClassRefs(t)
    <3>1. ASSUME NEW k \in Class
          PROVE  t.class[k].ref = s.class[k].ref + Cardinality(Uses(t, c, k)) - Cardinality(Uses(s, c, k))
      <4>1. Uses(t, c, k) = {} /\ Uses(s, c, k) = {}
        BY <1>2, <1>5, <1>6, <1>7 DEF Uses
      <4> QED BY <1>4, <1>9, <4>1, FS_EmptySet
    <3>2. s.client[c].confs \subseteq Conf /\ t.client[c].confs \subseteq Conf
      BY <1>2, <1>5, <1>6, <1>7
    <3>3. \A x \in Conf, d \in Conn \ {c} : x \in s.client[d].confs => t.conf[x].class = s.conf[x].class
      BY <1>4
    <3> QED BY <1>1, <1>5, <3>1, <3>2, <3>3, ClassRefsChange DEF Refs
  <2>3. PortRefs(t)
    <3>1. t.listener.ref = s.listener.ref + Num(t.client[c].port) - Num(s.client[c].port)
      <4>1. Num(s.client[c].port) = 0 /\ Num(r.port) \in {0, 1}
        BY <1>6, <1>7 DEF Num
      <4> QED BY <1>2, <1>5, <1>9, <4>1
    <3> QED BY <1>1, <1>5, <3>1, PortRefsChange DEF Refs
  <2>4. IpRefs(t)
    <3>1. \A p \in Ip : ~Counted(t.client[c], p) /\ ~Counted(s.client[c], p)
      BY <1>2, <1>5, <1>6, <1>7 DEF Counted
    <3>2. \A p \in Ip : t.ip[p].local = s.ip[p].local + Num(Counted(t.client[c], p)) - Num(Counted(s.client[c], p))
      BY <1>2, <1>9, <3>1 DEF Num
    <3> QED BY <1>1, <1>5, <3>2, IpRefsChange DEF Refs
  <2>5. FdRefs(t)
    <3>1. ~Asking(t.client[c]) /\ ~Asking(s.client[c])
      BY <1>2, <1>5, <1>6, <1>7 DEF Asking
    <3>2. Num(Asking(t.client[c])) = 0 /\ Num(Asking(s.client[c])) = 0 /\ Num(t.client[c].fd) = 1
          /\ Num(s.client[c].fd) = 0
      BY <1>2, <1>5, <1>6, <1>7, <3>1 DEF Num
    <3>3. Num(t.listener.is = "open") = Num(s.listener.is = "open") /\ Num(s.listener.is = "open") \in {0, 1}
      BY <1>2 DEF Num
    <3>4. t.fds = s.fds + Num(t.client[c].fd) - Num(s.client[c].fd) + Num(Asking(t.client[c])) - Num(Asking(s.client[c]))
                  + Num(t.listener.is = "open") - Num(s.listener.is = "open")
      BY <1>2, <1>3, <3>2, <3>3
    <3> QED BY <1>1, <1>5, <3>4, FdRefsChange DEF Refs
  <2> QED BY <2>1, <2>2, <2>3, <2>4, <2>5 DEF Refs
<1>11. Blocks(t)
  <2>1. t.listener.is = "none" => t.listener.ref = 0
    <3>1. t.listener.is = "none" => ~r.port /\ s.listener.ref = 0
      BY <1>1, <1>2 DEF Blocks
    <3> QED BY <1>2, <3>1 DEF Num
  <2> QED BY <1>1, <1>4, <2>1 DEF Blocks
<1>12. Limits(t)
  <2>1. \A d \in Conn : d \in Admitted(t) =>
           /\ d \in Admitted(s) /\ t.client[d].confs = s.client[d].confs /\ t.client[d].ip = s.client[d].ip
           /\ \A x \in t.client[d].confs \cap Auth : t.conf[x].class = s.conf[x].class
    BY <1>2, <1>4, <1>5 DEF Admitted, Early
  <2>2. t.fds <= FdLimit
    BY <1>2
  <2> QED BY <1>1, <2>1, <2>2, LimitsShrink
<1>13. \A d \in Conn : GoodClient(t, F, d)
  <2>1. ASSUME NEW d \in Conn \ {c} PROVE GoodClient(t, F, d)
    <3>1. GoodClient(s, F, d)
      BY <1>1 DEF GoodClient
    <3>2. Asked(t, d) = Asked(s, d) /\ (OnAbort(t, d) <=> OnAbort(s, d))
      BY <1>4 DEF Asked, OnAbort
    <3> QED BY <1>4, <1>5, <3>1, <3>2, SameClient
  <2> QED BY <2>1
<1> QED BY <1>1, <1>4, <1>5, <1>6, <1>7, <1>8, <1>10, <1>11, <1>12, <1>13 DEF GoodBut, Kept
=============================================================================
