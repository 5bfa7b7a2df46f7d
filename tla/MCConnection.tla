---------------------------- MODULE MCConnection ----------------------------
(***************************************************************************)
(* Connection for TLC.  A run starts from each of some Worlds: the          *)
(* configuration first read (conf), that a rehash reads (again), the slots  *)
(* that may be used, the addresses that connect (from), and how often one   *)
(* does, the server connects, the configuration is read, a client is killed *)
(* and a write fails (left).                                                *)
(***************************************************************************)
EXTENDS Connection, TLC

CONSTANTS c1, c2, c3, p1, p2, x1, x2, y1, y2, k0, k1, Worlds

VARIABLES world, left
mcvars == <<vars, world, left>>

Nothing == [x \in {} |-> k0]
File(new, K, slow) == [new |-> new, K |-> K, slow |-> slow]
Left(accept, connect, rehash, kill, write) ==
  [accept |-> accept, connect |-> connect, rehash |-> rehash, kill |-> kill, write |-> write]

World == [
  \* One client is there; others come from two addresses, up to the limits.
  clients |-> [conf |-> File(x1 :> k1, {k1}, {}), again |-> {}, cookie |-> FALSE, tls |-> {"no"},
               ident |-> {FALSE}, from |-> {p1, p2}, left |-> Left(2, 0, 0, 0, 0)],
  \* Their lookups, a TLS handshake and the ping cookie.
  lookups |-> [conf |-> File(x1 :> k1, {k1}, {}), again |-> {}, cookie |-> TRUE, tls |-> {"no", "ok", "fail"},
               ident |-> BOOLEAN, from |-> {p1, p2}, left |-> Left(2, 0, 0, 0, 1)],
  \* A server is connected to, by itself or by the word of an operator, or connects.
  server  |-> [conf |-> File(x1 :> k0 @@ y1 :> k1, {k1}, {y1}), again |-> {}, cookie |-> FALSE, tls |-> {"no", "ok"},
               ident |-> {FALSE}, from |-> {p2}, left |-> Left(1, 1, 0, 1, 1)],
  \* The blocks and classes in use are read again, and a name is still being looked up.
  rehash  |-> [conf |-> File(x1 :> k1 @@ y1 :> k1, {k1}, {y1}), cookie |-> FALSE, tls |-> {"no"},
               again |-> {File(x2 :> k1 @@ y2 :> k0, {k1}, {y2}), File(x2 :> k0, {}, {})},
               ident |-> {FALSE}, from |-> {p1}, left |-> Left(1, 1, 2, 0, 0)]]

\* c, from p, was accepted, looked up and registered in x.
Welcome(s, c, p, x) ==
  LET accepted == add_connection(s, c, p, "no", FALSE, FALSE)
      known    == res_readreply(accepted, [who |-> c, ptr |-> TRUE], FALSE, FALSE)
  IN mr_nick(do_user(known, c, {x}, "ok"), c, {x}, "ok")

MCInit ==
  /\ world \in Worlds /\ left = World[world].left /\ phase = "events"
  /\ LET w == World[world]
         s == Booted(w.conf.new, w.conf.K, w.conf.slow, w.cookie)
     IN ircd = IF world \in {"clients", "server"} THEN Welcome(s, c1, p1, x1) ELSE s

Spend(k) == left[k] > 0 /\ left' = [left EXCEPT ![k] = @ - 1]

\* The slots are alike: the first that is free will do.
Slots == <<c1, c2, c3>>
FirstFree == LET free == {n \in DOMAIN Slots : Slots[n] \in Conn /\ Client_(Slots[n]).is = "none"}
             IN IF free = {} THEN c1 ELSE Slots[CHOOSE n \in free : \A m \in free : n <= m]
MCAccept == \E c \in Conn, p \in World[world].from, tls \in World[world].tls, ident \in World[world].ident, fails \in BOOLEAN :
  /\ c = FirstFree
  /\ Spend("accept") /\ listener_accept_connection(c, p, tls, ident, fails)
MCConnect == \E c \in Conn, x \in Connect, fails \in BOOLEAN :
  /\ c = FirstFree /\ Spend("connect")
  /\ try_connections(c, x, fails) \/ \E o \in Conn : mo_connect(o, c, x, fails)
MCRehash == \E f \in World[world].again, cookie, bound \in BOOLEAN, banned \in {{}} \cup {{c} : c \in Conn} :
  Spend("rehash") /\ Rehash(f.new, f.K, f.slow, cookie, bound, banned)
MCInput ==
  \/ \E c \in Conn, why \in Why : \/ \E X \in Found(Auth) : Command(c, X, why)
                                  \/ \E X \in Found(Connect) : Server(c, X, why)
  \/ \E c \in Conn : m_quit(c) \/ ms_svinfo(c) \/ read_packet(c) \/ mo_close(c)
  \/ world = "clients" /\ \E c \in Conn, p \in Ip, banned \in BOOLEAN : mr_webirc(c, p, banned)

MCNext ==
  /\ \/ (Callbacks \/ MCInput \/ Events \/ Passes) /\ UNCHANGED left
     \/ MCAccept \/ MCConnect \/ MCRehash
     \/ Spend("write") /\ \E c \in Conn : WriteFails(c)
     \/ Spend("kill") /\ \E c \in Conn : Killed(c)
  /\ UNCHANGED world

MCSpec == MCInit /\ [][MCNext]_mcvars
=============================================================================
