----------------------------- MODULE Connection -----------------------------
(***************************************************************************)
(* The connections of one server, from accept() or connect() to the memory  *)
(* they give back: listeners, the address cache, the DNS and ident lookups  *)
(* of auth.c, registration, the server handshake, the configuration blocks  *)
(* and classes a connection holds on to, and the ways it ends - at once      *)
(* (exit_client), at the end of the pass of io_loop() when a write failed   *)
(* (abort_list), and only then freed (dead_list).                           *)
(*                                                                          *)
(* The process has one thread: a step is one callback, run to its end.  The  *)
(* functions of the source are operators from a state s of the process and  *)
(* their arguments to the state they leave, and are composed as the source   *)
(* calls them.  Time is abstracted: a timer may run out whenever it is set.  *)
(***************************************************************************)
EXTENDS Integers, Sequences, FiniteSets, SequencesExt

CONSTANTS
  Conn,          \* slots of connections
  Ip,            \* addresses they come from
  Auth, Connect, \* auth {} and connect {} blocks, one object each time one is read
  Class,         \* names of classes
  Default,       \* the class that is always there
  Exempt,        \* the auth blocks with exceed_limit
  MaxTotal, PerIp, \* limits of a class: connections, and those of an address
  Throttle,      \* connections an address may make within throttle_time
  FdLimit, Reserve \* descriptors, and those kept back from clients

Conf == Auth \cup Connect

ASSUME ConnAssumption ==
  /\ IsFiniteSet(Conn) /\ IsFiniteSet(Conf) /\ Ip # {}
  /\ Auth \cap Connect = {} /\ Conn \cap Conf = {}
  /\ Default \in Class /\ Exempt \subseteq Auth
  /\ {MaxTotal, PerIp, Throttle, FdLimit, Reserve} \subseteq Nat

VARIABLES ircd, phase
vars == <<ircd, phase>>

-----------------------------------------------------------------------------
\* The state.

Flags  == {"dead", "closing", "auth", "iphash", "cookie", "tls", "ping"}
NoAuth == [dns |-> FALSE, ident |-> "off"]
Lookup == [dns : BOOLEAN, ident : {"no", "connect", "read"}]
Request == [who : Conn \cup Connect, ptr : BOOLEAN]

\* list: which of unknown_list, local_client_list, local_server_list holds it;
\* ping: random_ping has been sent; port: it counts on its listener.
Client == [is    : {"none", "unknown", "connecting", "handshake", "client", "server"},
           list  : {"none", "unknown", "client", "server"},
           flags : SUBSET Flags, need : SUBSET {"nick", "user", "cap"},
           auth  : Lookup \cup {NoAuth}, fd : BOOLEAN, confs : SUBSET Conf,
           ip    : Ip, port : BOOLEAN]
Gone   == [is |-> "none", list |-> "none", flags |-> {}, need |-> {}, auth |-> NoAuth,
           fd |-> FALSE, confs |-> {}, ip |-> CHOOSE p \in Ip : TRUE, port |-> FALSE]
client_make(is, p) == [Gone EXCEPT !.is = is, !.list = "unknown", !.need = {"nick", "user"},
                                   !.fd = TRUE, !.ip = p]

MaskItem  == [is : {"none", "on", "off"}, ref : Nat, class : Class, dns : {"no", "pending", "failed"}]
ClassItem == [is : {"none", "on", "off"}, ref : Nat]
Listener  == [is : {"none", "closed", "open"}, ref : Nat]
IpEntry   == [local : Nat, tries : Nat, fresh : BOOLEAN]
NoConf    == [is |-> "none", ref |-> 0, class |-> Default, dns |-> "no"]
NoEntry   == [local |-> 0, tries |-> 0, fresh |-> FALSE]

\* misuse: memory given back is used, or an assertion about a list or count failed.
State == [client : [Conn -> Client], abort : Seq(Conn), dead : SUBSET Conn, query : SUBSET Request,
          conf : [Conf -> MaskItem], class : [Class -> ClassItem], listener : Listener,
          ip : [Ip -> IpEntry], fds : Int, ping_cookie : BOOLEAN, misuse : BOOLEAN]

Listed(s, l)    == {c \in Conn : s.client[c].list = l}
Has(s, c, f)    == f \in s.client[c].flags
Flag(s, c, f)   == [s EXCEPT !.client[c].flags = @ \cup {f}]
Defunct(s, c)   == Has(s, c, "dead") \/ Has(s, c, "closing")
Misused(s, bad) == [s EXCEPT !.misuse = @ \/ bad]
OnAbort(s, c)   == c \in Range(s.abort)

-----------------------------------------------------------------------------
\* Output that fails, exits, and what they give back.

\* send_message(): past SendQ or on a write error the client is only marked.
dead_link_on_write(s, c) ==
  IF Defunct(s, c) THEN s ELSE Flag([s EXCEPT !.abort = Append(@, c)], c, "dead")
Sent(s, c, fails) == IF fails THEN dead_link_on_write(s, c) ELSE s

rem_request(s, q) == Misused([s EXCEPT !.query = @ \ {q}], q \notin s.query)
delete_resolver_queries(s, w) == [s EXCEPT !.query = {q \in @ : q.who # w}]
Ask(s, w, ptr) == [s EXCEPT !.query = @ \cup {[who |-> w, ptr |-> ptr]}]

fd_close(s) == [s EXCEPT !.fds = @ - 1]

CloseIdent(s, c) == IF s.client[c].auth.ident \in {"connect", "read"}
                    THEN fd_close([s EXCEPT !.client[c].auth.ident = "no"]) ELSE s
\* Mutant: the exit leaves the lookups alone.
auth_delete_nothing(s, c) == s
auth_delete(s, c) ==
  IF s.client[c].auth = NoAuth THEN s
  ELSE [delete_resolver_queries(CloseIdent(s, c), c) EXCEPT !.client[c].auth = NoAuth]

Freed(item) == IF item.ref = 0 /\ item.is = "off" THEN [item EXCEPT !.is = "none"] ELSE item
Unused(s)   == {x \in Conf : s.conf[x].ref = 0 /\ s.conf[x].is = "off"}
\* Mutant: the lookups for a block outlive it.
conf_free_asked(s, X) == [s EXCEPT !.conf = [x \in Conf |-> IF x \in X THEN NoConf ELSE s.conf[x]]]
conf_free(s, X) == [s EXCEPT !.conf  = [x \in Conf |-> IF x \in X THEN NoConf ELSE s.conf[x]],
                             !.query = {q \in @ : q.who \notin X}]
conf_attach(s, c, x) ==
  IF x \in s.client[c].confs THEN s
  ELSE [s EXCEPT !.client[c].confs = @ \cup {x}, !.conf[x].ref = @ + 1,
                 !.class[s.conf[x].class].ref = @ + 1]
conf_detach(s, c) ==
  LET X    == s.client[c].confs
      n(k) == Cardinality({x \in X : s.conf[x].class = k})
      t    == [s EXCEPT
        !.client[c].confs = {},
        !.conf  = [x \in Conf |-> IF x \in X THEN [s.conf[x] EXCEPT !.ref = @ - 1] ELSE s.conf[x]],
        !.class = [k \in Class |-> IF n(k) > 0 THEN Freed([s.class[k] EXCEPT !.ref = @ - n(k)])
                                               ELSE s.class[k]]]
  IN Misused(conf_free(t, X \cap Unused(t)), \E x \in X : s.conf[x].ref = 0 \/ s.class[s.conf[x].class].ref = 0)

ipcache_record_delete(e) == IF e.local = 0 /\ ~e.fresh THEN NoEntry ELSE e
\* Mutant: the address forgets nobody.
ipcache_record_remove_nothing(s, p) == s
ipcache_record_remove(s, p) ==
  Misused([s EXCEPT !.ip[p] = ipcache_record_delete([s.ip[p] EXCEPT !.local = @ - 1])], s.ip[p].local = 0)

client_close_connection(s, c) == conf_detach(fd_close([s EXCEPT !.client[c].fd = FALSE]), c)

exit_one_client(s, c) ==
  LET t == IF Has(s, c, "iphash")
           THEN ipcache_record_remove([s EXCEPT !.client[c].flags = @ \ {"iphash"}], s.client[c].ip)
           ELSE s
  IN Misused(Flag([t EXCEPT !.dead = @ \cup {c}], c, "dead"), c \in s.dead)

ListOf(is) == CASE is = "client" -> "client" [] is = "server" -> "server" [] OTHER -> "unknown"
exit_client(s, c) ==
  IF Has(s, c, "closing") THEN s
  ELSE LET t == auth_delete(Flag(s, c, "closing"), c)
           u == Misused([t EXCEPT !.client[c].list = "none"],
                        s.client[c].list # ListOf(s.client[c].is))
       IN exit_one_client(client_close_connection(u, c), c)

dead_link_on_read(s, c) == IF Defunct(s, c) THEN s ELSE exit_client(s, c)
\* Several exits in a row, in the order of a list nothing here depends on.
exit_all(s, C) == FoldSet(LAMBDA c, t : exit_client(t, c), s, C)

-----------------------------------------------------------------------------
\* Accepting a connection, and its lookups.

conf_connect_allowed(s, p) == ~(s.ip[p].fresh /\ s.ip[p].tries >= Throttle)
Tried(e) == [e EXCEPT !.tries = IF e.fresh THEN @ + 1 ELSE 1, !.fresh = TRUE]

\* The lookups have both ended: the client is read, and may be gone by then.
auth_release_client(s, c, eof) ==
  IF s.client[c].auth.dns \/ s.client[c].auth.ident # "no" THEN s
  ELSE LET t == Misused(Flag([s EXCEPT !.client[c].auth = NoAuth], c, "auth"), ~s.client[c].fd)
       IN IF eof THEN dead_link_on_read(t, c) ELSE t

\* Mutant: an ident error does not look whether all is done.
auth_error_unreleased(s, c, eof) == CloseIdent(s, c)
auth_error(s, c, eof) == auth_release_client(CloseIdent(s, c), c, eof)
\* comm_connect_tcp() may fail and call back before it returns.
auth_start_query(s, c, fails) ==
  LET t == [s EXCEPT !.client[c].auth.ident = "connect", !.fds = @ + 1]
  IN IF s.fds >= FdLimit THEN s ELSE IF fails THEN auth_error(t, c, FALSE) ELSE t
auth_start(s, c, ident, fails) ==
  LET t == [s EXCEPT !.client[c].auth = [dns |-> TRUE, ident |-> "no"]]
      u == IF ident THEN auth_start_query(t, c, fails) ELSE t
  IN Misused(Ask(u, c, TRUE), u.client[c].auth = NoAuth)

auth_dns_callback(s, c, eof) ==
  Misused(auth_release_client([s EXCEPT !.client[c].auth.dns = FALSE], c, eof),
          s.client[c].auth = NoAuth)
conf_dns_callback(s, x, ok) ==
  Misused([s EXCEPT !.conf[x].dns = IF ok THEN "no" ELSE "failed"], s.conf[x].is = "none")
dns_callback(s, q, ok, eof) ==
  IF q.who \in Conn THEN auth_dns_callback(s, q.who, eof) ELSE conf_dns_callback(s, q.who, ok)
\* An answer, an error or the last timeout; a good PTR asks for the name's address.
res_readreply(s, q, ok, eof) ==
  rem_request(IF ok /\ q.ptr THEN Ask(s, q.who, FALSE) ELSE dns_callback(s, q, ok, eof), q)

-----------------------------------------------------------------------------
\* Registration, as a client or as a server.

TooMany(s, c, x) ==
  LET k == s.class[s.conf[x].class]
  IN x \notin Exempt /\ (k.ref >= MaxTotal \/ s.ip[s.client[c].ip].local > PerIp)
\* The client is counted first, then looked at; a client refused is exited counted.
attach_iline(s, c, x) ==
  LET t == Flag([s EXCEPT !.ip[s.client[c].ip].local = @ + 1], c, "iphash")
  IN IF TooMany(t, c, x) THEN exit_client(t, c) ELSE conf_attach(t, c, x)
conf_check_client(s, c, X) ==
  IF X = {} THEN exit_client(s, c) ELSE attach_iline(s, c, CHOOSE x \in X : TRUE)

\* X: the auth block found, if any; why: what comes of the checks after it.
register_local_user(s, c, X, why) ==
  LET t == conf_check_client(s, c, X)
  IN CASE s.ping_cookie /\ ~Has(s, c, "ping") -> Flag(s, c, "ping")
       [] s.ping_cookie /\ Has(s, c, "ping") /\ ~Has(s, c, "cookie") -> s
       [] OTHER -> IF Has(t, c, "closing") THEN t
                   ELSE CASE why = "refused" -> exit_client(t, c)
                          [] why = "write"   -> dead_link_on_write(t, c)
                          [] why = "ok"      -> Misused([t EXCEPT !.client[c].is = "client",
                                                                  !.client[c].list = "client"],
                                                        t.client[c].list # "unknown")
Registered(s, c, X, why) == IF s.client[c].need = {} THEN register_local_user(s, c, X, why) ELSE s

cap_ls(s, c)  == [s EXCEPT !.client[c].need = @ \cup {"cap"}]
cap_end(s, c, X, why)  == Registered([s EXCEPT !.client[c].need = @ \ {"cap"}], c, X, why)
mr_nick(s, c, X, why)  == Registered([s EXCEPT !.client[c].need = @ \ {"nick"}], c, X, why)
do_user(s, c, X, why)  == Registered([s EXCEPT !.client[c].need = @ \ {"user"}], c, X, why)
mr_pong(s, c, X, why)  ==
  IF s.ping_cookie /\ Has(s, c, "ping") THEN Registered(Flag(s, c, "cookie"), c, X, why) ELSE s

\* The one peer a connect {} block names.
hash_find_server(s) == {c \in Conn : s.client[c].is = "server" /\ s.client[c].list = "server"}
in_progress(s) == {c \in Listed(s, "unknown") : s.client[c].is \in {"connecting", "handshake"}}

server_estab(s, c, why) ==
  IF why = "write" THEN dead_link_on_write(s, c)
  ELSE [s EXCEPT !.client[c].is = "server", !.client[c].list = "server"]
mr_server(s, c, X, why) ==
  LET t == conf_attach(s, c, CHOOSE x \in X : TRUE)
  IN CASE X = {} \/ why = "refused" -> exit_client(s, c)
       [] X # {} /\ why # "refused" /\ hash_find_server(s) # {} -> exit_client(t, c)
       [] OTHER -> server_estab(exit_all(t, in_progress(t) \ {c}), c, why)

-----------------------------------------------------------------------------
\* Reading the configuration again.

Off(x) == IF x.is = "on" THEN [x EXCEPT !.is = "off"] ELSE x
listener_close(l) == IF l.ref > 0 THEN [l EXCEPT !.is = "closed"] ELSE [l EXCEPT !.is = "none"]
conf_clear(s) ==
  LET t == [s EXCEPT
        !.conf     = [x \in Conf |-> Off(s.conf[x])],
        !.class    = [k \in Class |-> IF k = Default THEN s.class[k] ELSE Off(s.class[k])],
        !.listener = listener_close(@),
        !.fds      = IF s.listener.is = "open" THEN @ - 1 ELSE @]
  IN conf_free(t, Unused(t))

listener_add(s, bound) ==
  IF bound /\ s.fds < FdLimit THEN [s EXCEPT !.listener.is = "open", !.fds = @ + 1]
                              ELSE [s EXCEPT !.listener = listener_close(@)]

\* new: the blocks now read, each with the class it names; K: the classes read;
\* slow: the connect blocks whose host name has to be looked up.
conf_read(s, new, K, slow) ==
  LET class == [k \in Class |-> IF k \in K THEN [s.class[k] EXCEPT !.is = "on"] ELSE s.class[k]]
      named(x) == IF class[new[x]].is = "on" THEN new[x] ELSE Default
  IN [s EXCEPT
       !.conf  = [x \in Conf |-> IF x \notin DOMAIN new THEN s.conf[x]
                   ELSE [is |-> "on", ref |-> 0, class |-> named(x),
                         dns |-> IF x \in slow THEN "pending" ELSE "no"]],
       !.query = @ \cup {[who |-> x, ptr |-> FALSE] : x \in slow},
       !.class = [k \in Class |-> Freed(class[k])]]

conf_rehash(s, new, K, slow, cookie, bound, banned) ==
  exit_all([listener_add(conf_read(conf_clear(s), new, K, slow), bound) EXCEPT !.ping_cookie = cookie],
           banned)

-----------------------------------------------------------------------------
\* The steps.

\* io_loop() runs timed events, then what select() says is ready, then the aborted clients.
Running == phase # "abort"
Event   == phase = "events"
Ready   == phase = "io"
Do(s)   == ircd' = s /\ UNCHANGED phase
Client_(c) == ircd.client[c]
Reads(c) == Ready /\ Client_(c).fd /\ ~Defunct(ircd, c)
\* A block a client matches, or none.
Found(X) == {{x} : x \in {y \in X : ircd.conf[y].is = "on"}} \cup {{}}
Why == {"ok", "refused", "write"}

add_connection(s, c, p, tls, ident, fails) ==
  LET t == [s EXCEPT !.client[c] = [client_make("unknown", p) EXCEPT !.port = TRUE],
                     !.listener.ref = @ + 1, !.fds = @ + 1, !.ip[p] = Tried(@)]
  IN CASE tls = "no"   -> auth_start(t, c, ident, fails)
       [] tls = "ok"   -> Flag(t, c, "tls")
       [] tls = "fail" -> exit_client(Flag(t, c, "dead"), c)
listener_accept_connection(c, p, tls, ident, fails) ==
  /\ Ready /\ ircd.listener.is = "open" /\ Client_(c).is = "none"
  /\ ircd.fds < FdLimit /\ ircd.fds <= FdLimit - Reserve
  /\ conf_connect_allowed(ircd, p)
  /\ Do(add_connection(ircd, c, p, tls, ident, fails))

Handshaking(c) == Running /\ Client_(c).fd /\ Has(ircd, c, "tls")
ssl_handshake(c, ident, fails) ==
  /\ Ready /\ Handshaking(c)
  /\ LET t == [ircd EXCEPT !.client[c].flags = @ \ {"tls"}]
     IN Do(IF Client_(c).is = "connecting" THEN [t EXCEPT !.client[c].is = "handshake"]
                                            ELSE auth_start(t, c, ident, fails))
TlsFails(c) == Handshaking(c) /\ Do(exit_client(ircd, c))

auth_connect_callback(c) ==
  /\ Ready /\ Client_(c).auth.ident = "connect"
  /\ Do([ircd EXCEPT !.client[c].auth.ident = "read"])
\* An error, a reply, good or not, or the timeout.
IdentEnds(c, eof) ==
  /\ Running /\ (eof => Ready) /\ Client_(c).auth.ident \in {"connect", "read"}
  /\ Do(auth_error(ircd, c, eof))
\* q ends: answered (ok), or failed; the client behind it may then send what ends it.
LookupEnds(q, ok, eof) ==
  /\ Running /\ (ok \/ eof => Ready) /\ q \in ircd.query
  /\ Do(res_readreply(ircd, q, ok, eof))

Unregistered(c) == Reads(c) /\ Client_(c).is = "unknown" /\ Has(ircd, c, "auth")
Command(c, X, why) ==
  /\ Unregistered(c)
  /\ \/ Do(cap_ls(ircd, c))
     \/ Do(cap_end(ircd, c, X, why))
     \/ Do(mr_nick(ircd, c, X, why))
     \/ Do(do_user(ircd, c, X, why))
     \/ Do(mr_pong(ircd, c, X, why))
Server(c, X, why) ==
  /\ Unregistered(c) \/ (Reads(c) /\ Client_(c).is = "handshake")
  /\ Do(mr_server(ircd, c, X, why))
\* A gateway that knows its password tells the client's real address, unless that is banned.
mr_webirc(c, p, banned) ==
  /\ Unregistered(c)
  /\ Do(LET t == [ircd EXCEPT !.client[c].ip = p] IN IF banned THEN exit_client(t, c) ELSE t)
m_quit(c) ==
  /\ Unregistered(c) \/ (Reads(c) /\ Client_(c).is = "client")
  /\ Do(exit_client(ircd, c))
\* The protocol or the clock of the peer is too far from ours.
ms_svinfo(c) == Reads(c) /\ Client_(c).is = "server" /\ Do(exit_client(ircd, c))
\* The end of the input, a read error, or more input than is allowed.
read_packet(c) ==
  /\ Reads(c) /\ \/ Has(ircd, c, "auth") \/ Client_(c).is \in {"handshake", "server"}
  /\ Do(dead_link_on_read(ircd, c))
\* Something is sent to c, by whoever's callback, and cannot be.
WriteFails(c) ==
  /\ Client_(c).fd /\ ~Defunct(ircd, c) /\ ~Has(ircd, c, "tls") /\ Client_(c).is # "connecting"
  /\ Do(dead_link_on_write(ircd, c))
\* KILL, a new ban, a collision: another's callback exits a client.
Killed(c) == Ready /\ Client_(c).list = "client" /\ Do(exit_client(ircd, c))
mo_close(o) ==
  /\ Reads(o) /\ Client_(o).is = "client"
  /\ Do(exit_all(ircd, Listed(ircd, "unknown")))

check_pings_list(c) ==
  /\ Event /\ Client_(c).list \in {"client", "server"} /\ ~Has(ircd, c, "dead")
  /\ Do(exit_client(ircd, c))
check_unknowns_list(c) ==
  /\ Event /\ Client_(c).list = "unknown"
  /\ Client_(c).is = "handshake" \/ Has(ircd, c, "auth")
  /\ Do(exit_client(ircd, c))

server_connect(c, x) ==
  LET t == [ircd EXCEPT !.client[c] = client_make("connecting", Gone.ip), !.fds = @ + 1]
  IN conf_attach(t, c, x)
Free(c, x) ==
  /\ Client_(c).is = "none" /\ ircd.fds < FdLimit
  /\ ircd.conf[x].is = "on" /\ ircd.conf[x].dns = "no"
  /\ hash_find_server(ircd) = {} /\ in_progress(ircd) = {}
try_connections(c, x, fails) ==
  /\ Event /\ Free(c, x) /\ ircd.class[ircd.conf[x].class].ref < MaxTotal
  /\ Do(Sent(server_connect(c, x), c, fails))
\* An operator's CONNECT does not look at the class.
mo_connect(o, c, x, fails) ==
  /\ Reads(o) /\ Client_(o).is = "client" /\ Free(c, x)
  /\ Do(Sent(server_connect(c, x), c, fails))
Connecting(c) ==
  Running /\ Client_(c).is = "connecting" /\ Client_(c).fd /\ ~Defunct(ircd, c) /\ ~Has(ircd, c, "tls")
server_connect_callback(c, tls) ==
  /\ Ready /\ Connecting(c)
  /\ Do(CASE tls = "no"   -> [ircd EXCEPT !.client[c].is = "handshake"]
          [] tls = "ok"   -> Flag(ircd, c, "tls")
          [] tls = "fail" -> exit_client(Flag(ircd, c, "dead"), c))
ConnectFails(c) == Connecting(c) /\ Do(dead_link_on_write(ircd, c))

ipcache_remove_expired_records(p) ==
  /\ Event /\ ircd.ip[p].fresh
  /\ Do([ircd EXCEPT !.ip[p] = ipcache_record_delete([@ EXCEPT !.fresh = FALSE])])

Rehash(new, K, slow, cookie, bound, banned) ==
  /\ Running
  /\ \A x \in DOMAIN new : ircd.conf[x].is = "none"
  /\ \A c \in banned : Client_(c).list \in {"client", "unknown"} /\ ~Has(ircd, c, "dead")
  /\ Do(conf_rehash(ircd, new, K, slow, cookie, bound, banned))

\* comm_select() is called, and returns; a pass that leaves nothing to clean up just ends.
comm_select ==
  /\ Running /\ UNCHANGED ircd
  /\ phase' = CASE Event -> "io" [] Ready -> IF ircd.abort # <<>> \/ ircd.dead # {} THEN "abort" ELSE "events"
exit_aborted_clients ==
  /\ phase = "abort" /\ ircd.abort # <<>>
  /\ Do(exit_client([ircd EXCEPT !.abort = Tail(@)], Head(ircd.abort)))

Held(s, c) == \/ s.client[c].list # "none" \/ s.client[c].auth # NoAuth \/ s.client[c].fd
              \/ s.client[c].confs # {} \/ OnAbort(s, c) \/ \E q \in s.query : q.who = c
listener_release(l, n) ==
  IF l.ref = n /\ l.is = "closed" THEN [is |-> "none", ref |-> 0] ELSE [l EXCEPT !.ref = @ - n]
client_free(s, C) ==
  Misused([s EXCEPT !.client   = [c \in Conn |-> IF c \in C THEN Gone ELSE s.client[c]],
                    !.listener = listener_release(@, Cardinality({c \in C : s.client[c].port})),
                    !.dead     = @ \ C],
          \E c \in C : Held(s, c))
free_exited_clients ==
  /\ phase = "abort" /\ ircd.abort = <<>>
  /\ ircd' = client_free(ircd, ircd.dead) /\ phase' = "events"

-----------------------------------------------------------------------------
\* The specification.

NoState == [client |-> [c \in Conn |-> Gone], abort |-> <<>>, dead |-> {}, query |-> {},
            conf |-> [x \in Conf |-> NoConf],
            class |-> [k \in Class |-> [is |-> IF k = Default THEN "on" ELSE "none", ref |-> 0]],
            listener |-> [is |-> "none", ref |-> 0], ip |-> [p \in Ip |-> NoEntry],
            fds |-> 0, ping_cookie |-> FALSE, misuse |-> FALSE]
\* main() reads the configuration once before the first pass.
Booted(new, K, slow, cookie) ==
  [listener_add(conf_read(NoState, new, K, slow), TRUE) EXCEPT !.ping_cookie = cookie]
Files == UNION {[X -> Class] : X \in SUBSET Conf}

Init ==
  /\ \E new \in Files, K \in SUBSET Class, cookie \in BOOLEAN :
       \E slow \in SUBSET (DOMAIN new \cap Connect) : ircd = Booted(new, K, slow, cookie)
  /\ phase = "events"

Callbacks ==
  \/ \E c \in Conn, ident \in BOOLEAN, fails \in BOOLEAN : ssl_handshake(c, ident, fails)
  \/ \E c \in Conn, tls \in {"no", "ok", "fail"} : server_connect_callback(c, tls)
  \/ \E c \in Conn : auth_connect_callback(c)
  \/ \E c \in Conn, eof \in BOOLEAN : IdentEnds(c, eof)
  \/ \E q \in Request, ok \in BOOLEAN, eof \in BOOLEAN : LookupEnds(q, ok, eof)
  \/ \E c \in Conn : TlsFails(c) \/ ConnectFails(c)
Input ==
  \/ \E c \in Conn, why \in Why : \/ \E X \in Found(Auth) : Command(c, X, why)
                                  \/ \E X \in Found(Connect) : Server(c, X, why)
  \/ \E c \in Conn, p \in Ip, banned \in BOOLEAN : mr_webirc(c, p, banned)
  \/ \E c \in Conn : m_quit(c) \/ ms_svinfo(c) \/ read_packet(c) \/ WriteFails(c) \/ Killed(c) \/ mo_close(c)
Events ==
  \/ \E c \in Conn : check_pings_list(c) \/ check_unknowns_list(c)
  \/ \E p \in Ip : ipcache_remove_expired_records(p)
Accepts == \E c \in Conn, p \in Ip, tls \in {"no", "ok", "fail"}, ident, fails \in BOOLEAN :
             listener_accept_connection(c, p, tls, ident, fails)
Connects == \E c \in Conn, x \in Connect, fails \in BOOLEAN :
              try_connections(c, x, fails) \/ \E o \in Conn : mo_connect(o, c, x, fails)
Rehashes == \E new \in Files, K \in SUBSET Class, cookie, bound \in BOOLEAN, banned \in SUBSET Conn :
              \E slow \in SUBSET (DOMAIN new \cap Connect) :
                Rehash(new, K, slow, cookie, bound, banned)
Passes == comm_select \/ exit_aborted_clients \/ free_exited_clients

Next == Callbacks \/ Input \/ Events \/ Accepts \/ Connects \/ Rehashes \/ Passes

Spec == Init /\ [][Next]_vars

-----------------------------------------------------------------------------
\* Properties.

\* Everything has its type.
TypeOK == ircd \in State /\ phase \in {"events", "io", "abort"}

Local == {c \in Conn : Client_(c).is # "none"}
Open  == {c \in Conn : Client_(c).fd}

\* Every reference count is the number of those who refer: blocks and classes by the connections
\* attached to them, the listener by the connections accepted on it, an address by the clients
\* counted under it, and the descriptors by the sockets open.
RefsHold ==
  /\ \A x \in Conf : ircd.conf[x].ref = Cardinality({c \in Conn : x \in Client_(c).confs})
  /\ \A k \in Class :
       ircd.class[k].ref = Cardinality({r \in Conn \X Conf : r[2] \in Client_(r[1]).confs /\ ircd.conf[r[2]].class = k})
  /\ ircd.listener.ref = Cardinality({c \in Conn : Client_(c).port})
  /\ \A p \in Ip : ircd.ip[p].local = Cardinality({c \in Local : Has(ircd, c, "iphash") /\ Client_(c).ip = p})
  /\ ircd.fds = Cardinality(Open) + Cardinality({c \in Conn : Client_(c).auth.ident \in {"connect", "read"}})
                + (IF ircd.listener.is = "open" THEN 1 ELSE 0)

\* Nothing that is still referred to has been given back: a lookup has someone waiting for it, a
\* block in use has its class, a client is on the list of its state until it is exited and on
\* dead_list from then, and one whose write failed is on abort_list until it is exited.
NoDangling ==
  /\ ~ircd.misuse
  /\ \A q \in ircd.query : IF q.who \in Conn THEN Client_(q.who).auth.dns ELSE ircd.conf[q.who].is # "none"
  /\ \A c \in Conn : \A x \in Client_(c).confs : ircd.conf[x].is # "none"
  /\ \A x \in Conf : ircd.conf[x].is # "none" => ircd.class[ircd.conf[x].class].is # "none"
  /\ \A c \in Conn : Client_(c).port => ircd.listener.is # "none"
  /\ \A c \in Local : IF Has(ircd, c, "closing") THEN c \in ircd.dead /\ ~Client_(c).fd
                                                 ELSE /\ Client_(c).list = ListOf(Client_(c).is)
                                                      /\ Has(ircd, c, "dead") <=> OnAbort(ircd, c)
  /\ ircd.dead \subseteq Local /\ Range(ircd.abort) \subseteq Local
  /\ IsInjective(ircd.abort)

\* The limits of a class bound those it was allowed to take: no more clients than max_number,
\* none of an address beyond max_perip, and descriptors are left over for the server itself.
LimitsHold ==
  LET in == {c \in Conn : /\ Client_(c).is = "client" /\ Client_(c).list = "client"
                          /\ Client_(c).confs \cap Auth # {} /\ Client_(c).confs \cap Exempt = {}}
      of(k) == {c \in in : \E x \in Client_(c).confs \cap Auth : ircd.conf[x].class = k}
      at(p) == {c \in in : Client_(c).ip = p}
  IN /\ \A k \in Class : Cardinality(of(k)) <= MaxTotal
     /\ \A p \in Ip : Cardinality(at(p)) <= PerIp
     /\ ircd.fds <= FdLimit

\* What is counted is what there is, and stays within the limits, however lookups, refusals,
\* exits and a configuration read again interleave (client.c:612, ipcache.c:79, conf_class.c:168).
CountsHold == TypeOK /\ RefsHold /\ LimitsHold

\* A client is exited once: nothing happens to it any more until its memory is given back.
ClosedUntouched ==
  \A c \in Conn : Has(ircd, c, "closing") => ircd'.client[c] \in {Client_(c), Gone}
ExitedOnce == [][ClosedUntouched]_vars

\* Nobody is forgotten: whatever order lookups, handshakes and errors come in, a connection that
\* is not registered has a timer set that will end what it waits for, or the connection.
Timed(c) ==
  \/ Client_(c).auth.ident \in {"connect", "read"} \/ \E q \in ircd.query : q.who = c
  \/ Has(ircd, c, "tls") \/ Client_(c).is \in {"connecting", "handshake"} \/ Has(ircd, c, "auth")
WatchedOver == \A c \in Conn : Client_(c).list = "unknown" => Timed(c) \/ OnAbort(ircd, c)

\* exit_client() asserts, when it is done, that the client is on no list of those to be aborted.
AbortedFirst == \A c \in Conn : Has(ircd, c, "closing") => ~OnAbort(ircd, c)
=============================================================================
