-------------------------- MODULE ConnectionProofs --------------------------
(***************************************************************************)
(* What holds of Connection for any number of connections, addresses,       *)
(* blocks and classes, and any limits.                                      *)
(*                                                                          *)
(* Inv says that a state is good (ConnectionLemmas).  For each handler that *)
(* Next may call there is a lemma: it leads from a good state to a good     *)
(* state, and touches no connection that was exited (Follows).  What is left *)
(* for the steps is to see that the handler is called of a connection as    *)
(* its lemma supposes.                                                      *)
(***************************************************************************)
EXTENDS ConnectionLemmas

-----------------------------------------------------------------------------
(* Registration as a client. *)

\* c may be registered: its lookups are over, and it is read.
Registers(s, c) == /\ GoodBut(s, {}) /\ s.client[c].is = "unknown" /\ ~Defunct(s, c) /\ "auth" \in s.client[c].flags
FoundIn(s, X, B) == X = {} \/ \E x \in B : X = {x} /\ s.conf[x].is = "on"

\* What is known of a client that may register.
LEMMA RegistersGives ==
  ASSUME NEW s, NEW c \in Conn, Registers(s, c)
  PROVE  LET r == s.client[c] IN
         /\ Live(s, c) /\ Settled(s, c) /\ Formed(s) /\ s \in State /\ r \in Client
         /\ r.is = "unknown" /\ r.list = "unknown" /\ "closing" \notin r.flags /\ "dead" \notin r.flags
         /\ r.auth = NoAuth /\ Asked(s, c) = {} /\ "iphash" \notin r.flags /\ "tls" \notin r.flags
         /\ r.confs = {} /\ ~OnAbort(s, c)
<1> DEFINE r == s.client[c]
<1>1. "closing" \notin r.flags /\ "dead" \notin r.flags /\ GoodBut(s, {}) /\ r.is = "unknown" /\ "auth" \in r.flags
  BY DEF Registers, Defunct, Has
<1>2. Live(s, c) /\ Formed(s) /\ s \in State /\ r \in Client
  BY <1>1, LiveClient
<1>3. Settled(s, c)
  BY <1>1 DEF GoodBut, GoodClient, Has
<1>4. r.auth = NoAuth
  BY <1>1, <1>2 DEF Live
<1>5. Asked(s, c) = {}
  BY <1>2, <1>4 DEF Live, NoAuth
<1>6. "tls" \notin r.flags /\ r.list = "unknown"
  BY <1>1, <1>2 DEF Live, ListOf
<1> QED BY <1>1, <1>2, <1>3, <1>4, <1>5, <1>6 DEF Settled

\* t follows s when the client was refused, or counted and attached to x within the limits.
Ilined(s, t, c, x) ==
  LET r == s.client[c]
      q == t.client[c] IN
  /\ Spared(s, t, c)
  /\ \/ Has(t, c, "closing") /\ GoodBut(t, {})
     \/ /\ ~Has(t, c, "closing") /\ GoodBut(t, {c}) /\ t.abort = s.abort /\ t.query = s.query
        /\ At({"flags", "confs"}, s, t, c) /\ q.flags = r.flags \cup {"iphash"} /\ q.confs = {x}
        /\ x \notin Exempt => t.class[t.conf[x].class].ref <= MaxTotal /\ t.ip[q.ip].local <= PerIp

\* attach_iline(): counted before it is looked at, the client is refused or is within the limits.
LEMMA IlineGood ==
  ASSUME NEW s, NEW c \in Conn, Registers(s, c), NEW x \in Auth, s.conf[x].is = "on"
  PROVE  Ilined(s, attach_iline(s, c, x), c, x)
<1> DEFINE r == s.client[c]
           u == Counting(s, c)
<1>1. /\ GoodBut(s, {}) /\ r.is = "unknown" /\ "closing" \notin r.flags /\ "iphash" \notin r.flags /\ r.confs = {}
      /\ s \in State
  BY RegistersGives DEF Registers
<1>2. /\ GoodBut(u, {c}) /\ Spared(s, u, c) /\ Only({"client", "ip"}, s, u) /\ At({"flags"}, s, u, c)
      /\ u.client[c].flags = r.flags \cup {"iphash"}
  BY <1>1, CountGood
<1>3. attach_iline(s, c, x) = IF TooMany(u, c, x) THEN exit_client(u, c) ELSE conf_attach(u, c, x)
  BY DEF attach_iline, Counting
<1> HIDE DEF u
<1>4. u.client[c].is = "unknown" /\ "closing" \notin u.client[c].flags /\ u.client[c].confs = {}
      /\ u.client[c].ip = r.ip
  BY <1>1, <1>2 DEF At, Tags
<1>5. u.conf = s.conf /\ u.abort = s.abort /\ u.query = s.query
  BY <1>2 DEF Only, Fields
<1>6. CASE TooMany(u, c, x)
  <2> DEFINE t == exit_client(u, c)
  <2>1. GoodBut(t, {c} \ {c}) /\ Spared(u, t, c) /\ Has(t, c, "closing")
    BY <1>2, <1>4, ExitGood
  <2>2. Spared(s, t, c)
    BY <1>1, <1>2, <2>1 DEF Spared
  <2>3. {c} \ {c} = {}
    OBVIOUS
  <2>4. attach_iline(s, c, x) = t
    BY <1>3, <1>6
  <2> HIDE DEF t
  <2> QED BY <2>1, <2>2, <2>3, <2>4 DEF Ilined
<1>7. CASE ~TooMany(u, c, x)
  <2> DEFINE t == conf_attach(u, c, x)
             j == s.conf[x].class
  <2>1. attach_iline(s, c, x) = t
    BY <1>3, <1>7
  <2>2. /\ GoodBut(t, {c}) /\ Spared(u, t, c) /\ Only({"client", "conf", "class"}, u, t) /\ At({"confs"}, u, t, c)
        /\ t.client[c].confs = {} \cup {x} /\ t.conf[x].class = j
        /\ t.class[j].ref = u.class[j].ref + 1
    <3>1. "closing" \notin u.client[c].flags /\ x \in Conf /\ u.conf[x].is = "on" /\ u.client[c].is # "none"
          /\ u.client[c].is # "client" /\ x \notin u.client[c].confs
      BY <1>4, <1>5 DEF Conf
    <3> HIDE DEF t
    <3>4. GoodBut(u, {c})
      BY <1>2
    <3>2. /\ GoodBut(t, {c}) /\ Spared(u, t, c) /\ Only({"client", "conf", "class"}, u, t) /\ At({"confs"}, u, t, c)
          /\ t.client[c].confs = u.client[c].confs \cup {x} /\ t.conf[x].class = u.conf[x].class
          /\ t.class[u.conf[x].class].ref = u.class[u.conf[x].class].ref + 1
      BY <3>1, <3>4, AttachOne DEF t
    <3> QED BY <1>4, <1>5, <3>2
  <2> HIDE DEF t
  <2>3. Spared(s, t, c) /\ At({"flags", "confs"}, s, t, c) /\ t.client[c].flags = r.flags \cup {"iphash"}
        /\ t.client[c].confs = {x}
    BY <1>1, <1>2, <2>2 DEF Spared, At, Tags
  <2>4. GoodBut(t, {c}) /\ t.abort = s.abort /\ t.query = s.query /\ t.ip = u.ip /\ ~Has(t, c, "closing")
    <3> QED BY <1>1, <1>5, <2>2, <2>3 DEF Only, Fields, Has
  <2>5. ASSUME x \notin Exempt PROVE t.class[t.conf[x].class].ref <= MaxTotal /\ t.ip[t.client[c].ip].local <= PerIp
    <3>1. ~ (u.class[j].ref >= MaxTotal) /\ ~ (u.ip[r.ip].local > PerIp)
      BY <1>4, <1>5, <1>7, <2>5 DEF TooMany
    <3>2. j \in Class /\ r.ip \in Ip
      <4>1. s.conf \in [Conf -> MaskItem] /\ r \in Client
        BY <1>1, Typed
      <4> QED BY <4>1, ClientTyped DEF MaskItem, Conf
    <3>3. u.class[j].ref \in Nat /\ u.ip[r.ip].local \in Nat
      BY <1>2, <3>2, Counts DEF GoodBut
    <3>4. t.client[c].ip = r.ip
      BY <2>3 DEF At, Tags
    <3> QED BY <2>2, <2>4, <3>1, <3>3, <3>4, ConnAssumption
  <2> QED BY <2>1, <2>3, <2>4, <2>5 DEF Ilined
<1> QED BY <1>6, <1>7

\* A class has at least as many references as it has connections with a block of it.
LEMMA FewerThanRefs ==
  ASSUME NEW s, ClassRefs(s), s.client \in [Conn -> Client], NEW k \in Class,
         NEW A \in SUBSET Conn, \A d \in A : \E y \in s.client[d].confs : s.conf[y].class = k
  PROVE  Cardinality(A) <= s.class[k].ref
<1> DEFINE f == [d \in A |-> <<d, CHOOSE y \in s.client[d].confs : s.conf[y].class = k>>]
<1>1. IsFiniteSet(Pairs(s, k))
  BY ConnAssumption, FS_Product, FS_Subset DEF Pairs
<1>2. ASSUME NEW d \in A PROVE f[d] \in Pairs(s, k) /\ f[d][1] = d
  <2> DEFINE y == CHOOSE z \in s.client[d].confs : s.conf[z].class = k
  <2>1. y \in s.client[d].confs /\ s.conf[y].class = k
    OBVIOUS
  <2>2. s.client[d].confs \in SUBSET Conf
    BY ClientTyped
  <2>3. f[d] = <<d, y>>
    OBVIOUS
  <2> HIDE DEF y, f
  <2> QED BY <2>1, <2>2, <2>3 DEF Pairs
<1>3. f \in [A -> Pairs(s, k)]
  <2>1. f = [d \in A |-> f[d]]
    OBVIOUS
  <2> HIDE DEF f
  <2> QED BY <1>2, <2>1
<1>4. f \in Injection(A, Pairs(s, k))
  <2> HIDE DEF f
  <2>1. IsInjective(f)
    BY <1>2, <1>3 DEF IsInjective
  <2>2. \A a, b \in A : f[a] = f[b] => a = b
    BY <1>2, <1>3
  <2> QED BY <1>3, <2>1, <2>2 DEF Injection, IsInjective
<1>5. s.class[k].ref = Cardinality(Pairs(s, k))
  BY DEF ClassRefs, Pairs
<1> QED BY <1>1, <1>4, <1>5, FS_Injection

Admits(s, c) == [s EXCEPT !.client[c].is = "client", !.client[c].list = "client"]

\* The record of an admitted client.
LEMMA AdmitForm ==
  ASSUME NEW s, Formed(s), NEW c \in Conn
  PROVE  LET t == Admits(s, c) IN
         /\ Only({"client"}, s, t) /\ At({"is", "list"}, s, t, c) /\ t.client[c].is = "client"
         /\ t.client[c].list = "client"
<1> DEFINE a == PutIs(s, c, "client")
           t == PutList(a, c, "client")
<1>1. Admits(s, c) = t
  BY DEF Admits, PutIs, PutList
<1>2. Only({"client"}, s, a) /\ At({"is"}, s, a, c) /\ a.client[c].is = "client"
  BY Putters
<1> HIDE DEF a
<1>3. Only({"client"}, a, t) /\ At({"list"}, a, t, c) /\ t.client[c].list = "client"
  BY <1>2, Putters DEF Only
<1> HIDE DEF t
<1> QED BY <1>1, <1>2, <1>3 DEF Only, At, Fields, Tags

\* A client counted in its class and address and found within the limits may be admitted: those
\* admitted to a class are no more than its references, and those of an address no more than it counts.
LEMMA AdmitGood ==
  ASSUME NEW s, NEW c \in Conn, GoodBut(s, {c}), s.client[c].is = "unknown", s.client[c].auth = NoAuth,
         ~OnAbort(s, c),
         {"closing", "dead", "tls"} \cap s.client[c].flags = {}, "iphash" \in s.client[c].flags,
         NEW x \in Auth, s.client[c].confs = {x},
         x \in Exempt \/ (s.class[s.conf[x].class].ref <= MaxTotal /\ s.ip[s.client[c].ip].local <= PerIp)
  PROVE  GoodBut(Admits(s, c), {}) /\ Kept(s, Admits(s, c))
<1> DEFINE r == s.client[c]
           t == Admits(s, c)
<1>1. Live(s, c) /\ Formed(s) /\ s \in State /\ r \in Client /\ r.list = ListOf("unknown")
  BY LiveClient
<1>2. /\ Refs(s) /\ Limits(s) /\ IsInjective(s.abort) /\ \A d \in Conn : GoodClient(s, {c}, d)
  BY DEF GoodBut
<1>3. Only({"client"}, s, t) /\ At({"is", "list"}, s, t, c) /\ t.client[c].is = "client"
      /\ t.client[c].list = "client"
  BY <1>1, AdmitForm
<1> HIDE DEF t
<1>4. LET q == t.client[c] IN q.need = r.need /\ q.auth = r.auth /\ q.flags = r.flags
      /\ q.fd = r.fd /\ q.confs = r.confs /\ q.ip = r.ip /\ q.port = r.port
  BY <1>3 DEF At, Tags
<1>5. /\ Formed(t) /\ t.abort = s.abort /\ t.dead = s.dead /\ t.query = s.query /\ t.ip = s.ip /\ t.conf = s.conf
      /\ t.class = s.class /\ t.fds = s.fds /\ \A d \in Conn \ {c} : t.client[d] = s.client[d]
  BY <1>3 DEF Only, At, Fields
<1>6. t.client[c] \in Client
  <2>1. Tagged(t.client[c])
    BY <1>5 DEF Formed
  <2> QED BY <1>1, <1>3, <1>4, <2>1, ClientTyped, ClientOf
<1>7. s.client \in [Conn -> Client] /\ s.conf \in [Conf -> MaskItem] /\ s.fds \in Int /\ s.abort \in Seq(Conn)
      /\ s.query \in SUBSET Request
  BY <1>1, Typed
<1>8. t.client \in [Conn -> Client]
  BY <1>5, <1>6, <1>7, ClientsOf
<1>9. Limits(t)
  <2> DEFINE Of(u, k) == {d \in Admitted(u) : \E y \in u.client[d].confs \cap Auth : u.conf[y].class = k}
             From(u, p) == {d \in Admitted(u) : u.client[d].ip = p}
  <2>1. ASSUME NEW d \in Conn, d # c PROVE d \in Admitted(t) <=> d \in Admitted(s)
    BY <1>5, <2>1 DEF Admitted
  <2>2. c \notin Admitted(s) /\ (c \in Admitted(t) <=> x \notin Exempt)
    BY <1>3, <1>4 DEF Admitted
  <2>3. Admitted(t) \in SUBSET Conn /\ Admitted(s) \in SUBSET Conn
    BY DEF Admitted
  <2>4. IsFiniteSet(Conn) /\ MaxTotal \in Nat /\ PerIp \in Nat
    BY ConnAssumption
  <2>5. ASSUME NEW k \in Class PROVE Cardinality(Of(t, k)) <= MaxTotal
    <3>1. CASE x \notin Exempt /\ s.conf[x].class = k
      <4>1. \A d \in Of(t, k) : \E y \in t.client[d].confs : t.conf[y].class = k
        OBVIOUS
      <4>2. Of(t, k) \in SUBSET Conn
        BY <2>3
      <4>3. ClassRefs(t)
        <5>1. \A d \in Conn : t.client[d].confs = s.client[d].confs
          BY <1>4, <1>5
        <5>2. \A j : {y \in Conn \X Conf : y[2] \in t.client[y[1]].confs /\ t.conf[y[2]].class = j}
                     = {y \in Conn \X Conf : y[2] \in s.client[y[1]].confs /\ s.conf[y[2]].class = j}
          BY <1>5, <5>1
        <5> QED BY <1>2, <1>5, <5>2 DEF ClassRefs, Refs
      <4>4. Cardinality(Of(t, k)) \in Nat
        BY <2>4, <4>2, Some
      <4> HIDE DEF Of
      <4>5. Cardinality(Of(t, k)) <= t.class[k].ref
        BY <1>8, <4>1, <4>2, <4>3, FewerThanRefs
      <4>6. s.class[k].ref \in Nat /\ s.class[k].ref <= MaxTotal
        BY <1>2, <3>1, Counts
      <4> QED BY <1>5, <2>4, <4>4, <4>5, <4>6
    <3>2. CASE x \in Exempt \/ s.conf[x].class # k
      <4>1. Of(t, k) = Of(s, k)
        <5>1. c \notin Of(t, k) /\ c \notin Of(s, k)
          BY <1>4, <1>5, <2>2, <3>2
        <5>2. \A d \in Conn \ {c} : d \in Of(t, k) <=> d \in Of(s, k)
          BY <1>5, <2>1
        <5>3. Of(t, k) \in SUBSET Conn /\ Of(s, k) \in SUBSET Conn
          BY <2>3
        <5> HIDE DEF Of
        <5> QED BY <5>1, <5>2, <5>3
      <4> QED BY <1>2, <4>1 DEF Limits
    <3> QED BY <3>1, <3>2
  <2>6. ASSUME NEW p \in Ip PROVE Cardinality(From(t, p)) <= PerIp
    <3>1. CASE x \notin Exempt /\ r.ip = p
      <4> DEFINE A == {d \in Conn : Has(s, d, "iphash") /\ s.client[d].ip = p}
      <4>1. ASSUME NEW d \in From(t, p) PROVE d \in A
        <5>1. CASE d = c
          BY <3>1, <5>1 DEF Has
        <5>2. CASE d # c
          <6>1. d \in Conn /\ d \in Admitted(s) /\ s.client[d].ip = p
            BY <1>5, <2>1, <2>3, <5>2
          <6>2. Live(s, d) /\ s.client[d].is = "client"
            BY <1>2, <6>1 DEF Admitted, GoodClient, Closed
          <6> QED BY <6>1, <6>2 DEF Live, Has
        <5> QED BY <5>1, <5>2
      <4>2. From(t, p) \in SUBSET A /\ A \in SUBSET Conn
        BY <4>1
      <4>3. Cardinality(A) = s.ip[p].local
        BY <1>2 DEF Refs, IpRefs
      <4> HIDE DEF A, From
      <4>4. IsFiniteSet(A) /\ Cardinality(A) \in Nat
        BY <2>4, <4>2, FS_Subset, Some
      <4>5. Cardinality(From(t, p)) <= Cardinality(A) /\ Cardinality(From(t, p)) \in Nat
        BY <4>2, <4>4, FS_Subset, Some
      <4> QED BY <2>4, <3>1, <4>3, <4>4, <4>5
    <3>2. CASE x \in Exempt \/ r.ip # p
      <4>1. From(t, p) = From(s, p)
        <5>1. c \notin From(t, p) /\ c \notin From(s, p)
          BY <1>4, <2>2, <3>2
        <5>2. \A d \in Conn \ {c} : d \in From(t, p) <=> d \in From(s, p)
          BY <1>5, <2>1
        <5>3. From(t, p) \in SUBSET Conn /\ From(s, p) \in SUBSET Conn
          BY <2>3
        <5> HIDE DEF From
        <5> QED BY <5>1, <5>2, <5>3
      <4> QED BY <1>2, <4>1 DEF Limits
    <3> QED BY <3>1, <3>2
  <2>7. t.fds <= FdLimit
    BY <1>2, <1>5 DEF Limits
  <2> QED BY <2>5, <2>6, <2>7 DEF Limits
<1>10. GoodClient(t, {}, c)
  <2>1. Asked(t, c) = Asked(s, c) /\ ~OnAbort(t, c)
    BY <1>5 DEF Asked, OnAbort
  <2>2. Live(t, c)
    BY <1>1, <1>3, <1>4, <1>5, <2>1 DEF Live, ListOf
  <2>3. Settled(t, c)
    BY <1>3, <1>4, <2>1 DEF Settled
  <2> QED BY <1>3, <1>4, <2>2, <2>3 DEF GoodClient, Has
<1>11. GoodBut(t, {})
  <2>1. \A p \in Ip : Counted(t.client[c], p) <=> Counted(r, p)
    BY <1>4 DEF Counted
  <2>2. \A d \in Conn : Asked(t, d) = Asked(s, d) /\ (OnAbort(t, d) <=> OnAbort(s, d))
    BY <1>5 DEF Asked, OnAbort
  <2>3. t.fds = s.fds + Num(Asking(t.client[c])) - Num(Asking(r))
    BY <1>4, <1>5, <1>7 DEF Asking, Num
  <2>4. Only({"client", "abort", "query", "fds"}, s, t)
    BY <1>3 DEF Only
  <2>5. {c} \subseteq {} \cup {c}
    OBVIOUS
  <2>6. t.abort \in Seq(Conn) /\ IsInjective(t.abort) /\ t.query \in SUBSET Request
        /\ \A q \in t.query : q \in s.query \/ q.who = c
    BY <1>2, <1>5, <1>7
  <2>7. Changed(s, t, c)
    BY <1>4, <1>5, <1>6, <1>9, <2>1, <2>2, <2>3, <2>4, <2>6 DEF Changed
  <2> QED BY <1>10, <2>5, <2>7, Change
<1> QED BY <1>5, <1>11 DEF Kept, t

Passed(w, c) ==
  LET r == w.client[c] IN
  /\ GoodBut(w, {c}) /\ r.is = "unknown" /\ r.auth = NoAuth /\ ~OnAbort(w, c)
  /\ {"closing", "dead", "tls"} \cap r.flags = {} /\ "iphash" \in r.flags
  /\ \E x \in Auth : r.confs = {x} /\ (x \in Exempt \/ (w.class[w.conf[x].class].ref <= MaxTotal /\ w.ip[r.ip].local <= PerIp))
Refused(w, c) == GoodBut(w, {}) /\ Has(w, c, "closing")

\* conf_check_client(): the client has passed the limits, or is gone.
LEMMA CheckClientGood ==
  ASSUME NEW s, NEW c \in Conn, Registers(s, c), NEW X, FoundIn(s, X, Auth)
  PROVE  LET w == conf_check_client(s, c, X) IN Kept(s, w) /\ (Passed(w, c) \/ Refused(w, c))
<1> DEFINE w == conf_check_client(s, c, X)
<1>1. GoodBut(s, {}) /\ s.client[c].is = "unknown"
  BY DEF Registers
<1>2. CASE X = {}
  <2>1. w = exit_client(s, c)
    BY <1>2 DEF conf_check_client
  <2>2. {} \ {c} = {}
    OBVIOUS
  <2> HIDE DEF w
  <2>3. GoodBut(w, {}) /\ Has(w, c, "closing") /\ Spared(s, w, c)
    BY <1>1, <2>1, <2>2, ExitGood
  <2> QED BY <2>3, SparedKept DEF Refused, w
<1>3. CASE X # {}
  <2>1. PICK x \in Auth : X = {x} /\ s.conf[x].is = "on"
    BY <1>3 DEF FoundIn
  <2>2. w = attach_iline(s, c, x)
    <3>1. (CHOOSE y \in X : TRUE) = x
      BY <2>1
    <3> QED BY <1>3, <3>1 DEF conf_check_client
  <2> HIDE DEF w
  <2>3. /\ Spared(s, w, c)
        /\ \/ Has(w, c, "closing") /\ GoodBut(w, {})
           \/ /\ ~Has(w, c, "closing") /\ GoodBut(w, {c}) /\ w.abort = s.abort /\ w.query = s.query
              /\ At({"flags", "confs"}, s, w, c) /\ w.client[c].flags = s.client[c].flags \cup {"iphash"}
              /\ w.client[c].confs = {x}
              /\ x \notin Exempt => w.class[w.conf[x].class].ref <= MaxTotal /\ w.ip[w.client[c].ip].local <= PerIp
    <3>1. Ilined(s, w, c, x)
      BY <2>1, <2>2, IlineGood
    <3> QED BY <3>1 DEF Ilined
  <2>4. CASE Has(w, c, "closing") /\ GoodBut(w, {})
    BY <2>3, <2>4, SparedKept DEF Refused, w
  <2>5. CASE ~(Has(w, c, "closing") /\ GoodBut(w, {}))
    <3>1. LET r == s.client[c] IN
          "closing" \notin r.flags /\ "dead" \notin r.flags /\ r.auth = NoAuth /\ "tls" \notin r.flags /\ ~OnAbort(s, c)
      BY RegistersGives
    <3>2. w.client[c].is = "unknown" /\ w.client[c].auth = NoAuth
      BY <1>1, <2>3, <2>5, <3>1 DEF At, Tags
    <3>3. {"closing", "dead", "tls"} \cap w.client[c].flags = {} /\ "iphash" \in w.client[c].flags
      BY <2>3, <2>5, <3>1
    <3>4. ~OnAbort(w, c)
      BY <2>3, <2>5, <3>1 DEF OnAbort
    <3>5. Passed(w, c)
      BY <2>3, <2>5, <3>2, <3>3, <3>4 DEF Passed
    <3> QED BY <2>3, <3>5, SparedKept DEF w
  <2> QED BY <2>4, <2>5
<1> QED BY <1>2, <1>3

\* register_local_user() leaves a good state, whatever comes of its checks.
LEMMA RegisterGood ==
  ASSUME NEW s, NEW c \in Conn, Registers(s, c), NEW X, FoundIn(s, X, Auth), NEW why \in Why
  PROVE  LET t == register_local_user(s, c, X, why) IN GoodBut(t, {}) /\ Kept(s, t)
<1> DEFINE w == conf_check_client(s, c, X)
           t == register_local_user(s, c, X, why)
<1>1. GoodBut(s, {}) /\ s.client[c].is = "unknown" /\ "closing" \notin s.client[c].flags /\ Formed(s)
      /\ s.client[c] \in Client
  BY RegistersGives DEF Registers
<1>2. Kept(s, w) /\ (Passed(w, c) \/ Refused(w, c))
  BY CheckClientGood
<1>3. CASE s.ping_cookie /\ ~Has(s, c, "ping")
  <2>1. t = Flag(s, c, "ping")
    BY <1>3 DEF register_local_user
  <2> HIDE DEF t
  <2>2. Only({"client"}, s, t) /\ At({"flags"}, s, t, c) /\ t.client[c].flags = s.client[c].flags \cup {"ping"}
    BY <1>1, <2>1, FlagForm
  <2>3. At({"need", "flags"}, s, t, c) /\ t.client[c].need = s.client[c].need
    BY <2>2 DEF At, Tags
  <2>4. /\ t.client[c].need \in SUBSET {"nick", "user", "cap"} /\ t.client[c].flags \in SUBSET Flags
        /\ t.client[c].flags \ Minor = s.client[c].flags \ Minor
    BY <1>1, <2>2, <2>3, ClientTyped DEF Flags, Minor
  <2> QED BY <1>1, <2>2, <2>3, <2>4, MinorGood, SparedKept DEF t
<1>4. CASE s.ping_cookie /\ Has(s, c, "ping") /\ ~Has(s, c, "cookie")
  <2>1. t = s
    BY <1>4 DEF register_local_user
  <2> QED BY <1>1, <2>1 DEF Kept
<1>5. CASE ~(s.ping_cookie /\ ~Has(s, c, "ping")) /\ ~(s.ping_cookie /\ Has(s, c, "ping") /\ ~Has(s, c, "cookie"))
  <2>1. t = IF Has(w, c, "closing") THEN w
            ELSE CASE why = "refused" -> exit_client(w, c)
                   [] why = "write"   -> dead_link_on_write(w, c)
                   [] why = "ok"      -> Misused(Admits(w, c), w.client[c].list # "unknown")
    BY <1>5 DEF register_local_user, Admits
  <2> HIDE DEF w, t
  <2>2. CASE Refused(w, c)
    BY <1>2, <2>1, <2>2 DEF Refused, t
  <2>3. CASE Passed(w, c)
    <3>1. GoodBut(w, {c}) /\ w.client[c].is = "unknown" /\ ~OnAbort(w, c)
          /\ ~Has(w, c, "closing") /\ ~Has(w, c, "dead")
      BY <2>3 DEF Passed, Has
    <3>2. {c} \ {c} = {}
      OBVIOUS
    <3>3. CASE why = "refused"
      <4>1. t = exit_client(w, c)
        BY <2>1, <3>1, <3>3
      <4>2. GoodBut(t, {}) /\ Spared(w, t, c)
        BY <3>1, <3>2, <4>1, ExitGood
      <4> QED BY <1>2, <4>2, SparedKept, KeptTrans DEF t
    <3>4. CASE why = "write"
      <4>1. t = dead_link_on_write(w, c) /\ ~Defunct(w, c)
        BY <2>1, <3>1, <3>4 DEF Defunct
      <4>2. GoodBut(t, {}) /\ Spared(w, t, c)
        BY <3>1, <3>2, <4>1, DeadGood
      <4> QED BY <1>2, <4>2, SparedKept, KeptTrans DEF t
    <3>5. CASE why = "ok"
      <4> DEFINE bad == w.client[c].list # "unknown"
      <4>1. t = Misused(Admits(w, c), bad)
        BY <2>1, <3>1, <3>5
      <4>2. bad = FALSE
        <5>1. w.client[c].list = ListOf("unknown")
          BY <3>1, LiveClient DEF Has
        <5> QED BY <5>1 DEF ListOf
      <4> HIDE DEF bad
      <4>3. GoodBut(Admits(w, c), {}) /\ Kept(w, Admits(w, c))
        BY <2>3, AdmitGood DEF Passed
      <4>4. Formed(Admits(w, c)) /\ Admits(w, c).misuse = FALSE
        BY <4>3, StateFormed DEF GoodBut
      <4>5. t = Admits(w, c)
        BY <4>1, <4>2, <4>4, MisusedNot
      <4> QED BY <1>2, <4>3, <4>5, KeptTrans DEF t
    <3> QED BY <3>3, <3>4, <3>5 DEF Why
  <2> QED BY <1>2, <2>2, <2>3
<1> QED BY <1>3, <1>4, <1>5

-----------------------------------------------------------------------------
(* From one good state to another: commands, and several calls in a row. *)

Follows(s, t) == GoodBut(t, {}) /\ Kept(s, t)

\* One follows the other through any number of calls.
LEMMA FollowsTrans ==
  ASSUME NEW s, NEW t, NEW u, Follows(s, t), Follows(t, u)
  PROVE  Follows(s, u)
  BY KeptTrans DEF Follows

\* What a command notes of a client leaves it able to register.
LEMMA RegistersMinor ==
  ASSUME NEW s, NEW c \in Conn, Registers(s, c), NEW t, Only({"client"}, s, t), At({"need", "flags"}, s, t, c),
         t.client[c].need \in SUBSET {"nick", "user", "cap"},
         t.client[c].flags = s.client[c].flags \/ t.client[c].flags = s.client[c].flags \cup {"cookie"}
  PROVE  Registers(t, c) /\ Follows(s, t) /\ t.conf = s.conf
<1>1. GoodBut(s, {}) /\ s.client[c].is = "unknown" /\ "closing" \notin s.client[c].flags /\ s.client[c] \in Client
      /\ "dead" \notin s.client[c].flags /\ "auth" \in s.client[c].flags
  BY RegistersGives DEF Registers
<1>2. s.client[c].flags \in SUBSET Flags
  BY <1>1, ClientTyped
<1>3. t.client[c].flags \in SUBSET Flags /\ t.client[c].flags \ Minor = s.client[c].flags \ Minor
  BY <1>2 DEF Flags, Minor
<1>4. GoodBut(t, {}) /\ Spared(s, t, c)
  BY <1>1, <1>3, MinorGood
<1>5. Registers(t, c)
  BY <1>1, <1>4 DEF Registers, Spared, Defunct, Has
<1> QED BY <1>4, <1>5, SparedKept DEF Follows, Only, Fields

\* A command that may complete the registration leaves a good state.
LEMMA RegisteredGood ==
  ASSUME NEW s, NEW t, NEW c \in Conn, Registers(t, c), Follows(s, t), t.conf = s.conf, NEW X,
         FoundIn(s, X, Auth), NEW why \in Why
  PROVE  Follows(s, Registered(t, c, X, why))
<1>1. FoundIn(t, X, Auth)
  BY DEF FoundIn
<1>2. Follows(t, register_local_user(t, c, X, why))
  BY <1>1, RegisterGood DEF Follows
<1> QED BY <1>2, FollowsTrans DEF Registered

\* Each command of a client that is not registered leaves a good state.
LEMMA CommandGood ==
  ASSUME NEW s, NEW c \in Conn, Registers(s, c), NEW X, FoundIn(s, X, Auth), NEW why \in Why
  PROVE  /\ Follows(s, cap_ls(s, c)) /\ Follows(s, cap_end(s, c, X, why)) /\ Follows(s, mr_nick(s, c, X, why))
         /\ Follows(s, do_user(s, c, X, why)) /\ Follows(s, mr_pong(s, c, X, why))
<1> DEFINE N == s.client[c].need
<1>1. Formed(s) /\ N \in SUBSET {"nick", "user", "cap"}
  BY RegistersGives, ClientTyped
<1>2. ASSUME NEW v \in SUBSET {"nick", "user", "cap"}
      PROVE  LET t == PutNeed(s, c, v) IN Registers(t, c) /\ Follows(s, t) /\ t.conf = s.conf
  <2> DEFINE t == PutNeed(s, c, v)
  <2>1. Only({"client"}, s, t) /\ At({"need"}, s, t, c) /\ t.client[c].need = v
    BY <1>1, Putters
  <2> HIDE DEF t
  <2>2. At({"need", "flags"}, s, t, c) /\ t.client[c].flags = s.client[c].flags
    BY <2>1 DEF At, Tags
  <2> QED BY <2>1, <2>2, RegistersMinor DEF t
<1>3. Follows(s, cap_ls(s, c))
  <2>1. cap_ls(s, c) = PutNeed(s, c, N \cup {"cap"})
    BY DEF cap_ls, PutNeed
  <2> QED BY <1>1, <1>2, <2>1
<1>4. Follows(s, cap_end(s, c, X, why))
  <2>1. cap_end(s, c, X, why) = Registered(PutNeed(s, c, N \ {"cap"}), c, X, why)
    BY DEF cap_end, PutNeed
  <2> QED BY <1>1, <1>2, <2>1, RegisteredGood
<1>5. Follows(s, mr_nick(s, c, X, why))
  <2>1. mr_nick(s, c, X, why) = Registered(PutNeed(s, c, N \ {"nick"}), c, X, why)
    BY DEF mr_nick, PutNeed
  <2> QED BY <1>1, <1>2, <2>1, RegisteredGood
<1>6. Follows(s, do_user(s, c, X, why))
  <2>1. do_user(s, c, X, why) = Registered(PutNeed(s, c, N \ {"user"}), c, X, why)
    BY DEF do_user, PutNeed
  <2> QED BY <1>1, <1>2, <2>1, RegisteredGood
<1>7. Follows(s, mr_pong(s, c, X, why))
  <2>1. CASE s.ping_cookie /\ Has(s, c, "ping")
    <3> DEFINE t == Flag(s, c, "cookie")
    <3>1. mr_pong(s, c, X, why) = Registered(t, c, X, why)
      BY <2>1 DEF mr_pong
    <3>2. Only({"client"}, s, t) /\ At({"flags"}, s, t, c) /\ t.client[c].flags = s.client[c].flags \cup {"cookie"}
      BY <1>1, FlagForm
    <3> HIDE DEF t
    <3>3. At({"need", "flags"}, s, t, c) /\ t.client[c].need = s.client[c].need
      BY <3>2 DEF At, Tags
    <3>4. Registers(t, c) /\ Follows(s, t) /\ t.conf = s.conf
      BY <1>1, <3>2, <3>3, RegistersMinor
    <3> QED BY <3>1, <3>4, RegisteredGood
  <2>2. CASE ~(s.ping_cookie /\ Has(s, c, "ping"))
    BY <2>2 DEF mr_pong, Follows, Kept, Registers
  <2> QED BY <2>1, <2>2
<1> QED BY <1>3, <1>4, <1>5, <1>6, <1>7

-----------------------------------------------------------------------------
(* Exits, failed writes, and registration as a server. *)

\* An exit follows from a good state.
LEMMA ExitFollows ==
  ASSUME NEW s, GoodBut(s, {}), NEW c \in Conn, s.client[c].is # "none"
  PROVE  Follows(s, exit_client(s, c))
<1> DEFINE t == exit_client(s, c)
<1>1. GoodBut(t, {} \ {c}) /\ Spared(s, t, c)
  BY ExitGood
<1>2. {} \ {c} = {}
  OBVIOUS
<1> HIDE DEF t
<1> QED BY <1>1, <1>2, SparedKept DEF Follows, t

\* Several exits do.
LEMMA ExitAllFollows ==
  ASSUME NEW s, GoodBut(s, {}), NEW C \in SUBSET Conn, \A c \in C : s.client[c].is # "none"
  PROVE  Follows(s, exit_all(s, C))
BY ExitAllGood DEF AllOut, Follows

\* A failed write does.
LEMMA WriteFollows ==
  ASSUME NEW s, GoodBut(s, {}), NEW c \in Conn, s.client[c].is # "none", ~Defunct(s, c)
  PROVE  Follows(s, dead_link_on_write(s, c))
<1> DEFINE t == dead_link_on_write(s, c)
<1>1. ~OnAbort(s, c)
  BY DEF GoodBut, GoodClient, Settled, Defunct, Has
<1>2. GoodBut(t, {} \ {c}) /\ Spared(s, t, c)
  BY <1>1, DeadGood
<1>3. {} \ {c} = {}
  OBVIOUS
<1> HIDE DEF t
<1> QED BY <1>2, <1>3, SparedKept DEF Follows, t

Establish(s, c) == [s EXCEPT !.client[c].is = "server", !.client[c].list = "server"]

\* The record of an established server.
LEMMA EstablishForm ==
  ASSUME NEW s, Formed(s), NEW c \in Conn
  PROVE  LET t == Establish(s, c) IN
         /\ Only({"client"}, s, t) /\ At({"is", "list"}, s, t, c) /\ t.client[c].is = "server"
         /\ t.client[c].list = "server"
<1> DEFINE a == PutIs(s, c, "server")
           t == PutList(a, c, "server")
<1>1. Establish(s, c) = t
  BY DEF Establish, PutIs, PutList
<1>2. Only({"client"}, s, a) /\ At({"is"}, s, a, c) /\ a.client[c].is = "server"
  BY Putters
<1> HIDE DEF a
<1>3. Only({"client"}, a, t) /\ At({"list"}, a, t, c) /\ t.client[c].list = "server"
  BY <1>2, Putters DEF Only
<1> HIDE DEF t
<1> QED BY <1>1, <1>2, <1>3 DEF Only, At, Fields, Tags

\* server_estab() may be called of any connection that is read, live and not marked.
LEMMA EstablishGood ==
  ASSUME NEW s, NEW c \in Conn, GoodBut(s, {c}), s.client[c].is # "none", s.client[c].auth = NoAuth, ~OnAbort(s, c),
         {"closing", "dead", "tls"} \cap s.client[c].flags = {}
  PROVE  Follows(s, Establish(s, c))
<1> DEFINE r == s.client[c]
           t == Establish(s, c)
<1>1. Live(s, c) /\ Formed(s) /\ s \in State /\ r \in Client
  BY LiveClient
<1>2. Only({"client"}, s, t) /\ At({"is", "list"}, s, t, c) /\ t.client[c].is = "server"
      /\ t.client[c].list = "server"
  BY <1>1, EstablishForm
<1> HIDE DEF t
<1>3. LET q == t.client[c] IN q.need = r.need /\ q.auth = r.auth /\ q.flags = r.flags
      /\ q.fd = r.fd /\ q.confs = r.confs /\ q.ip = r.ip /\ q.port = r.port
  BY <1>2 DEF At, Tags
<1>4. t.abort = s.abort /\ t.dead = s.dead /\ t.query = s.query /\ \A d \in Conn \ {c} : t.client[d] = s.client[d]
  BY <1>2 DEF Only, At, Fields
<1>5. GoodClient(t, {}, c)
  <2>1. Asked(t, c) = Asked(s, c) /\ ~OnAbort(t, c)
    BY <1>4 DEF Asked, OnAbort
  <2>2. Live(t, c)
    BY <1>1, <1>2, <1>3, <1>4, <2>1 DEF Live, ListOf
  <2>3. Settled(t, c)
    BY <1>2, <1>3, <2>1 DEF Settled
  <2> QED BY <1>2, <1>3, <2>2, <2>3 DEF GoodClient, Has
<1>6. \A p \in Ip : Counted(t.client[c], p) <=> Counted(r, p)
  BY <1>3 DEF Counted
<1>7. Asking(t.client[c]) <=> Asking(r)
  BY <1>3 DEF Asking
<1>8. c \notin Admitted(t)
  BY <1>2 DEF Admitted
<1>9. t.client[c] \in Client
  <2>1. Tagged(t.client[c])
    BY <1>2 DEF Only, Formed
  <2> QED BY <1>1, <1>2, <1>3, <2>1, ClientTyped, ClientOf
<1>10. GoodBut(t, {})
  <2>1. {c} \subseteq {} \cup {c}
    OBVIOUS
  <2> QED BY <1>2, <1>3, <1>4, <1>5, <1>6, <1>7, <1>8, <1>9, <2>1, Retag
<1> QED BY <1>4, <1>10 DEF Follows, Kept, t

\* SERVER: whatever the block found and the checks, the peer is refused, marked or linked, and every
\* other handshake of the same peer is exited.
LEMMA ServerGood ==
  ASSUME NEW s, GoodBut(s, {}), NEW c \in Conn, s.client[c].fd, ~Defunct(s, c),
         Registers(s, c) \/ s.client[c].is = "handshake", NEW X, FoundIn(s, X, Connect), NEW why \in Why
  PROVE  Follows(s, mr_server(s, c, X, why))
<1> DEFINE t == conf_attach(s, c, CHOOSE x \in X : TRUE)
           r == s.client[c]
<1>1. /\ r.is # "none" /\ r.is # "client" /\ "closing" \notin r.flags /\ "dead" \notin r.flags /\ Live(s, c)
      /\ Settled(s, c)
  <2>1. r.is # "none" /\ r.is # "client" /\ "closing" \notin r.flags /\ "dead" \notin r.flags
    BY There DEF Registers, Defunct, Has
  <2> QED BY <2>1 DEF GoodBut, GoodClient, Has
<1>2. r.auth = NoAuth /\ "tls" \notin r.flags /\ ~OnAbort(s, c)
  BY <1>1 DEF Live, Settled, Registers
<1>3. CASE X = {} \/ why = "refused"
  <2>1. mr_server(s, c, X, why) = exit_client(s, c)
    BY <1>3 DEF mr_server
  <2> QED BY <1>1, <2>1, ExitFollows
<1>4. CASE X # {} /\ why # "refused"
  <2>1. PICK x \in Connect : X = {x} /\ s.conf[x].is = "on"
    BY <1>4 DEF FoundIn
  <2>2. (CHOOSE y \in X : TRUE) = x /\ x \in Conf
    BY <2>1 DEF Conf
  <2>3. GoodBut(t, {} \cup {c}) /\ Spared(s, t, c) /\ Only({"client", "conf", "class"}, s, t)
        /\ At({"confs"}, s, t, c)
    BY <1>1, <2>1, <2>2, AttachGood
  <2>4. mr_server(s, c, X, why) = IF hash_find_server(s) # {} THEN exit_client(t, c)
                                  ELSE server_estab(exit_all(t, in_progress(t) \ {c}), c, why)
    BY <1>4 DEF mr_server
  <2> HIDE DEF t
  <2>5. GoodBut(t, {c}) /\ Kept(s, t)
    <3>1. {} \cup {c} = {c}
      OBVIOUS
    <3> QED BY <2>3, <3>1, SparedKept
  <2>6. /\ t.client[c].is # "none" /\ t.client[c].auth = NoAuth
        /\ {"closing", "dead", "tls"} \cap t.client[c].flags = {}
        /\ t.abort = s.abort
    BY <1>1, <1>2, <2>3 DEF Only, At, Fields, Tags
  <2>7. CASE hash_find_server(s) # {}
    <3> DEFINE u == exit_client(t, c)
    <3>1. GoodBut(u, {c} \ {c}) /\ Spared(t, u, c)
      BY <2>5, <2>6, ExitGood
    <3>2. {c} \ {c} = {} /\ mr_server(s, c, X, why) = u
      BY <2>4, <2>7
    <3> HIDE DEF u
    <3>3. Kept(t, u)
      BY <3>1, SparedKept
    <3> QED BY <2>5, <3>1, <3>2, <3>3, KeptTrans DEF Follows
  <2>8. CASE hash_find_server(s) = {}
    <3> DEFINE C == in_progress(t) \ {c}
               w == exit_all(t, C)
    <3>1. C \in SUBSET Conn /\ \A d \in C : t.client[d].is # "none"
      BY DEF in_progress, Listed
    <3>2. c \notin C
      OBVIOUS
    <3> HIDE DEF C
    <3>3. GoodBut(w, {c}) /\ AllOut(t, C, w)
      BY <2>5, <3>1, ExitAllGood
    <3>4. mr_server(s, c, X, why) = server_estab(w, c, why)
      BY <2>4, <2>8 DEF C
    <3> HIDE DEF w
    <3>5. w.client[c] = t.client[c] /\ w.abort = t.abort /\ Kept(t, w)
      BY <3>2, <3>3 DEF AllOut
    <3>6. ~OnAbort(w, c)
      BY <1>2, <2>6, <3>5 DEF OnAbort
    <3>7. Kept(s, w)
      BY <2>5, <3>5, KeptTrans
    <3>8. CASE why = "write"
      <4> DEFINE u == dead_link_on_write(w, c)
      <4>1. GoodBut(u, {c} \ {c}) /\ Spared(w, u, c)
        <5>1. ~Defunct(w, c)
          BY <2>6, <3>5 DEF Defunct, Has
        <5> QED BY <2>6, <3>3, <3>5, <3>6, <5>1, DeadGood
      <4>2. {c} \ {c} = {} /\ mr_server(s, c, X, why) = u
        BY <3>4, <3>8 DEF server_estab
      <4> HIDE DEF u
      <4>3. Kept(w, u)
        BY <4>1, SparedKept
      <4> QED BY <3>7, <4>1, <4>2, <4>3, KeptTrans DEF Follows
    <3>9. CASE why # "write"
      <4>1. mr_server(s, c, X, why) = Establish(w, c)
        BY <3>4, <3>9 DEF server_estab, Establish
      <4>2. Follows(w, Establish(w, c))
        <5>1. w.client[c].is # "none" /\ w.client[c].auth = NoAuth
              /\ {"closing", "dead", "tls"} \cap w.client[c].flags = {}
          BY <2>6, <3>5
        <5> QED BY <3>3, <3>6, <5>1, EstablishGood
      <4> QED BY <3>7, <4>1, <4>2, KeptTrans DEF Follows
    <3> QED BY <3>8, <3>9
  <2> QED BY <2>7, <2>8
<1> QED BY <1>3, <1>4

\* WEBIRC: the new address is set before the client is counted under any, so counts stay right.
LEMMA WebircGood ==
  ASSUME NEW s, NEW c \in Conn, Registers(s, c), NEW p \in Ip
  PROVE  LET t == [s EXCEPT !.client[c].ip = p] IN Follows(s, t) /\ Follows(s, exit_client(t, c))
<1> DEFINE r == s.client[c]
           t == PutIp(s, c, p)
<1>1. GoodBut(s, {}) /\ Live(s, c) /\ Settled(s, c) /\ Formed(s) /\ r \in Client /\ r.is = "unknown"
      /\ "closing" \notin r.flags /\ "iphash" \notin r.flags
  BY RegistersGives DEF Registers
<1>2. Only({"client"}, s, t) /\ At({"ip"}, s, t, c) /\ t.client[c].ip = p
  BY <1>1, Putters
<1>3. [s EXCEPT !.client[c].ip = p] = t
  BY DEF PutIp
<1> HIDE DEF t
<1>4. LET q == t.client[c] IN q.is = r.is /\ q.list = r.list /\ q.need = r.need /\ q.auth = r.auth /\ q.flags = r.flags
      /\ q.fd = r.fd /\ q.confs = r.confs /\ q.port = r.port
  BY <1>2 DEF At, Tags
<1>5. t.abort = s.abort /\ t.dead = s.dead /\ t.query = s.query /\ \A d \in Conn \ {c} : t.client[d] = s.client[d]
  BY <1>2 DEF Only, At, Fields
<1>6. GoodClient(t, {}, c)
  <2>1. Asked(t, c) = Asked(s, c) /\ (OnAbort(t, c) <=> OnAbort(s, c))
    BY <1>5 DEF Asked, OnAbort
  <2>2. Live(t, c)
    BY <1>1, <1>4, <1>5, <2>1 DEF Live
  <2>3. Settled(t, c)
    BY <1>1, <1>4, <2>1 DEF Settled
  <2> QED BY <1>1, <1>4, <2>2, <2>3 DEF GoodClient, Has
<1>7. \A a \in Ip : Counted(t.client[c], a) <=> Counted(r, a)
  BY <1>1, <1>4 DEF Counted
<1>8. Asking(t.client[c]) <=> Asking(r)
  BY <1>4 DEF Asking
<1>9. c \notin Admitted(t)
  BY <1>1, <1>4 DEF Admitted
<1>10. t.client[c] \in Client
  <2>1. Tagged(t.client[c])
    BY <1>2 DEF Only, Formed
  <2> QED BY <1>1, <1>2, <1>4, <2>1, ClientTyped, ClientOf
<1>11. GoodBut(t, {})
  <2>1. {} \subseteq {} \cup {c}
    OBVIOUS
  <2> QED BY <1>1, <1>2, <1>4, <1>5, <1>6, <1>7, <1>8, <1>9, <1>10, <2>1, Retag
<1>12. Follows(s, t)
  BY <1>1, <1>5, <1>11 DEF Follows, Kept
<1>13. Follows(t, exit_client(t, c))
  BY <1>1, <1>4, <1>11, ExitFollows
<1> QED BY <1>3, <1>12, <1>13, FollowsTrans

-----------------------------------------------------------------------------
(* The lookups of a connection: their start, and their end. *)

\* A new lookup of name and address, and the ident query if there can be one.
AuthStarted(s, t, c) ==
  /\ Only({"client", "query", "fds"}, s, t) /\ At({"auth"}, s, t, c) /\ t.client[c].auth.dns = TRUE
  /\ t.query = s.query \cup {[who |-> c, ptr |-> TRUE]}
  /\ \/ t.client[c].auth = [dns |-> TRUE, ident |-> "no"] /\ t.fds = s.fds
     \/ t.client[c].auth = [dns |-> TRUE, ident |-> "connect"] /\ t.fds = s.fds + 1 /\ ~(s.fds >= FdLimit)

\* auth_start() in closed form: comm_connect_tcp() may call back before it returns, but cannot end
\* the lookups, since the DNS query is still under way.
LEMMA AuthStartForm ==
  ASSUME NEW s, Formed(s), s.misuse = FALSE, s.fds \in Int, NEW c \in Conn, NEW ident \in BOOLEAN,
         NEW fails \in BOOLEAN
  PROVE  AuthStarted(s, auth_start(s, c, ident, fails), c)
<1> DEFINE A == [dns |-> TRUE, ident |-> "no"]
           B == [dns |-> TRUE, ident |-> "connect"]
           t == PutAuth(s, c, A)
           n == SetFds(PutAuth(t, c, B), s.fds + 1)
           e == auth_error(n, c, FALSE)
           u == IF ident THEN auth_start_query(t, c, fails) ELSE t
           Q == u.query \cup {[who |-> c, ptr |-> TRUE]}
           v == SetQuery(u, Q)
<1>1. Only({"client"}, s, t) /\ At({"auth"}, s, t, c) /\ t.client[c].auth = A
  BY Putters
<1>2. auth_start(s, c, ident, fails) = Misused(v, u.client[c].auth = NoAuth)
  BY DEF auth_start, PutAuth, SetQuery, Ask
<1> HIDE DEF t
<1>3. Only({"client", "fds"}, s, n) /\ At({"auth"}, s, n, c) /\ n.client[c].auth = B /\ n.fds = s.fds + 1
  <2> DEFINE m == PutAuth(t, c, B)
  <2>1. Only({"client"}, t, m) /\ At({"auth"}, t, m, c) /\ m.client[c].auth = B
    BY <1>1, Putters DEF Only
  <2> HIDE DEF m
  <2>2. Only({"fds"}, m, SetFds(m, s.fds + 1)) /\ SetFds(m, s.fds + 1).fds = s.fds + 1
    BY <2>1, Setters DEF Only
  <2> HIDE DEF n
  <2>3. n = SetFds(m, s.fds + 1)
    BY DEF n, m
  <2> QED BY <1>1, <2>1, <2>2, <2>3 DEF Only, At, Fields, Tags
<1>4. auth_start_query(t, c, fails) = IF s.fds >= FdLimit THEN t ELSE IF fails THEN e ELSE n
  <2>1. t.fds = s.fds /\ Formed(t) /\ t.client[c].auth = A
    BY <1>1 DEF Only, Fields
  <2> DEFINE D == [t.client[c].auth EXCEPT !.ident = "connect"]
  <2>2. [t EXCEPT !.client[c].auth.ident = "connect", !.fds = @ + 1] = SetFds(PutAuth(t, c, D), t.fds + 1)
    BY DEF PutAuth, SetFds
  <2>4. D = B
    <3>1. A = [dns |-> TRUE, ident |-> "no"] /\ A.dns = TRUE /\ B = [dns |-> TRUE, ident |-> "connect"]
      OBVIOUS
    <3>2. \A d : [[dns |-> d, ident |-> "no"] EXCEPT !.ident = "connect"] = [dns |-> d, ident |-> "connect"]
      OBVIOUS
    <3>3. PICK d : d = TRUE
      OBVIOUS
    <3>4. A = [dns |-> d, ident |-> "no"] /\ B = [dns |-> d, ident |-> "connect"]
      BY <3>3
    <3> HIDE DEF A, B
    <3> QED BY <2>1, <3>2, <3>4
  <2> HIDE DEF D
  <2>3. [t EXCEPT !.client[c].auth.ident = "connect", !.fds = @ + 1] = n
    BY <2>1, <2>2, <2>4
  <2> HIDE DEF n
  <2> QED BY <2>1, <2>3 DEF auth_start_query
<1> HIDE DEF n
<1>5. Only({"client", "fds"}, s, e) /\ At({"auth"}, s, e, c) /\ e.client[c].auth = A /\ e.fds = s.fds + 1 - 1
  <2> DEFINE m == CloseIdent(n, c)
  <2>1. Only({"client", "fds"}, n, m) /\ At({"auth"}, n, m, c) /\ m.client[c].auth = A /\ m.fds = n.fds - 1
    <3>1. n.client[c].auth \in Lookup \cup {NoAuth} /\ Formed(n)
      BY <1>3 DEF Lookup, Only
    <3>2. n.client[c].auth.ident \in {"connect", "read"} /\ n.client[c].auth.dns = TRUE
      BY <1>3
    <3>3. /\ Only({"client", "fds"}, n, m) /\ At({"auth"}, n, m, c) /\ m.fds = n.fds - 1
          /\ m.client[c].auth = [dns |-> n.client[c].auth.dns, ident |-> "no"]
      <4> HIDE DEF m
      <4>1. m = CloseIdent(n, c)
        BY DEF m
      <4> QED BY <3>1, <3>2, <4>1, CloseIdentForm
    <3> QED BY <3>2, <3>3
  <2> HIDE DEF m
  <2>2. e = m
    BY <2>1 DEF auth_error, auth_release_client, m
  <2> HIDE DEF A, B, e
  <2>3. Only({"client", "fds"}, s, m) /\ At({"auth"}, s, m, c)
    BY <1>3, <2>1 DEF Only, At, Fields, Tags
  <2> QED BY <1>3, <2>1, <2>2, <2>3
<1>6. /\ Only({"client", "fds"}, s, u) /\ At({"auth"}, s, u, c)
      /\ \/ u.client[c].auth = A /\ (u.fds = s.fds \/ u.fds = s.fds + 1 - 1)
         \/ u.client[c].auth = B /\ u.fds = s.fds + 1 /\ ~(s.fds >= FdLimit)
  <2>1. Only({"client", "fds"}, s, t) /\ t.fds = s.fds
    BY <1>1 DEF Only, Fields
  <2>2. u = t \/ u = e \/ (u = n /\ ~(s.fds >= FdLimit))
    BY <1>4
  <2> HIDE DEF u, e
  <2> QED BY <1>1, <1>3, <1>5, <2>1, <2>2
<1> HIDE DEF u
<1>7. u.client[c].auth # NoAuth /\ u.client[c].auth.dns = TRUE
  BY <1>6 DEF NoAuth
<1> HIDE DEF Q
<1>8. Only({"query"}, u, v) /\ v.query = Q
  BY <1>6, Setters DEF Only
<1> HIDE DEF v
<1>9. Only({"client", "query", "fds"}, s, v) /\ At({"auth"}, s, v, c) /\ v.client[c] = u.client[c] /\ v.fds = u.fds
      /\ v.misuse = FALSE /\ u.query = s.query
  BY <1>6, <1>8 DEF Only, At, Fields
<1>10. auth_start(s, c, ident, fails) = v
  <2> DEFINE bad == u.client[c].auth = NoAuth
  <2>1. bad = FALSE
    BY <1>7
  <2> HIDE DEF bad
  <2>2. Misused(v, bad) = v
    BY <1>9, <2>1, MisusedNot DEF Only
  <2> QED BY <1>2, <2>2 DEF bad
<1>11. v.query = s.query \cup {[who |-> c, ptr |-> TRUE]}
  BY <1>8, <1>9 DEF Q
<1> QED BY <1>6, <1>7, <1>9, <1>10, <1>11 DEF AuthStarted

\* auth_start() settles a connection that was just accepted, or has done its TLS handshake.
LEMMA AuthStartGood ==
  ASSUME NEW s, NEW c \in Conn, GoodBut(s, {c}), s.client[c].is = "unknown", s.client[c].auth = NoAuth,
         {"closing", "auth", "tls"} \cap s.client[c].flags = {}, "dead" \in s.client[c].flags <=> OnAbort(s, c),
         "dead" \in s.client[c].flags \/ ("iphash" \notin s.client[c].flags /\ s.client[c].confs = {}),
         NEW ident \in BOOLEAN, NEW fails \in BOOLEAN
  PROVE  GoodBut(auth_start(s, c, ident, fails), {}) /\ Kept(s, auth_start(s, c, ident, fails))
<1> DEFINE r == s.client[c]
           t == auth_start(s, c, ident, fails)
           q == t.client[c]
           p == [who |-> c, ptr |-> TRUE]
<1>1. Live(s, c) /\ Formed(s) /\ s \in State /\ r \in Client /\ s.fds \in Int /\ s.query \in SUBSET Request
      /\ s.misuse = FALSE /\ s.fds <= FdLimit /\ FdLimit \in Nat
  BY LiveClient, Typed, ConnAssumption DEF GoodBut, Limits
<1>2. /\ Only({"client", "query", "fds"}, s, t) /\ At({"auth"}, s, t, c) /\ q.auth.dns = TRUE
      /\ t.query = s.query \cup {p}
      /\ \/ q.auth = [dns |-> TRUE, ident |-> "no"] /\ t.fds = s.fds
         \/ q.auth = [dns |-> TRUE, ident |-> "connect"] /\ t.fds = s.fds + 1 /\ ~(s.fds >= FdLimit)
  <2> HIDE DEF t
  <2>1. AuthStarted(s, t, c)
    BY <1>1, AuthStartForm DEF t
  <2> QED BY <2>1 DEF AuthStarted
<1> HIDE DEF t
<1>3. q.is = r.is /\ q.list = r.list /\ q.need = r.need /\ q.flags = r.flags
      /\ q.fd = r.fd /\ q.confs = r.confs /\ q.ip = r.ip /\ q.port = r.port
  BY <1>2 DEF At, Tags
<1>4. t.abort = s.abort /\ t.dead = s.dead /\ \A d \in Conn \ {c} : t.client[d] = s.client[d]
  BY <1>2 DEF Only, At, Fields
<1>5. q.auth \in Lookup /\ q.auth # NoAuth
  <2>1. CASE q.auth = [dns |-> TRUE, ident |-> "no"]
    BY <2>1 DEF Lookup, NoAuth
  <2>2. CASE q.auth = [dns |-> TRUE, ident |-> "connect"]
    BY <2>2 DEF Lookup, NoAuth
  <2> QED BY <1>2, <2>1, <2>2
<1>6. ~Asking(r) /\ Asked(s, c) = {}
  BY <1>1 DEF Live, NoAuth, Asking
<1>7. p \in Request /\ p.who = c /\ Asked(t, c) = {p}
  BY <1>2, <1>6 DEF Request, Asked
<1>8. t.fds = s.fds + Num(Asking(q)) - Num(Asking(r)) /\ t.fds <= FdLimit
  <2>1. CASE q.auth = [dns |-> TRUE, ident |-> "no"] /\ t.fds = s.fds
    <3>1. ~Asking(q)
      BY <2>1 DEF Asking
    <3> QED BY <1>1, <1>6, <2>1, <3>1 DEF Num
  <2>2. CASE q.auth = [dns |-> TRUE, ident |-> "connect"] /\ t.fds = s.fds + 1 /\ ~(s.fds >= FdLimit)
    <3>1. Asking(q)
      BY <2>2 DEF Asking
    <3> QED BY <1>1, <1>6, <2>2, <3>1 DEF Num
  <2> QED BY <1>2, <2>1, <2>2
<1>9. At({"auth", "flags"}, s, t, c)
  BY <1>2 DEF At
<1>10. Looked(s, t, c)
  <2>1. t.query \in SUBSET Request /\ \A a \in Request : a.who # c => (a \in t.query <=> a \in s.query)
    BY <1>1, <1>2, <1>7
  <2>2. q.flags \in SUBSET Flags
    BY <1>1, <1>3, ClientTyped
  <2> QED BY <1>2, <1>3, <1>5, <1>8, <1>9, <2>1, <2>2 DEF Looked
<1>11. GoodClient(t, {}, c)
  <2>1. Asked(t, c) = {} \/ \E b \in BOOLEAN : Asked(t, c) = {[who |-> c, ptr |-> b]}
    BY <1>7
  <2>2. Live(t, c)
    BY <1>1, <1>2, <1>3, <1>4, <1>7, <2>1 DEF Live
  <2>3. Settled(t, c)
    BY <1>3, <1>4, <1>5 DEF Settled, OnAbort
  <2> QED BY <1>3, <2>2, <2>3 DEF GoodClient, Has
<1>12. GoodBut(t, {})
  <2>1. {c} \subseteq {} \cup {c}
    OBVIOUS
  <2> QED BY <1>10, <1>11, <2>1, LookedGood
<1> QED BY <1>4, <1>12 DEF Kept, t

\* The lookups of a connection have both ended.
Released(s, c) == Misused(Flag([s EXCEPT !.client[c].auth = NoAuth], c, "auth"), ~s.client[c].fd)

\* auth_release_client() when both lookups are over.
LEMMA ReleasedForm ==
  ASSUME NEW s, Formed(s), s.misuse = FALSE, NEW c \in Conn, s.client[c].fd = TRUE
  PROVE  LET t == Released(s, c) q == t.client[c] IN
         Only({"client"}, s, t) /\ At({"auth", "flags"}, s, t, c) /\ q.auth = NoAuth
         /\ q.flags = s.client[c].flags \cup {"auth"}
<1> DEFINE a == PutAuth(s, c, NoAuth)
           t == Flag(a, c, "auth")
           bad == ~s.client[c].fd
<1>1. Released(s, c) = Misused(t, bad)
  BY DEF Released, PutAuth
<1>2. bad = FALSE
  OBVIOUS
<1> HIDE DEF bad
<1>3. Only({"client"}, s, a) /\ At({"auth"}, s, a, c) /\ a.client[c].auth = NoAuth
  BY Putters
<1> HIDE DEF a
<1>4. Only({"client"}, a, t) /\ At({"flags"}, a, t, c) /\ t.client[c].flags = a.client[c].flags \cup {"auth"}
  BY <1>3, FlagForm DEF Only
<1> HIDE DEF t
<1>5. Only({"client"}, s, t) /\ At({"auth", "flags"}, s, t, c) /\ t.client[c].auth = NoAuth
      /\ t.client[c].flags = s.client[c].flags \cup {"auth"} /\ t.misuse = FALSE /\ Formed(t)
  BY <1>3, <1>4 DEF Only, At, Fields, Tags
<1>6. Misused(t, bad) = t
  BY <1>2, <1>5, MisusedNot
<1> QED BY <1>1, <1>5, <1>6

\* The end of an ident query, by error, answer or timeout, leaves a good state: if it was the last
\* lookup, the client is read, and may be gone by then.
LEMMA IdentEndGood ==
  ASSUME NEW s, GoodBut(s, {}), NEW c \in Conn, Asking(s.client[c]), NEW eof \in BOOLEAN
  PROVE  Follows(s, auth_error(s, c, eof))
<1> DEFINE r == s.client[c]
           m == CloseIdent(s, c)
           u == Released(m, c)
<1>1. r.auth # NoAuth
  BY DEF Asking, NoAuth
<1>2. r.is # "none" /\ "closing" \notin r.flags
  BY <1>1, There DEF Has
<1>3. Live(s, c) /\ Settled(s, c) /\ Formed(s) /\ s \in State /\ r \in Client /\ s.fds \in Int
      /\ s.query \in SUBSET Request
      /\ s.misuse = FALSE /\ s.fds <= FdLimit /\ FdLimit \in Nat /\ r.fd = TRUE
  BY <1>2, LiveClient, Typed, ConnAssumption DEF GoodBut, Limits, GoodClient, Has
<1>4. r.auth \in Lookup
  BY <1>1, <1>3, ClientTyped
<1>5. /\ Only({"client", "fds"}, s, m) /\ At({"auth"}, s, m, c) /\ m.fds = s.fds - 1
      /\ m.client[c].auth = [dns |-> r.auth.dns, ident |-> "no"]
  BY <1>3, <1>4, CloseIdentForm DEF Asking
<1>6. auth_error(s, c, eof) = IF m.client[c].auth.dns \/ m.client[c].auth.ident # "no" THEN m
                              ELSE IF eof THEN dead_link_on_read(u, c) ELSE u
  BY DEF auth_error, auth_release_client, Released
<1> HIDE DEF m
<1>7. r.auth.dns \in BOOLEAN /\ m.client[c].auth.dns = r.auth.dns /\ m.client[c].auth.ident = "no"
  BY <1>4, <1>5 DEF Lookup
<1>8. ASSUME NEW t, Only({"client", "fds"}, s, t), At({"auth", "flags"}, s, t, c), t.fds = s.fds - 1,
             ~Asking(t.client[c]), t.client[c].auth \in Lookup \cup {NoAuth}, t.client[c].auth.dns = r.auth.dns,
             \/ t.client[c].flags = r.flags /\ r.auth.dns = TRUE
             \/ t.client[c].flags = r.flags \cup {"auth"} /\ t.client[c].auth = NoAuth
      PROVE  Follows(s, t)
  <2> DEFINE q == t.client[c]
  <2>1. q.is = r.is /\ q.list = r.list /\ q.need = r.need /\ q.fd = r.fd /\ q.confs = r.confs /\ q.ip = r.ip
        /\ q.port = r.port
    BY <1>8 DEF At, Tags
  <2>2. t.abort = s.abort /\ t.dead = s.dead /\ t.query = s.query /\ \A d \in Conn \ {c} : t.client[d] = s.client[d]
    BY <1>8 DEF Only, At, Fields
  <2>3. Looked(s, t, c)
    <3>1. q.flags \in SUBSET Flags /\ ("iphash" \in q.flags <=> "iphash" \in r.flags)
      BY <1>3, <1>8, ClientTyped DEF Flags
    <3>2. t.fds = s.fds + Num(Asking(q)) - Num(Asking(r)) /\ t.fds <= FdLimit
      BY <1>3, <1>8 DEF Num
    <3>3. Only({"client", "query", "fds"}, s, t)
      BY <1>8 DEF Only
    <3> QED BY <1>3, <1>8, <2>2, <3>1, <3>2, <3>3 DEF Looked
  <2>4. GoodClient(t, {}, c)
    <3>1. Asked(t, c) = Asked(s, c) /\ (OnAbort(t, c) <=> OnAbort(s, c))
      BY <2>2 DEF Asked, OnAbort
    <3>2. r.is = "unknown" /\ {"auth", "tls"} \cap r.flags = {} /\ (r.auth.dns <=> Asked(s, c) # {})
      BY <1>1, <1>3 DEF Live
    <3>3. \A f \in {"closing", "dead", "tls", "iphash"} : f \in q.flags <=> f \in r.flags
      BY <1>8
    <3>4. "closing" \notin q.flags /\ "tls" \notin q.flags /\ ("dead" \in q.flags <=> "dead" \in r.flags)
          /\ ("iphash" \in q.flags <=> "iphash" \in r.flags)
      BY <1>2, <3>2, <3>3
    <3>5. q.auth # NoAuth => q.flags = r.flags /\ q.auth.dns = TRUE
      BY <1>8
    <3>6. q.auth # NoAuth \/ "auth" \in q.flags
      BY <1>8 DEF NoAuth
    <3>7. q.auth.dns <=> r.auth.dns
      BY <1>8
    <3>8. Live(t, c)
      BY <1>3, <2>1, <2>2, <3>1, <3>2, <3>4, <3>5, <3>7 DEF Live
    <3>9. Settled(t, c)
      BY <1>3, <2>1, <3>1, <3>4, <3>6 DEF Settled
    <3> QED BY <1>2, <2>1, <3>4, <3>8, <3>9 DEF GoodClient, Has
  <2>5. GoodBut(t, {})
    <3>1. {} \subseteq {} \cup {c}
      OBVIOUS
    <3> QED BY <2>3, <2>4, <3>1, LookedGood
  <2> QED BY <1>2, <2>2, <2>5 DEF Follows, Kept
<1>9. CASE r.auth.dns = TRUE
  <2>1. auth_error(s, c, eof) = m
    BY <1>6, <1>7, <1>9
  <2>2. m.client[c].flags = r.flags
    BY <1>5 DEF At, Tags
  <2>3. ~Asking(m.client[c]) /\ m.client[c].auth \in Lookup \cup {NoAuth}
    BY <1>5, <1>7 DEF Asking, Lookup
  <2>4. At({"auth", "flags"}, s, m, c)
    BY <1>5 DEF At
  <2> QED BY <1>5, <1>7, <1>8, <1>9, <2>1, <2>2, <2>3, <2>4
<1>10. CASE r.auth.dns = FALSE
  <2>1. Formed(m) /\ m.misuse = FALSE /\ m.client[c].fd = TRUE
    BY <1>3, <1>5 DEF Only, At, Fields, Tags
  <2>2. Only({"client"}, m, u) /\ At({"auth", "flags"}, m, u, c) /\ u.client[c].auth = NoAuth
        /\ u.client[c].flags = m.client[c].flags \cup {"auth"}
    BY <2>1, ReleasedForm
  <2>3. auth_error(s, c, eof) = IF eof THEN dead_link_on_read(u, c) ELSE u
    BY <1>6, <1>7, <1>10
  <2> HIDE DEF u
  <2>4. Only({"client", "fds"}, s, u) /\ At({"auth", "flags"}, s, u, c) /\ u.fds = s.fds - 1
        /\ u.client[c].flags = r.flags \cup {"auth"} /\ u.client[c].is = r.is
    BY <1>5, <2>2 DEF Only, At, Fields, Tags
  <2>5. ~Asking(u.client[c]) /\ u.client[c].auth.dns = r.auth.dns
    <3>1. NoAuth.dns = FALSE /\ NoAuth.ident = "off"
      BY DEF NoAuth
    <3> QED BY <1>10, <2>2, <3>1 DEF Asking
  <2>6. Follows(s, u)
    BY <1>8, <2>2, <2>4, <2>5
  <2>7. Follows(u, dead_link_on_read(u, c))
    <3>1. Follows(u, u)
      BY <2>6 DEF Follows, Kept
    <3>2. Follows(u, exit_client(u, c))
      BY <1>2, <2>4, <2>6, ExitFollows DEF Follows
    <3> QED BY <3>1, <3>2 DEF dead_link_on_read
  <2>8. Follows(s, dead_link_on_read(u, c))
    BY <2>6, <2>7, FollowsTrans
  <2> QED BY <2>3, <2>6, <2>8
<1> QED BY <1>7, <1>9, <1>10

\* rem_request() of a query that is there only removes it.
LEMMA RemForm ==
  ASSUME NEW s, Formed(s), s.misuse = FALSE, NEW q \in s.query
  PROVE  rem_request(s, q) = SetQuery(s, s.query \ {q})
<1> DEFINE t == SetQuery(s, s.query \ {q})
           bad == q \notin s.query
<1>1. rem_request(s, q) = Misused(t, bad)
  BY DEF rem_request, SetQuery
<1>2. bad = FALSE
  OBVIOUS
<1> HIDE DEF bad
<1>3. Formed(t) /\ t.misuse = FALSE
  BY Setters DEF Only, Fields
<1> HIDE DEF t
<1> QED BY <1>1, <1>2, <1>3, MisusedNot DEF t

\* An exit does not look at the query that is being answered.
LEMMA ExitsWithout ==
  ASSUME NEW u, NEW c \in Conn, NEW w, Exits(u, c, w), Formed(u), u.client[c].auth = NoAuth, NEW q
  PROVE  Exits(SetQuery(u, u.query \ {q}), c, SetQuery(w, w.query \ {q}))
<1> DEFINE s == SetQuery(u, u.query \ {q})
           t == SetQuery(w, w.query \ {q})
<1>1. Formed(w)
  BY DEF Exits, Only
<1>2. Only({"query"}, u, s) /\ s.query = u.query \ {q}
  BY Setters
<1>3. Only({"query"}, w, t) /\ t.query = w.query \ {q}
  BY <1>1, Setters
<1> HIDE DEF s, t
<1>4. s.client = u.client /\ s.conf = u.conf /\ s.class = u.class /\ s.ip = u.ip /\ s.fds = u.fds
      /\ s.dead = u.dead /\ s.misuse = u.misuse
      /\ s.abort = u.abort /\ s.listener = u.listener /\ s.ping_cookie = u.ping_cookie
  BY <1>2 DEF Only, Fields
<1>5. t.client = w.client /\ t.conf = w.conf /\ t.class = w.class /\ t.ip = w.ip /\ t.fds = w.fds
      /\ t.dead = w.dead /\ t.misuse = w.misuse
      /\ t.abort = w.abort /\ t.listener = w.listener /\ t.ping_cookie = w.ping_cookie
  BY <1>3 DEF Only, Fields
<1>6. Dropped(s, c) = Dropped(u, c) /\ (\A k : Uses(s, c, k) = Uses(u, c, k))
  BY <1>4 DEF Dropped, Uses
<1>7. (\A x : Detached(s, c, x) = Detached(u, c, x)) /\ (\A k : Left(s, c, k) = Left(u, c, k))
  BY <1>4, <1>6 DEF Detached, Left
<1>8. Only(Fields \ {"abort", "listener", "ping_cookie"}, s, t) /\ At(Tags \ {"is", "need", "ip", "port"}, s, t, c)
  <2>1. Formed(t)
    BY <1>3 DEF Only
  <2>2. w.abort = u.abort /\ w.listener = u.listener /\ w.ping_cookie = u.ping_cookie
        /\ At(Tags \ {"is", "need", "ip", "port"}, u, w, c)
    BY DEF Exits, Only, Fields
  <2> QED BY <1>4, <1>5, <2>1, <2>2 DEF Only, At, Fields
<1>9. t.query = {p \in s.query : p.who \notin Dropped(s, c) /\ (s.client[c].auth = NoAuth \/ p.who # c)}
  <2>1. w.query = {p \in u.query : p.who \notin Dropped(u, c) /\ (u.client[c].auth = NoAuth \/ p.who # c)}
    BY DEF Exits
  <2> QED BY <1>2, <1>3, <1>4, <1>6, <2>1
<1>10. /\ t.client[c].list = "none"
       /\ t.client[c].flags = (s.client[c].flags \ {"iphash"}) \cup {"closing", "dead"} /\ t.client[c].auth = NoAuth
       /\ t.client[c].fd = FALSE /\ t.client[c].confs = {}
       /\ t.dead = s.dead \cup {c}
       /\ t.conf = [x \in Conf |-> Detached(s, c, x)] /\ t.class = [k \in Class |-> Left(s, c, k)]
       /\ t.ip = IF "iphash" \in s.client[c].flags THEN [s.ip EXCEPT ![s.client[c].ip] = Uncounted(@)] ELSE s.ip
       /\ t.fds = (IF s.client[c].auth.ident \in {"connect", "read"} THEN s.fds - 1 ELSE s.fds) - 1
  BY <1>4, <1>5, <1>7 DEF Exits
<1>11. /\ s.misuse = FALSE /\ s.client[c].list = ListOf(s.client[c].is) /\ c \notin s.dead
       /\ \A x \in s.client[c].confs : s.conf[x].ref # 0 /\ s.class[s.conf[x].class].ref # 0
       /\ "iphash" \in s.client[c].flags => s.ip[s.client[c].ip].local # 0
       => t.misuse = FALSE
  BY <1>4, <1>5 DEF Exits
<1> QED BY <1>8, <1>9, <1>10, <1>11 DEF Exits, s, t

\* The lookup of a client ends, or goes on with another query, and the ident query may be over.
LookedUp(s, t, c) ==
  LET r == s.client[c] q == t.client[c] IN
  /\ Only({"client", "query"}, s, t) /\ At({"auth", "flags"}, s, t, c) /\ q.auth.ident \in {r.auth.ident, "off"}
  /\ Asking(q) <=> Asking(r)
  /\ q.auth \in Lookup \cup {NoAuth} /\ t.query \in SUBSET Request
  /\ \A p \in Request : p.who # c => (p \in t.query <=> p \in s.query)
  /\ \/ q.auth = r.auth /\ q.flags = r.flags /\ \E b \in BOOLEAN : Asked(t, c) = {[who |-> c, ptr |-> b]}
     \/ q.auth.dns = FALSE /\ Asked(t, c) = {} /\ q.flags = r.flags /\ q.auth \in Lookup /\ q.auth.ident # "no"
     \/ q.auth = NoAuth /\ Asked(t, c) = {} /\ q.flags = r.flags \cup {"auth"}

\* It leaves a good state, since the client is still looked up, or is read.
LEMMA LookedUpGood ==
  ASSUME NEW s, GoodBut(s, {}), NEW c \in Conn, s.client[c].auth.dns = TRUE, NEW t, LookedUp(s, t, c)
  PROVE  Follows(s, t)
<1> DEFINE r == s.client[c]
           q == t.client[c]
<1>1. r.auth # NoAuth
  BY DEF NoAuth
<1>2. r.is # "none" /\ "closing" \notin r.flags
  BY <1>1, There DEF Has
<1>3. Live(s, c) /\ Settled(s, c) /\ Formed(s) /\ s \in State /\ r \in Client /\ s.fds \in Int
      /\ s.query \in SUBSET Request
      /\ s.fds <= FdLimit /\ FdLimit \in Nat
  BY <1>2, LiveClient, Typed, ConnAssumption DEF GoodBut, Limits, GoodClient, Has
<1>4. /\ Only({"client", "query"}, s, t) /\ At({"auth", "flags"}, s, t, c)
      /\ Asking(q) <=> Asking(r)
      /\ q.auth \in Lookup \cup {NoAuth} /\ t.query \in SUBSET Request
      /\ \A p \in Request : p.who # c => (p \in t.query <=> p \in s.query)
  BY DEF LookedUp
<1>5. q.is = r.is /\ q.list = r.list /\ q.need = r.need /\ q.fd = r.fd /\ q.confs = r.confs /\ q.ip = r.ip
      /\ q.port = r.port
  BY <1>4 DEF At, Tags
<1>6. t.abort = s.abort /\ t.dead = s.dead /\ t.fds = s.fds /\ \A d \in Conn \ {c} : t.client[d] = s.client[d]
  BY <1>4 DEF Only, At, Fields
<1>7. q.flags = r.flags \/ q.flags = r.flags \cup {"auth"}
  BY DEF LookedUp
<1>8. \A f \in {"closing", "dead", "tls", "iphash"} : f \in q.flags <=> f \in r.flags
  BY <1>7
<1>9. Looked(s, t, c)
  <2>1. q.flags \in SUBSET Flags
    BY <1>3, <1>7, ClientTyped DEF Flags
  <2>2. t.fds = s.fds + Num(Asking(q)) - Num(Asking(r)) /\ t.fds <= FdLimit
    BY <1>3, <1>4, <1>6 DEF Num
  <2>3. Only({"client", "query", "fds"}, s, t)
    BY <1>4 DEF Only
  <2> QED BY <1>4, <1>8, <2>1, <2>2, <2>3 DEF Looked
<1>10. GoodClient(t, {}, c)
  <2>1. OnAbort(t, c) <=> OnAbort(s, c)
    BY <1>6 DEF OnAbort
  <2>2. r.is = "unknown" /\ "auth" \notin r.flags /\ "tls" \notin r.flags
    BY <1>1, <1>3 DEF Live
  <2>3. "closing" \notin q.flags /\ "tls" \notin q.flags /\ ("dead" \in q.flags <=> "dead" \in r.flags)
        /\ ("iphash" \in q.flags <=> "iphash" \in r.flags)
    BY <1>2, <1>8, <2>2
  <2>4. NoAuth.dns = FALSE
    BY DEF NoAuth
  <2>5. /\ q.auth # NoAuth => "auth" \notin q.flags /\ (q.auth.dns \/ q.auth.ident # "no")
        /\ Asked(t, c) = {} \/ \E b \in BOOLEAN : Asked(t, c) = {[who |-> c, ptr |-> b]}
        /\ q.auth.dns <=> Asked(t, c) # {}
        /\ q.auth # NoAuth \/ "auth" \in q.flags
    <3>1. CASE q.auth = r.auth /\ q.flags = r.flags /\ \E b \in BOOLEAN : Asked(t, c) = {[who |-> c, ptr |-> b]}
      BY <1>1, <2>2, <3>1
    <3>2. CASE q.auth.dns = FALSE /\ Asked(t, c) = {} /\ q.flags = r.flags /\ q.auth \in Lookup /\ q.auth.ident # "no"
      <4>1. q.auth # NoAuth
        BY <3>2 DEF Lookup, NoAuth
      <4> QED BY <2>2, <3>2, <4>1
    <3>3. CASE q.auth = NoAuth /\ Asked(t, c) = {} /\ q.flags = r.flags \cup {"auth"}
      BY <2>4, <3>3
    <3> QED BY <3>1, <3>2, <3>3 DEF LookedUp
  <2>6. Live(t, c)
    BY <1>3, <1>5, <1>6, <2>2, <2>3, <2>5 DEF Live
  <2>7. Settled(t, c)
    BY <1>3, <1>5, <2>1, <2>3, <2>5 DEF Settled
  <2> QED BY <1>2, <1>5, <2>3, <2>6, <2>7 DEF GoodClient, Has
<1>11. GoodBut(t, {})
  <2>1. {} \subseteq {} \cup {c}
    OBVIOUS
  <2> QED BY <1>9, <1>10, <2>1, LookedGood
<1> QED BY <1>2, <1>6, <1>11 DEF Follows, Kept

\* Of a lookup under way: whose it is, and that it is the only one of its client.
LEMMA LookupOf ==
  ASSUME NEW s, GoodBut(s, {}), NEW q \in s.query, q.who \in Conn
  PROVE  LET c == q.who IN
         /\ s.client[c].auth \in Lookup /\ s.client[c].auth.dns = TRUE /\ Asked(s, c) = {q} /\ q \in Request
         /\ q.ptr \in BOOLEAN /\ Formed(s) /\ s \in State /\ s.misuse = FALSE /\ s.client[c].fd = TRUE
         /\ s.client[c].is # "none" /\ "closing" \notin s.client[c].flags
<1> DEFINE c == q.who
           r == s.client[c]
<1>1. q \in Asked(s, c) /\ GoodClient(s, {}, c) /\ s \in State /\ s.misuse = FALSE
  BY DEF Asked, GoodBut
<1>2. r.is # "none" /\ "closing" \notin r.flags
  BY <1>1 DEF GoodClient, Absent, Closed, Has
<1>3. Live(s, c) /\ Formed(s) /\ r \in Client /\ s.query \in SUBSET Request
  BY <1>1, <1>2, LiveClient, Typed
<1>4. r.auth.dns \in BOOLEAN /\ r.auth \in Lookup \cup {NoAuth}
  <2>1. r.auth \in Lookup \cup {NoAuth}
    BY <1>3, ClientTyped
  <2>2. NoAuth.dns \in BOOLEAN /\ \A a \in Lookup : a.dns \in BOOLEAN
    BY DEF Lookup, NoAuth
  <2> QED BY <2>1, <2>2
<1>5. r.auth.dns = TRUE /\ r.auth \in Lookup
  <2>1. r.auth.dns
    BY <1>1, <1>3 DEF Live
  <2> QED BY <1>4, <2>1 DEF NoAuth
<1>6. PICK p \in BOOLEAN : Asked(s, c) = {[who |-> c, ptr |-> p]}
  BY <1>1, <1>3 DEF Live
<1>7. Asked(s, c) = {q}
  BY <1>1, <1>6
<1>8. q \in Request /\ q.ptr \in BOOLEAN
  BY <1>3 DEF Request
<1> QED BY <1>1, <1>2, <1>3, <1>5, <1>7, <1>8 DEF Live

\* A name that was found is asked for its address in its turn.
LEMMA AskAgainGood ==
  ASSUME NEW s, GoodBut(s, {}), NEW q \in s.query, q.who \in Conn, q.ptr = TRUE
  PROVE  Follows(s, rem_request(Ask(s, q.who, FALSE), q))
<1> DEFINE c == q.who
           n == [who |-> c, ptr |-> FALSE]
           u == SetQuery(s, s.query \cup {n})
           t == SetQuery(u, u.query \ {q})
<1>1. /\ s.client[c].auth \in Lookup /\ s.client[c].auth.dns = TRUE /\ Asked(s, c) = {q} /\ q \in Request
      /\ Formed(s) /\ s \in State /\ s.misuse = FALSE
  BY LookupOf
<1>2. Only({"query"}, s, u) /\ u.query = s.query \cup {n}
  BY <1>1, Setters
<1>3. rem_request(Ask(s, c, FALSE), q) = rem_request(u, q)
  BY DEF Ask, SetQuery
<1> HIDE DEF u
<1>4. Formed(u) /\ u.misuse = FALSE /\ q \in u.query
  BY <1>1, <1>2 DEF Only, Fields
<1>5. rem_request(u, q) = t /\ Only({"query"}, u, t) /\ t.query = u.query \ {q}
  <2>1. rem_request(u, q) = t
    BY <1>4, RemForm
  <2>2. Only({"query"}, u, t) /\ t.query = u.query \ {q}
    BY <1>4, Setters
  <2> QED BY <2>1, <2>2
<1> HIDE DEF t
<1>6. Only({"query"}, s, t) /\ t.client = s.client
  BY <1>2, <1>5 DEF Only, Fields
<1>7. Asked(t, c) = {n}
  <2>1. n # q /\ n.who = c
    OBVIOUS
  <2>2. \A p : p \in Asked(t, c) <=> p \in (Asked(s, c) \cup {n}) \ {q}
    BY <1>2, <1>5, <2>1 DEF Asked
  <2> QED BY <1>1, <2>1, <2>2
<1>8. t.query \in SUBSET Request /\ \A p \in Request : p.who # c => (p \in t.query <=> p \in s.query)
  <2>1. s.query \in SUBSET Request /\ n \in Request
    BY <1>1, Typed DEF Request
  <2>2. n.who = c
    OBVIOUS
  <2> QED BY <1>1, <1>2, <1>5, <2>1, <2>2
<1>9. LookedUp(s, t, c)
  <2>1. Only({"client", "query"}, s, t) /\ At({"auth", "flags"}, s, t, c)
    BY <1>6 DEF Only, At
  <2>2. t.client[c].auth = s.client[c].auth /\ t.client[c].flags = s.client[c].flags
    BY <1>6
  <2>3. \E b \in BOOLEAN : Asked(t, c) = {[who |-> c, ptr |-> b]}
    BY <1>7
  <2> QED BY <1>1, <1>8, <2>1, <2>2, <2>3 DEF LookedUp, Asking
<1> QED BY <1>1, <1>3, <1>5, <1>9, LookedUpGood

\* The lookup of a client is over: so is its state, once it is read, or gone.
Answers(s, q, w) == Formed(w) /\ w.misuse = FALSE /\ q \in w.query /\ Follows(s, SetQuery(w, w.query \ {q}))

\* The answer reaches the client, which may be read and exited by then; the query that is being
\* answered is still listed when dns_callback returns, since only rem_request() takes it off.
LEMMA ReleaseGood ==
  ASSUME NEW s, GoodBut(s, {}), NEW q \in s.query, NEW c \in Conn, q.who = c, NEW eof \in BOOLEAN
  PROVE  LET n == [s EXCEPT !.client[c].auth.dns = FALSE] IN Answers(s, q, auth_release_client(n, c, eof))
<1> DEFINE r == s.client[c]
           d == [r.auth EXCEPT !.dns = FALSE]
           n == PutAuth(s, c, d)
           u == Released(n, c)
           e == exit_client(u, c)
           t == SetQuery(u, u.query \ {q})
<1>1. /\ r.auth \in Lookup /\ r.auth.dns = TRUE /\ Asked(s, c) = {q} /\ q \in Request
      /\ Formed(s) /\ s \in State /\ s.misuse = FALSE /\ r.fd = TRUE /\ r.is # "none" /\ "closing" \notin r.flags
  BY LookupOf
<1>2. d.dns = FALSE /\ d.ident = r.auth.ident /\ d \in Lookup
  BY <1>1 DEF Lookup
<1>3. [s EXCEPT !.client[c].auth.dns = FALSE] = n
  BY <1>1 DEF PutAuth
<1> HIDE DEF d
<1>4. Only({"client"}, s, n) /\ At({"auth"}, s, n, c) /\ n.client[c].auth = d
  BY <1>1, Putters
<1>5. auth_release_client(n, c, eof) = IF n.client[c].auth.dns \/ n.client[c].auth.ident # "no" THEN n
                                       ELSE IF eof THEN dead_link_on_read(u, c) ELSE u
  BY DEF auth_release_client, Released
<1> HIDE DEF n
<1>6. Formed(n) /\ n.misuse = FALSE /\ n.client[c].fd = TRUE /\ n.query = s.query
  BY <1>1, <1>4 DEF Only, At, Fields, Tags
<1>7. ASSUME NEW w, Formed(w), w.misuse = FALSE, w.query = s.query, Only({"client"}, s, w),
             At({"auth", "flags"}, s, w, c),
             \/ w.client[c].auth = d /\ d.ident # "no" /\ w.client[c].flags = r.flags
             \/ w.client[c].auth = NoAuth /\ ~Asking(r) /\ w.client[c].flags = r.flags \cup {"auth"}
      PROVE  LookedUp(s, SetQuery(w, w.query \ {q}), c)
  <2> DEFINE v == SetQuery(w, w.query \ {q})
  <2>1. Only({"query"}, w, v) /\ v.query = w.query \ {q}
    BY <1>7, Setters
  <2> HIDE DEF v
  <2>2. Only({"client", "query"}, s, v) /\ At({"auth", "flags"}, s, v, c) /\ v.client = w.client
    BY <1>7, <2>1 DEF Only, At, Fields
  <2>3. Asked(v, c) = {}
    BY <1>1, <1>7, <2>1 DEF Asked
  <2>4. v.query \in SUBSET Request /\ \A p \in Request : p.who # c => (p \in v.query <=> p \in s.query)
    <3>1. s.query \in SUBSET Request
      BY <1>1, Typed
    <3> QED BY <1>7, <2>1, <3>1
  <2>5. NoAuth.ident = "off" /\ NoAuth.dns = FALSE
    BY DEF NoAuth
  <2>6. v.client[c].auth.ident \in {r.auth.ident, "off"} /\ (Asking(v.client[c]) <=> Asking(r))
    BY <1>2, <1>7, <2>2, <2>5 DEF Asking
  <2>7. v.client[c].auth \in Lookup \cup {NoAuth}
    BY <1>2, <1>7, <2>2
  <2>8. \/ v.client[c].auth.dns = FALSE /\ Asked(v, c) = {} /\ v.client[c].flags = r.flags
           /\ v.client[c].auth \in Lookup /\ v.client[c].auth.ident # "no"
        \/ v.client[c].auth = NoAuth /\ Asked(v, c) = {} /\ v.client[c].flags = r.flags \cup {"auth"}
    BY <1>2, <1>7, <2>2, <2>3
  <2>9. LookedUp(s, v, c)
    BY <2>2, <2>4, <2>6, <2>7, <2>8 DEF LookedUp
  <2> QED BY <2>9 DEF v
<1>8. CASE r.auth.ident # "no"
  <2>1. auth_release_client(n, c, eof) = n
    BY <1>2, <1>4, <1>5, <1>8
  <2>2. At({"auth", "flags"}, s, n, c) /\ n.client[c].flags = r.flags
    BY <1>4 DEF At, Tags
  <2>3. LookedUp(s, SetQuery(n, n.query \ {q}), c)
    BY <1>2, <1>4, <1>6, <1>7, <1>8, <2>2
  <2>4. Follows(s, SetQuery(n, n.query \ {q}))
    BY <1>1, <2>3, LookedUpGood
  <2> QED BY <1>3, <1>6, <2>1, <2>4 DEF Answers
<1>9. CASE r.auth.ident = "no"
  <2>1. auth_release_client(n, c, eof) = IF eof THEN dead_link_on_read(u, c) ELSE u
    BY <1>2, <1>4, <1>5, <1>9
  <2>2. Only({"client"}, n, u) /\ At({"auth", "flags"}, n, u, c) /\ u.client[c].auth = NoAuth
        /\ u.client[c].flags = n.client[c].flags \cup {"auth"}
    BY <1>6, ReleasedForm
  <2> HIDE DEF u
  <2>3. /\ Formed(u) /\ u.misuse = FALSE /\ u.query = s.query /\ Only({"client"}, s, u)
        /\ At({"auth", "flags"}, s, u, c)
        /\ u.client[c].flags = r.flags \cup {"auth"} /\ u.client[c].is = r.is /\ u.client[c].confs = r.confs
        /\ u.conf = s.conf
        /\ u.client[c].list = r.list /\ u.dead = s.dead
    BY <1>1, <1>4, <1>6, <2>2 DEF Only, At, Fields, Tags
  <2>4. LookedUp(s, t, c)
    <3>1. ~Asking(r)
      BY <1>9 DEF Asking
    <3> QED BY <1>7, <2>2, <2>3, <3>1
  <2>5. Follows(s, t)
    BY <1>1, <2>4, LookedUpGood
  <2>6. Answers(s, q, u)
    BY <2>3, <2>5 DEF Answers
  <2>7. ASSUME eof = TRUE, ~Defunct(u, c) PROVE Answers(s, q, e)
    <3>1. r \in Client /\ s.conf \in [Conf -> MaskItem]
      BY <1>1, Typed
    <3>2. r.confs \in SUBSET Conf
      BY <3>1, ClientTyped
    <3>3. "closing" \notin u.client[c].flags
      BY <2>7 DEF Defunct, Has
    <3>4. Exits(u, c, e)
      BY <2>2, <2>3, <3>1, <3>2, <3>3, ExitForm
    <3>5. Only({"query"}, u, t)
      BY <2>3, Setters
    <3>6. t.client = u.client
      BY <3>5 DEF Only, Fields
    <3> HIDE DEF e
    <3>7. Exits(t, c, SetQuery(e, e.query \ {q}))
      BY <2>2, <2>3, <3>4, ExitsWithout
    <3>8. Follows(t, SetQuery(e, e.query \ {q}))
      <4> DEFINE f == SetQuery(e, e.query \ {q})
      <4> HIDE DEF f, t
      <4>1. GoodBut(t, {}) /\ Exits(t, c, f)
        BY <2>5, <3>7 DEF Follows, f
      <4>2. t.client[c].is # "none" /\ "closing" \notin t.client[c].flags
        BY <1>1, <2>3, <3>3, <3>6
      <4>3. GoodBut(f, {} \ {c}) /\ Spared(t, f, c)
        BY <4>1, <4>2, ExitsGood
      <4>4. {} \ {c} = {}
        OBVIOUS
      <4> QED BY <4>3, <4>4, SparedKept DEF Follows, f
    <3>9. Follows(s, SetQuery(e, e.query \ {q}))
      BY <2>5, <3>8, FollowsTrans
    <3>10. Formed(e) /\ q \in e.query
      <4>1. e.query = {p \in u.query : p.who \notin Dropped(u, c) /\ (u.client[c].auth = NoAuth \/ p.who # c)}
            /\ Formed(e)
        BY <3>4 DEF Exits, Only
      <4>2. q.who \notin Dropped(u, c)
        BY <2>3, <3>2, ConnAssumption DEF Dropped
      <4> QED BY <2>2, <2>3, <4>1, <4>2
    <3>11. e.misuse = FALSE
      <4>1. SetQuery(e, e.query \ {q}).misuse = FALSE
        BY <3>9 DEF Follows, GoodBut
      <4>2. Only({"query"}, e, SetQuery(e, e.query \ {q}))
        BY <3>10, Setters
      <4> QED BY <4>1, <4>2 DEF Only, Fields
    <3> QED BY <3>9, <3>10, <3>11 DEF Answers
  <2>8. auth_release_client(n, c, eof) = u \/ (auth_release_client(n, c, eof) = e /\ eof = TRUE /\ ~Defunct(u, c))
    BY <2>1 DEF dead_link_on_read
  <2> QED BY <1>3, <2>6, <2>7, <2>8
<1> QED BY <1>3, <1>8, <1>9

\* The end of a DNS lookup of a client leaves a good state.
LEMMA LookupEndGood ==
  ASSUME NEW s, GoodBut(s, {}), NEW q \in s.query, q.who \in Conn, NEW ok \in BOOLEAN, NEW eof \in BOOLEAN
  PROVE  Follows(s, res_readreply(s, q, ok, eof))
<1> DEFINE c == q.who
           w == auth_release_client([s EXCEPT !.client[c].auth.dns = FALSE], c, eof)
           bad == s.client[c].auth = NoAuth
<1>1. s.client[c].auth.dns = TRUE /\ q.ptr \in BOOLEAN
  BY LookupOf
<1>2. CASE ok = TRUE /\ q.ptr = TRUE
  <2>1. res_readreply(s, q, ok, eof) = rem_request(Ask(s, q.who, FALSE), q)
    BY <1>2 DEF res_readreply
  <2> QED BY <1>2, <2>1, AskAgainGood
<1>3. CASE ~(ok = TRUE /\ q.ptr = TRUE)
  <2>1. res_readreply(s, q, ok, eof) = rem_request(Misused(w, bad), q)
    BY <1>1, <1>3 DEF res_readreply, dns_callback, auth_dns_callback
  <2>2. bad = FALSE
    BY <1>1 DEF NoAuth
  <2>3. Answers(s, q, w)
    BY ReleaseGood
  <2> HIDE DEF w, bad
  <2>4. Misused(w, bad) = w
    BY <2>2, <2>3, MisusedNot DEF Answers
  <2>5. rem_request(w, q) = SetQuery(w, w.query \ {q})
    BY <2>3, RemForm DEF Answers
  <2> QED BY <2>1, <2>3, <2>4, <2>5 DEF Answers
<1> QED BY <1>2, <1>3

-----------------------------------------------------------------------------
(* Lookups for connect blocks, and the address cache. *)

\* Only lookups for blocks change, and whether a block waits for one.
LEMMA BlockLookupGood ==
  ASSUME NEW s, GoodBut(s, {}), NEW x \in Connect, NEW d \in {"no", "pending", "failed"}, NEW t,
         Only({"conf", "query"}, s, t), t.conf = [s.conf EXCEPT ![x].dns = d],
         t.query \in SUBSET Request, \A q \in t.query : q \in s.query \/ (q.who = x /\ s.conf[x].is # "none"),
         \A q \in s.query : q.who # x => q \in t.query
  PROVE  Follows(s, t)
<1>1. s \in State /\ s.misuse = FALSE /\ Refs(s) /\ Blocks(s) /\ Limits(s)
  BY DEF GoodBut
<1>2. /\ s.client \in [Conn -> Client] /\ s.query \in SUBSET Request /\ s.conf \in [Conf -> MaskItem]
      /\ s.class \in [Class -> ClassItem] /\ s.listener \in Listener /\ s.ip \in [Ip -> IpEntry]
      /\ s.fds \in Int /\ s.ping_cookie \in BOOLEAN
  BY <1>1, Typed
<1>3. Formed(t) /\ \A f \in Fields \ {"conf", "query"} : t[f] = s[f]
  BY DEF Only
<1>4. /\ t.client = s.client /\ t.abort = s.abort /\ t.dead = s.dead /\ t.class = s.class /\ t.listener = s.listener
      /\ t.ip = s.ip /\ t.fds = s.fds /\ t.ping_cookie = s.ping_cookie /\ t.misuse = s.misuse
  BY <1>3 DEF Fields
<1>5. x \in Conf /\ x \notin Conn
  BY ConnAssumption DEF Conf
<1>6. t.conf \in [Conf -> MaskItem]
      /\ \A y \in Conf : t.conf[y].ref = s.conf[y].ref /\ t.conf[y].class = s.conf[y].class /\ t.conf[y].is = s.conf[y].is
  BY <1>2, <1>5 DEF MaskItem
<1>7. Around(s, t)
  <2>1. \A q \in Request : q.who \in Conn => (q \in t.query <=> q \in s.query)
    BY <1>5
  <2>2. t.fds = s.fds + Num(t.listener.is = "open") - Num(s.listener.is = "open") /\ t.fds <= FdLimit
    BY <1>1, <1>2, <1>4 DEF Num, Limits
  <2> QED BY <1>1, <1>2, <1>3, <1>4, <1>6, <2>1, <2>2 DEF Around
<1>8. Blocks(t)
  <2>1. \A q \in t.query : q.who \in Connect => t.conf[q.who].is # "none"
    <3>1. \A y \in Connect : y \in Conf
      BY DEF Conf
    <3> QED BY <1>1, <1>6, <3>1 DEF Blocks
  <2> QED BY <1>1, <1>4, <1>6, <2>1 DEF Blocks
<1> QED BY <1>7, <1>8, AroundGood DEF Follows

\* The end of a DNS lookup of a connect block leaves a good state.
LEMMA BlockLookupEndGood ==
  ASSUME NEW s, GoodBut(s, {}), NEW q \in s.query, q.who \notin Conn, NEW ok \in BOOLEAN, NEW eof \in BOOLEAN
  PROVE  Follows(s, res_readreply(s, q, ok, eof))
<1> DEFINE x == q.who
           d == IF ok THEN "no" ELSE "failed"
           n == [who |-> x, ptr |-> FALSE]
           bad == s.conf[x].is = "none"
           u == SetQuery(s, s.query \cup {n})
           w == SetConf(s, [s.conf EXCEPT ![x].dns = d])
<1>1. s \in State /\ s.misuse = FALSE /\ Blocks(s) /\ s.query \in SUBSET Request
      /\ s.conf \in [Conf -> MaskItem] /\ Formed(s)
  BY Typed, StateFormed DEF GoodBut
<1>2. q \in Request /\ x \in Connect /\ q.ptr \in BOOLEAN /\ s.conf[x].is # "none" /\ x \in Conf
  <2>1. q \in Request /\ x \in Connect
    BY <1>1 DEF Request
  <2> QED BY <1>1, <2>1 DEF Request, Blocks, Conf
<1>3. CASE ok = TRUE /\ q.ptr = TRUE
  <2>1. res_readreply(s, q, ok, eof) = rem_request(u, q)
    BY <1>3 DEF res_readreply, Ask, SetQuery
  <2>2. Only({"query"}, s, u) /\ u.query = s.query \cup {n}
    BY <1>1, Setters
  <2> HIDE DEF u
  <2>3. Formed(u) /\ u.misuse = FALSE /\ q \in u.query
    BY <1>1, <2>2 DEF Only, Fields
  <2> DEFINE t == SetQuery(u, u.query \ {q})
  <2>4. rem_request(u, q) = t
    BY <2>3, RemForm
  <2>5. Only({"query"}, u, t) /\ t.query = u.query \ {q}
    BY <2>3, Setters
  <2> HIDE DEF t
  <2>6. Only({"conf", "query"}, s, t) /\ t.conf = s.conf
    BY <2>2, <2>5 DEF Only, Fields
  <2>7. s.conf[x].dns \in {"no", "pending", "failed"} /\ t.conf = [s.conf EXCEPT ![x].dns = s.conf[x].dns]
    BY <1>1, <1>2, <2>6 DEF MaskItem
  <2>8. t.query \in SUBSET Request /\ (\A p \in t.query : p \in s.query \/ (p.who = x /\ s.conf[x].is # "none"))
        /\ \A p \in s.query : p.who # x => p \in t.query
    <3>1. n \in Request /\ n.who = x
      BY <1>2 DEF Request
    <3> QED BY <1>1, <1>2, <2>2, <2>5, <3>1
  <2>9. Follows(s, t)
    BY <1>2, <2>6, <2>7, <2>8, BlockLookupGood
  <2> QED BY <2>1, <2>4, <2>9
<1>4. CASE ~(ok = TRUE /\ q.ptr = TRUE)
  <2>1. res_readreply(s, q, ok, eof) = rem_request(Misused(w, bad), q)
    <3>1. [s EXCEPT !.conf[x].dns = d] = w
      BY <1>1, <1>2 DEF SetConf
    <3> QED BY <1>2, <1>4, <3>1 DEF res_readreply, dns_callback, conf_dns_callback
  <2>2. Only({"conf"}, s, w) /\ w.conf = [s.conf EXCEPT ![x].dns = d]
    BY <1>1, Setters
  <2> HIDE DEF w
  <2>3. Formed(w) /\ w.misuse = FALSE /\ w.query = s.query
    BY <1>1, <2>2 DEF Only, Fields
  <2>4. bad = FALSE
    BY <1>2
  <2> HIDE DEF bad
  <2>5. Misused(w, bad) = w
    BY <2>3, <2>4, MisusedNot
  <2> DEFINE t == SetQuery(w, w.query \ {q})
  <2>6. rem_request(w, q) = t
    BY <2>3, RemForm
  <2>7. Only({"query"}, w, t) /\ t.query = w.query \ {q}
    BY <2>3, Setters
  <2> HIDE DEF t
  <2>8. Only({"conf", "query"}, s, t) /\ t.conf = [s.conf EXCEPT ![x].dns = d]
    BY <2>2, <2>7 DEF Only, Fields
  <2>9. d \in {"no", "pending", "failed"}
    OBVIOUS
  <2>10. t.query \in SUBSET Request /\ (\A p \in t.query : p \in s.query \/ (p.who = x /\ s.conf[x].is # "none"))
         /\ \A p \in s.query : p.who # x => p \in t.query
    BY <1>1, <2>3, <2>7
  <2> HIDE DEF d
  <2>11. Follows(s, t)
    BY <1>2, <2>8, <2>9, <2>10, BlockLookupGood
  <2> QED BY <2>1, <2>5, <2>6, <2>11
<1> QED BY <1>3, <1>4

\* The address cache may forget what it knows of an address, never whom it counts.
LEMMA ExpireGood ==
  ASSUME NEW s, GoodBut(s, {}), NEW p \in Ip
  PROVE  Follows(s, [s EXCEPT !.ip[p] = ipcache_record_delete([@ EXCEPT !.fresh = FALSE])])
<1> DEFINE e == ipcache_record_delete([s.ip[p] EXCEPT !.fresh = FALSE])
           t == SetIp(s, [s.ip EXCEPT ![p] = e])
<1>1. s \in State /\ s.misuse = FALSE /\ Blocks(s) /\ Limits(s) /\ Formed(s)
  BY StateFormed DEF GoodBut
<1>2. /\ s.client \in [Conn -> Client] /\ s.query \in SUBSET Request /\ s.conf \in [Conf -> MaskItem]
      /\ s.class \in [Class -> ClassItem] /\ s.listener \in Listener /\ s.ip \in [Ip -> IpEntry]
      /\ s.fds \in Int /\ s.ping_cookie \in BOOLEAN
  BY <1>1, Typed
<1>3. [s EXCEPT !.ip[p] = ipcache_record_delete([@ EXCEPT !.fresh = FALSE])] = t
  BY <1>1, <1>2 DEF SetIp
<1>4. e \in IpEntry /\ e.local = s.ip[p].local
  BY <1>2 DEF IpEntry, ipcache_record_delete, NoEntry
<1> HIDE DEF e
<1>5. Only({"ip"}, s, t) /\ t.ip = [s.ip EXCEPT ![p] = e]
  BY <1>1, Setters
<1> HIDE DEF t
<1>6. /\ Formed(t) /\ t.client = s.client /\ t.abort = s.abort /\ t.dead = s.dead /\ t.class = s.class
      /\ t.listener = s.listener
      /\ t.conf = s.conf /\ t.query = s.query /\ t.fds = s.fds /\ t.ping_cookie = s.ping_cookie /\ t.misuse = s.misuse
  BY <1>5 DEF Only, Fields
<1>7. t.ip \in [Ip -> IpEntry] /\ \A x \in Ip : t.ip[x].local = s.ip[x].local
  BY <1>2, <1>4, <1>5
<1>8. Around(s, t)
  <2>1. t.fds = s.fds + Num(t.listener.is = "open") - Num(s.listener.is = "open") /\ t.fds <= FdLimit
    BY <1>1, <1>2, <1>6 DEF Num, Limits
  <2> QED BY <1>1, <1>2, <1>6, <1>7, <2>1 DEF Around
<1>9. Blocks(t)
  BY <1>1, <1>6 DEF Blocks
<1> QED BY <1>3, <1>8, <1>9, AroundGood DEF Follows

\* A connection to another server may go on to its handshake, or to that of TLS first.
LEMMA HandshakeGood ==
  ASSUME NEW s, GoodBut(s, {}), NEW c \in Conn, s.client[c].is = "connecting",
         "closing" \notin s.client[c].flags, s.client[c].auth = NoAuth,
         NEW f \in SUBSET Flags, f \ {"tls"} = s.client[c].flags \ {"tls"},
         NEW is \in {"connecting", "handshake"}, is = "handshake" => "tls" \notin f,
         NEW t, Only({"client"}, s, t), At({"is", "flags"}, s, t, c), t.client[c].is = is, t.client[c].flags = f
  PROVE  Follows(s, t)
<1> DEFINE r == s.client[c]
           q == t.client[c]
<1>1. Live(s, c) /\ Settled(s, c)
  BY DEF GoodBut, GoodClient, Has
<1>2. q.list = r.list /\ q.need = r.need /\ q.fd = r.fd /\ q.confs = r.confs /\ q.ip = r.ip /\ q.port = r.port
      /\ q.auth = r.auth
  BY DEF At, Tags
<1>3. t.abort = s.abort /\ t.dead = s.dead /\ t.query = s.query
  BY DEF Only, Fields
<1>4. \A g \in Flags \ {"tls"} : g \in f <=> g \in r.flags
  OBVIOUS
<1>5. ("closing" \in f <=> "closing" \in r.flags) /\ ("dead" \in f <=> "dead" \in r.flags)
      /\ ("auth" \in f <=> "auth" \in r.flags)
      /\ ("iphash" \in f <=> "iphash" \in r.flags)
  BY <1>4 DEF Flags
<1>6. ListOf(is) = "unknown" /\ ListOf("connecting") = "unknown"
  BY DEF ListOf
<1>7. Asked(t, c) = Asked(s, c) /\ (OnAbort(t, c) <=> OnAbort(s, c))
  BY <1>3 DEF Asked, OnAbort
<1>8. Live(t, c)
  BY <1>1, <1>2, <1>3, <1>5, <1>6, <1>7 DEF Live
<1>9. Settled(t, c)
  BY <1>1, <1>5, <1>7 DEF Settled
<1>10. GoodClient(t, {}, c)
  BY <1>5, <1>8, <1>9 DEF GoodClient, Has
<1>11. Turned(s, t, c)
  BY <1>5 DEF Turned, Early
<1>12. {} \subseteq {} \cup {c}
  OBVIOUS
<1> QED BY <1>10, <1>11, <1>12, TurnedGood DEF Follows

\* What ssl_handshake() leaves of a connection whose TLS handshake is done.
Handshaken(s, c, ident, fails) ==
  LET t == [s EXCEPT !.client[c].flags = @ \ {"tls"}]
  IN IF s.client[c].is = "connecting" THEN [t EXCEPT !.client[c].is = "handshake"] ELSE auth_start(t, c, ident, fails)

\* The end of a TLS handshake leaves a good state.
LEMMA HandshakenGood ==
  ASSUME NEW s, GoodBut(s, {}), NEW c \in Conn, s.client[c].fd, "tls" \in s.client[c].flags,
         NEW ident \in BOOLEAN, NEW fails \in BOOLEAN
  PROVE  Follows(s, Handshaken(s, c, ident, fails))
<1> DEFINE r == s.client[c]
           f == r.flags \ {"tls"}
           t == PutFlags(s, c, f)
           u == PutIs(t, c, "handshake")
<1>1. r.is # "none" /\ "closing" \notin r.flags
  BY There DEF Has
<1>2. Live(s, c) /\ Settled(s, c) /\ Formed(s) /\ r \in Client
  BY <1>1, LiveClient DEF GoodBut, GoodClient, Has
<1>3. r.is \in {"unknown", "connecting"} /\ "auth" \notin r.flags /\ r.auth = NoAuth
  BY <1>2 DEF Live
<1>4. f \in SUBSET Flags /\ r.flags \in SUBSET Flags
  BY <1>2, ClientTyped
<1>5. Handshaken(s, c, ident, fails) = IF r.is = "connecting" THEN u ELSE auth_start(t, c, ident, fails)
  BY DEF Handshaken, PutFlags, PutIs
<1>6. /\ f \ {"tls"} = r.flags \ {"tls"} /\ "tls" \notin f
      /\ \A g \in Flags \ {"tls"} : g \in f <=> g \in r.flags
  OBVIOUS
<1>7. ("closing" \in f <=> "closing" \in r.flags) /\ ("dead" \in f <=> "dead" \in r.flags)
      /\ ("auth" \in f <=> "auth" \in r.flags)
      /\ ("iphash" \in f <=> "iphash" \in r.flags)
  BY <1>6 DEF Flags
<1> HIDE DEF f
<1>8. Only({"client"}, s, t) /\ At({"flags"}, s, t, c) /\ t.client[c].flags = f
  BY <1>2, Putters
<1> HIDE DEF t
<1>9. CASE r.is = "connecting"
  <2>1. Only({"client"}, t, u) /\ At({"is"}, t, u, c) /\ u.client[c].is = "handshake"
    BY <1>8, Putters DEF Only
  <2> HIDE DEF u
  <2>2. Only({"client"}, s, u) /\ At({"is", "flags"}, s, u, c) /\ u.client[c].flags = f
    BY <1>8, <2>1 DEF Only, At, Fields, Tags
  <2>3. PICK is \in {"connecting", "handshake"} : is = "handshake"
    OBVIOUS
  <2>4. Follows(s, u)
    BY <1>1, <1>3, <1>4, <1>6, <1>9, <2>1, <2>2, <2>3, HandshakeGood
  <2> QED BY <1>5, <1>9, <2>4
<1>10. CASE r.is = "unknown"
  <2> DEFINE w == auth_start(t, c, ident, fails)
  <2>1. /\ t.client[c].is = r.is /\ t.client[c].list = r.list /\ t.client[c].auth = r.auth /\ t.client[c].fd = r.fd
        /\ t.client[c].confs = r.confs /\ t.abort = s.abort /\ t.dead = s.dead /\ t.query = s.query
    BY <1>8 DEF Only, At, Fields, Tags
  <2>2. Asked(t, c) = Asked(s, c) /\ (OnAbort(t, c) <=> OnAbort(s, c))
    BY <2>1 DEF Asked, OnAbort
  <2>3. Live(t, c)
    BY <1>2, <1>3, <1>6, <1>7, <1>8, <1>10, <2>1, <2>2 DEF Live
  <2>4. GoodClient(t, {c}, c)
    BY <1>1, <1>7, <1>8, <2>1, <2>3 DEF GoodClient, Has
  <2>5. Turned(s, t, c)
    BY <1>4, <1>7, <1>8, <1>10, <2>1 DEF Turned, Early, At
  <2>6. GoodBut(t, {c}) /\ Kept(s, t)
    <3>1. {} \subseteq {c} \cup {c}
      OBVIOUS
    <3> QED BY <1>1, <2>4, <2>5, <3>1, TurnedGood
  <2>7. /\ t.client[c].is = "unknown" /\ t.client[c].auth = NoAuth
        /\ {"closing", "auth", "tls"} \cap t.client[c].flags = {}
        /\ "dead" \in t.client[c].flags <=> OnAbort(t, c)
        /\ "dead" \in t.client[c].flags \/ ("iphash" \notin t.client[c].flags /\ t.client[c].confs = {})
    <3>1. "dead" \in r.flags <=> OnAbort(s, c)
      BY <1>2 DEF Settled
    <3>2. "dead" \in r.flags \/ ("iphash" \notin r.flags /\ r.confs = {})
      BY <1>2, <1>10 DEF Settled
    <3> QED BY <1>1, <1>3, <1>6, <1>7, <1>8, <1>10, <2>1, <2>2, <3>1, <3>2
  <2>8. GoodBut(w, {}) /\ Kept(t, w)
    BY <2>6, <2>7, AuthStartGood
  <2>9. Handshaken(s, c, ident, fails) = w
    BY <1>5, <1>10
  <2> HIDE DEF w
  <2> QED BY <2>6, <2>8, <2>9, KeptTrans DEF Follows
<1> QED BY <1>3, <1>9, <1>10

\* What server_connect_callback() makes of a connection that is there.
Connected(s, c, tls) ==
  CASE tls = "no"   -> [s EXCEPT !.client[c].is = "handshake"]
    [] tls = "ok"   -> Flag(s, c, "tls")
    [] tls = "fail" -> exit_client(Flag(s, c, "dead"), c)

\* So does the end of connect().
LEMMA ConnectedGood ==
  ASSUME NEW s, GoodBut(s, {}), NEW c \in Conn, s.client[c].is = "connecting", s.client[c].fd, ~Defunct(s, c),
         ~Has(s, c, "tls"),
         NEW tls \in {"no", "ok", "fail"}
  PROVE  Follows(s, Connected(s, c, tls))
<1> DEFINE r == s.client[c]
<1>1. r.is # "none" /\ "closing" \notin r.flags /\ "dead" \notin r.flags /\ "tls" \notin r.flags
  BY DEF Has, Defunct
<1>2. Live(s, c) /\ Settled(s, c) /\ Formed(s) /\ r \in Client
  BY <1>1, LiveClient DEF GoodBut, GoodClient, Has
<1>3. r.auth = NoAuth /\ "auth" \notin r.flags /\ r.flags \in SUBSET Flags
  BY <1>2, ClientTyped DEF Live
<1>4. CASE tls = "no"
  <2> DEFINE t == PutIs(s, c, "handshake")
  <2>1. Only({"client"}, s, t) /\ At({"is"}, s, t, c) /\ t.client[c].is = "handshake"
    BY <1>2, Putters
  <2>2. Connected(s, c, tls) = t
    BY <1>4 DEF Connected, PutIs
  <2> HIDE DEF t
  <2>3. At({"is", "flags"}, s, t, c) /\ t.client[c].flags = r.flags
    BY <2>1 DEF At, Tags
  <2>4. PICK is \in {"connecting", "handshake"} : is = "handshake"
    OBVIOUS
  <2>5. Follows(s, t)
    BY <1>1, <1>3, <2>1, <2>3, <2>4, HandshakeGood
  <2> QED BY <2>2, <2>5
<1>5. CASE tls = "ok"
  <2> DEFINE t == Flag(s, c, "tls")
             f == r.flags \cup {"tls"}
  <2>1. Only({"client"}, s, t) /\ At({"flags"}, s, t, c) /\ t.client[c].flags = f
    BY <1>2, FlagForm
  <2>2. Connected(s, c, tls) = t
    BY <1>5 DEF Connected
  <2> HIDE DEF t
  <2>3. At({"is", "flags"}, s, t, c) /\ t.client[c].is = "connecting"
    BY <2>1 DEF At, Tags
  <2>4. PICK is \in {"connecting", "handshake"} : is = "connecting"
    OBVIOUS
  <2>5. f \in SUBSET Flags /\ f \ {"tls"} = r.flags \ {"tls"}
    BY <1>3 DEF Flags
  <2> HIDE DEF f
  <2>6. Follows(s, t)
    BY <1>1, <1>3, <2>1, <2>3, <2>4, <2>5, HandshakeGood
  <2> QED BY <2>2, <2>6
<1>6. CASE tls = "fail"
  <2> DEFINE t == Flag(s, c, "dead")
             u == exit_client(t, c)
  <2>1. Only({"client"}, s, t) /\ At({"flags"}, s, t, c) /\ t.client[c].flags = r.flags \cup {"dead"}
    BY <1>2, FlagForm
  <2>2. Connected(s, c, tls) = u
    BY <1>6 DEF Connected
  <2> HIDE DEF t
  <2>3. /\ t.client[c].is = r.is /\ t.client[c].list = r.list /\ t.client[c].auth = r.auth /\ t.client[c].fd = r.fd
        /\ t.client[c].confs = r.confs /\ t.abort = s.abort /\ t.dead = s.dead /\ t.query = s.query
    BY <2>1 DEF Only, At, Fields, Tags
  <2>4. Asked(t, c) = Asked(s, c) /\ "tls" \notin t.client[c].flags /\ "auth" \notin t.client[c].flags
        /\ "closing" \notin t.client[c].flags
    BY <1>1, <1>3, <2>1, <2>3 DEF Asked
  <2>5. Live(t, c)
    BY <1>2, <2>3, <2>4 DEF Live
  <2>6. GoodClient(t, {c}, c)
    BY <1>1, <2>3, <2>4, <2>5 DEF GoodClient, Has
  <2>7. Turned(s, t, c)
    <3>1. r.flags \cup {"dead"} \in SUBSET Flags
      BY <1>3 DEF Flags
    <3> QED BY <2>1, <2>3, <3>1 DEF Turned, Early, At
  <2>8. GoodBut(t, {c}) /\ Kept(s, t)
    <3>1. {} \subseteq {c} \cup {c}
      OBVIOUS
    <3> QED BY <1>1, <2>6, <2>7, <3>1, TurnedGood
  <2>9. GoodBut(u, {c} \ {c}) /\ Spared(t, u, c)
    BY <1>1, <2>3, <2>8, ExitGood
  <2>10. {c} \ {c} = {}
    OBVIOUS
  <2> HIDE DEF u
  <2>11. Kept(t, u)
    BY <2>9, SparedKept
  <2> QED BY <2>2, <2>8, <2>9, <2>10, <2>11, KeptTrans DEF Follows
<1> QED BY <1>4, <1>5, <1>6

\* The connection to the ident server is there.
LEMMA IdentConnectedGood ==
  ASSUME NEW s, GoodBut(s, {}), NEW c \in Conn, s.client[c].auth.ident = "connect"
  PROVE  Follows(s, [s EXCEPT !.client[c].auth.ident = "read"])
<1> DEFINE r == s.client[c]
           d == [r.auth EXCEPT !.ident = "read"]
           t == PutAuth(s, c, d)
           q == t.client[c]
<1>1. r.auth # NoAuth
  BY DEF NoAuth
<1>2. r.is # "none" /\ "closing" \notin r.flags
  BY <1>1, There DEF Has
<1>3. Live(s, c) /\ Settled(s, c) /\ Formed(s) /\ s \in State /\ r \in Client /\ s.fds \in Int
      /\ s.query \in SUBSET Request
      /\ s.fds <= FdLimit
  BY <1>2, LiveClient, Typed DEF GoodBut, Limits, GoodClient, Has
<1>4. r.auth \in Lookup
  BY <1>1, <1>3, ClientTyped
<1>5. d \in Lookup /\ d.ident = "read" /\ d.dns = r.auth.dns
  BY <1>4 DEF Lookup
<1>6. [s EXCEPT !.client[c].auth.ident = "read"] = t
  BY <1>4 DEF PutAuth
<1> HIDE DEF d
<1>7. Only({"client"}, s, t) /\ At({"auth"}, s, t, c) /\ q.auth = d
  BY <1>3, Putters
<1> HIDE DEF t
<1>8. q.is = r.is /\ q.list = r.list /\ q.need = r.need /\ q.fd = r.fd /\ q.confs = r.confs /\ q.ip = r.ip
      /\ q.port = r.port /\ q.flags = r.flags
  BY <1>7 DEF At, Tags
<1>9. /\ t.abort = s.abort /\ t.dead = s.dead /\ t.query = s.query /\ t.fds = s.fds
      /\ \A e \in Conn \ {c} : t.client[e] = s.client[e]
  BY <1>7 DEF Only, At, Fields
<1>10. Looked(s, t, c)
  <2>1. Asking(q) /\ Asking(r)
    BY <1>5, <1>7 DEF Asking
  <2>2. t.fds = s.fds + Num(Asking(q)) - Num(Asking(r)) /\ t.fds <= FdLimit
    BY <1>3, <1>9, <2>1 DEF Num
  <2>3. Only({"client", "query", "fds"}, s, t) /\ At({"auth", "flags"}, s, t, c)
    BY <1>7 DEF Only, At
  <2>4. q.flags \in SUBSET Flags
    BY <1>3, <1>8, ClientTyped
  <2> QED BY <1>3, <1>5, <1>7, <1>8, <1>9, <2>2, <2>3, <2>4 DEF Looked
<1>11. GoodClient(t, {}, c)
  <2>1. Asked(t, c) = Asked(s, c) /\ (OnAbort(t, c) <=> OnAbort(s, c))
    BY <1>9 DEF Asked, OnAbort
  <2>2. q.auth # NoAuth /\ q.auth.ident # "no" /\ (q.auth.dns <=> r.auth.dns)
    BY <1>5, <1>7 DEF NoAuth
  <2>3. Live(t, c)
    BY <1>1, <1>3, <1>8, <1>9, <2>1, <2>2 DEF Live
  <2>4. Settled(t, c)
    BY <1>1, <1>3, <1>8, <2>1, <2>2 DEF Settled
  <2> QED BY <1>2, <1>8, <2>3, <2>4 DEF GoodClient, Has
<1>12. GoodBut(t, {})
  <2>1. {} \subseteq {} \cup {c}
    OBVIOUS
  <2> QED BY <1>10, <1>11, <2>1, LookedGood
<1> QED BY <1>2, <1>6, <1>9, <1>12 DEF Follows, Kept

-----------------------------------------------------------------------------
(* Connections accepted and made. *)

Newcomer(p) == [client_make("unknown", p) EXCEPT !.port = TRUE]
Accepted(s, c, p) == [s EXCEPT !.client[c] = Newcomer(p), !.listener.ref = @ + 1, !.fds = @ + 1, !.ip[p] = Tried(@)]

\* The record of a connection that was accepted.
LEMMA NewcomerForm ==
  ASSUME NEW p \in Ip
  PROVE  LET r == Newcomer(p) IN
         /\ r \in Client /\ r.is = "unknown" /\ r.list = "unknown" /\ r.flags = {} /\ r.auth = NoAuth
         /\ r.fd = TRUE /\ r.confs = {} /\ r.port = TRUE
         /\ Tagged(r)
<1> DEFINE r == Newcomer(p)
<1>1. Tagged(Gone) /\ Gone.flags = {} /\ Gone.auth = NoAuth /\ Gone.confs = {}
  BY GoneForm
<1>2. /\ r.is = "unknown" /\ r.list = "unknown" /\ r.flags = {} /\ r.need = {"nick", "user"} /\ r.auth = NoAuth
      /\ r.fd = TRUE /\ r.confs = {} /\ r.ip = p /\ r.port = TRUE
  BY <1>1 DEF Newcomer, client_make, Tagged, Tags
<1>3. Tagged(r)
  BY <1>1 DEF Newcomer, client_make, Tagged, Tags
<1> HIDE DEF r
<1>4. r \in Client
  <2>1. r.flags \in SUBSET Flags /\ r.need \in SUBSET {"nick", "user", "cap"} /\ r.confs \in SUBSET Conf
    BY <1>2
  <2> QED BY <1>2, <1>3, <2>1, ClientOf
<1> QED BY <1>2, <1>3, <1>4 DEF r

\* The state once it has its slot, its descriptor, and its place on the listener.
LEMMA AcceptedForm ==
  ASSUME NEW s \in State, NEW c \in Conn, NEW p \in Ip
  PROVE  LET t == Accepted(s, c, p) IN
         /\ Only({"client", "listener", "fds", "ip"}, s, t) /\ t.client = [s.client EXCEPT ![c] = Newcomer(p)]
         /\ t.listener = [s.listener EXCEPT !.ref = @ + 1] /\ t.fds = s.fds + 1
         /\ t.ip = [s.ip EXCEPT ![p] = Tried(@)]
<1> DEFINE r == Newcomer(p)
           t == Accepted(s, c, p)
<1>1. Formed(s) /\ s.client \in [Conn -> Client] /\ s.ip \in [Ip -> IpEntry]
  BY StateFormed, Typed
<1>2. Tagged(r)
  BY NewcomerForm
<1>3. t = [s EXCEPT !.client[c] = r, !.listener.ref = @ + 1, !.fds = @ + 1, !.ip[p] = Tried(@)]
  BY DEF Accepted
<1> HIDE DEF r, t
<1>4. /\ t.client = [s.client EXCEPT ![c] = r] /\ t.listener = [s.listener EXCEPT !.ref = @ + 1] /\ t.fds = s.fds + 1
      /\ t.ip = [s.ip EXCEPT ![p] = Tried(@)] /\ t = [f \in Fields |-> t[f]]
      /\ \A f \in Fields \ {"client", "listener", "fds", "ip"} : t[f] = s[f]
  BY <1>1, <1>3 DEF Formed, Fields
<1>5. Formed(t)
  <2>1. t.client = [d \in Conn |-> t.client[d]] /\ \A d \in Conn : Tagged(t.client[d])
    BY <1>1, <1>2, <1>4 DEF Formed
  <2> QED BY <1>4, <2>1 DEF Formed
<1> QED BY <1>4, <1>5 DEF Only, r, t

\* add_connection() leaves a good state, with TLS, without, and when it fails at once.
LEMMA AcceptGood ==
  ASSUME NEW s, GoodBut(s, {}), NEW c \in Conn, s.client[c].is = "none", s.listener.is = "open", s.fds < FdLimit,
         NEW p \in Ip, NEW tls \in {"no", "ok", "fail"}, NEW ident \in BOOLEAN, NEW fails \in BOOLEAN
  PROVE  Follows(s, add_connection(s, c, p, tls, ident, fails))
<1> DEFINE r == Newcomer(p)
           t == Accepted(s, c, p)
           u == Flag(t, c, "tls")
           v == Flag(t, c, "dead")
           a == auth_start(t, c, ident, fails)
           x == exit_client(v, c)
<1>1. s \in State /\ Formed(s) /\ Absent(s, c)
  BY StateFormed DEF GoodBut, GoodClient
<1>2. s.client \in [Conn -> Client] /\ s.ip \in [Ip -> IpEntry] /\ s.listener \in Listener /\ s.fds \in Int
      /\ FdLimit \in Nat
  BY <1>1, Typed, ConnAssumption
<1>3. /\ r \in Client /\ r.is = "unknown" /\ r.list = "unknown" /\ r.flags = {} /\ r.auth = NoAuth
      /\ r.fd = TRUE /\ r.confs = {}
      /\ r.port = TRUE
  BY NewcomerForm
<1>4. /\ Only({"client", "listener", "fds", "ip"}, s, t) /\ t.client = [s.client EXCEPT ![c] = r]
      /\ t.listener = [s.listener EXCEPT !.ref = @ + 1] /\ t.fds = s.fds + 1 /\ t.ip = [s.ip EXCEPT ![p] = Tried(@)]
  BY <1>1, AcceptedForm
<1>5. add_connection(s, c, p, tls, ident, fails) = CASE tls = "no" -> a [] tls = "ok" -> u [] tls = "fail" -> x
  BY DEF add_connection, Accepted, Newcomer
<1> HIDE DEF r, t
<1>6. Arrives(s, t, c, r)
  <2>1. Tried(s.ip[p]) \in IpEntry /\ Tried(s.ip[p]).local = s.ip[p].local
    <3>1. \A e \in IpEntry : Tried(e) \in IpEntry /\ Tried(e).local = e.local
      <4> TAKE e \in IpEntry
      <4>1. e.local \in Nat /\ e.tries \in Nat
        BY DEF IpEntry
      <4>2. CASE e.fresh
        <5>1. Tried(e) = [e EXCEPT !.tries = e.tries + 1, !.fresh = TRUE]
          BY <4>2 DEF Tried
        <5>2. e.tries + 1 \in Nat
          BY <4>1
        <5> QED BY <5>1, <5>2 DEF IpEntry
      <4>3. CASE ~e.fresh
        BY <4>1, <4>3 DEF Tried, IpEntry
      <4> QED BY <4>2, <4>3
    <3> QED BY <1>2, <3>1
  <2>2. t.ip \in [Ip -> IpEntry] /\ \A y \in Ip : t.ip[y].local = s.ip[y].local
    BY <1>2, <1>4, <2>1
  <2>3. t.listener \in Listener /\ t.listener.is = s.listener.is /\ t.listener.ref = s.listener.ref + Num(r.port)
    BY <1>2, <1>3, <1>4 DEF Listener, Num
  <2>4. t.fds <= FdLimit
    BY <1>2, <1>4
  <2>5. s.listener.is # "none"
    OBVIOUS
  <2>6. "iphash" \notin r.flags /\ r.is \in Early
    BY <1>3 DEF Early
  <2> QED BY <1>3, <1>4, <2>2, <2>3, <2>4, <2>5, <2>6 DEF Arrives
<1>7. t.client[c] = r /\ t.abort = s.abort /\ t.dead = s.dead /\ t.query = s.query /\ Formed(t)
  BY <1>2, <1>4 DEF Only, Fields
<1>8. Asked(t, c) = {} /\ ~OnAbort(t, c) /\ c \notin t.dead
  BY <1>1, <1>7 DEF Absent, Asked, OnAbort
<1>9. NoAuth.dns = FALSE /\ ListOf("unknown") = "unknown"
  BY DEF NoAuth, ListOf
<1>10. Live(t, c)
  BY <1>3, <1>7, <1>8, <1>9 DEF Live
<1>11. GoodBut(t, {c}) /\ Kept(s, t)
  <2>1. GoodClient(t, {c}, c)
    BY <1>3, <1>7, <1>10 DEF GoodClient, Has
  <2> QED BY <1>6, <2>1, ArrivesGood
<1>12. CASE tls = "no"
  <2>1. /\ t.client[c].is = "unknown" /\ t.client[c].auth = NoAuth
        /\ {"closing", "auth", "tls"} \cap t.client[c].flags = {}
        /\ "dead" \in t.client[c].flags <=> OnAbort(t, c)
        /\ "dead" \in t.client[c].flags \/ ("iphash" \notin t.client[c].flags /\ t.client[c].confs = {})
    BY <1>3, <1>7, <1>8
  <2>2. GoodBut(a, {}) /\ Kept(t, a)
    BY <1>11, <2>1, AuthStartGood
  <2>3. add_connection(s, c, p, tls, ident, fails) = a
    BY <1>5, <1>12
  <2> HIDE DEF a
  <2> QED BY <1>11, <2>2, <2>3, KeptTrans DEF Follows
<1>13. CASE tls = "ok"
  <2>1. Only({"client"}, t, u) /\ At({"flags"}, t, u, c) /\ u.client[c].flags = r.flags \cup {"tls"}
    BY <1>7, FlagForm
  <2>2. add_connection(s, c, p, tls, ident, fails) = u
    BY <1>5, <1>13
  <2> HIDE DEF u
  <2>3. /\ u.client[c].is = r.is /\ u.client[c].list = r.list /\ u.client[c].auth = r.auth /\ u.client[c].fd = r.fd
        /\ u.client[c].confs = r.confs /\ u.abort = t.abort /\ u.dead = t.dead /\ u.query = t.query
        /\ u.client[c].flags = {"tls"}
    BY <1>3, <1>7, <2>1 DEF Only, At, Fields, Tags
  <2>4. Asked(u, c) = {} /\ ~OnAbort(u, c)
    BY <1>8, <2>3 DEF Asked, OnAbort
  <2>5. Live(u, c) /\ Settled(u, c)
    BY <1>3, <1>8, <1>9, <2>3, <2>4 DEF Live, Settled
  <2>6. GoodClient(u, {}, c)
    BY <1>3, <2>3, <2>5 DEF GoodClient, Has
  <2>7. Turned(t, u, c)
    <3>1. {"tls"} \in SUBSET Flags /\ "iphash" \notin {"tls"} /\ "iphash" \notin r.flags
      BY <1>3 DEF Flags
    <3> QED BY <1>3, <1>7, <2>1, <2>3, <3>1 DEF Turned, Early, At
  <2>8. GoodBut(u, {}) /\ Kept(t, u)
    <3>1. {c} \subseteq {} \cup {c}
      OBVIOUS
    <3> QED BY <1>3, <1>7, <1>11, <2>6, <2>7, <3>1, TurnedGood
  <2> QED BY <1>11, <2>2, <2>8, KeptTrans DEF Follows
<1>14. CASE tls = "fail"
  <2>1. Only({"client"}, t, v) /\ At({"flags"}, t, v, c) /\ v.client[c].flags = r.flags \cup {"dead"}
    BY <1>7, FlagForm
  <2>2. add_connection(s, c, p, tls, ident, fails) = x
    BY <1>5, <1>14
  <2> HIDE DEF v
  <2>3. /\ v.client[c].is = r.is /\ v.client[c].list = r.list /\ v.client[c].auth = r.auth /\ v.client[c].fd = r.fd
        /\ v.client[c].confs = r.confs /\ v.abort = t.abort /\ v.dead = t.dead /\ v.query = t.query
        /\ v.client[c].flags = {"dead"}
    BY <1>3, <1>7, <2>1 DEF Only, At, Fields, Tags
  <2>4. Asked(v, c) = {}
    BY <1>8, <2>3 DEF Asked
  <2>5. Live(v, c)
    BY <1>3, <1>8, <1>9, <2>3, <2>4 DEF Live
  <2>6. GoodClient(v, {c}, c)
    BY <1>3, <2>3, <2>5 DEF GoodClient, Has
  <2>7. Turned(t, v, c)
    <3>1. {"dead"} \in SUBSET Flags /\ "iphash" \notin {"dead"} /\ "iphash" \notin r.flags
      BY <1>3 DEF Flags
    <3> QED BY <1>3, <1>7, <2>1, <2>3, <3>1 DEF Turned, Early, At
  <2>8. GoodBut(v, {c}) /\ Kept(t, v)
    <3>1. {c} \subseteq {c} \cup {c}
      OBVIOUS
    <3> QED BY <1>3, <1>7, <1>11, <2>6, <2>7, <3>1, TurnedGood
  <2>9. GoodBut(x, {c} \ {c}) /\ Spared(v, x, c)
    BY <1>3, <2>3, <2>8, ExitGood
  <2>10. {c} \ {c} = {}
    OBVIOUS
  <2> HIDE DEF x
  <2>11. Kept(v, x) /\ Kept(s, v)
    BY <1>11, <2>8, <2>9, SparedKept, KeptTrans
  <2> QED BY <2>2, <2>9, <2>10, <2>11, KeptTrans DEF Follows
<1> QED BY <1>12, <1>13, <1>14

Caller == client_make("connecting", Gone.ip)
Calls(s, c) == [s EXCEPT !.client[c] = Caller, !.fds = @ + 1]

\* The record of a connection to another server.
LEMMA CallerForm ==
  /\ Caller \in Client /\ Caller.is = "connecting" /\ Caller.list = "unknown" /\ Caller.flags = {}
  /\ Caller.auth = NoAuth
  /\ Caller.fd = TRUE /\ Caller.confs = {} /\ Caller.port = FALSE /\ Tagged(Caller)
<1> DEFINE r == Caller
<1>1. Tagged(Gone) /\ Gone.flags = {} /\ Gone.auth = NoAuth /\ Gone.confs = {} /\ Gone.port = FALSE
  BY GoneForm
<1>2. Gone.ip \in Ip
  BY GoneForm
<1>3. /\ r.is = "connecting" /\ r.list = "unknown" /\ r.flags = {} /\ r.need = {"nick", "user"} /\ r.auth = NoAuth
      /\ r.fd = TRUE /\ r.confs = {} /\ r.ip \in Ip /\ r.port = FALSE
  BY <1>1, <1>2 DEF Caller, client_make, Tagged, Tags
<1>4. Tagged(r)
  BY <1>1 DEF Caller, client_make, Tagged, Tags
<1> HIDE DEF r
<1>5. r \in Client
  <2>1. r.flags \in SUBSET Flags /\ r.need \in SUBSET {"nick", "user", "cap"} /\ r.confs \in SUBSET Conf
        /\ r.port \in BOOLEAN
    BY <1>3
  <2> QED BY <1>3, <1>4, <2>1, ClientOf
<1> QED BY <1>3, <1>4, <1>5 DEF r

\* The state once it has its slot and its descriptor.
LEMMA CallsForm ==
  ASSUME NEW s \in State, NEW c \in Conn
  PROVE  LET t == Calls(s, c) IN
         Only({"client", "listener", "fds", "ip"}, s, t) /\ t.client = [s.client EXCEPT ![c] = Caller]
         /\ t.fds = s.fds + 1
         /\ t.listener = s.listener /\ t.ip = s.ip
<1> DEFINE r == Caller
           t == Calls(s, c)
<1>1. Formed(s) /\ s.client \in [Conn -> Client]
  BY StateFormed, Typed
<1>2. Tagged(r)
  BY CallerForm
<1>3. t = [s EXCEPT !.client[c] = r, !.fds = @ + 1]
  BY DEF Calls
<1> HIDE DEF r, t
<1>4. /\ t.client = [s.client EXCEPT ![c] = r] /\ t.fds = s.fds + 1
      /\ t = [f \in Fields |-> t[f]] /\ \A f \in Fields \ {"client", "fds"} : t[f] = s[f]
  BY <1>1, <1>3 DEF Formed, Fields
<1>5. Formed(t)
  <2>1. t.client = [d \in Conn |-> t.client[d]] /\ \A d \in Conn : Tagged(t.client[d])
    BY <1>1, <1>2, <1>4 DEF Formed
  <2> QED BY <1>4, <2>1 DEF Formed
<1> QED BY <1>4, <1>5 DEF Only, Fields, r, t

\* What server_connect() makes of the free slot c, with the block x.
Launched(s, c, x) == conf_attach(Calls(s, c), c, x)

\* server_connect() leaves a good state, also when its first write fails.
LEMMA LaunchGood ==
  ASSUME NEW s, GoodBut(s, {}), NEW c \in Conn, s.client[c].is = "none", s.fds < FdLimit,
         NEW x \in Connect, s.conf[x].is = "on", NEW fails \in BOOLEAN
  PROVE  Follows(s, Sent(Launched(s, c, x), c, fails))
<1> DEFINE r == Caller
           t == Calls(s, c)
           u == conf_attach(t, c, x)
           w == dead_link_on_write(u, c)
<1>1. s \in State /\ Formed(s) /\ Absent(s, c) /\ Refs(s)
  BY StateFormed DEF GoodBut, GoodClient
<1>2. s.client \in [Conn -> Client] /\ s.ip \in [Ip -> IpEntry] /\ s.listener \in Listener /\ s.fds \in Int
      /\ FdLimit \in Nat
  BY <1>1, Typed, ConnAssumption
<1>3. /\ r \in Client /\ r.is = "connecting" /\ r.list = "unknown" /\ r.flags = {} /\ r.auth = NoAuth
      /\ r.fd = TRUE /\ r.confs = {}
      /\ r.port = FALSE
  BY CallerForm
<1>4. /\ Only({"client", "listener", "fds", "ip"}, s, t) /\ t.client = [s.client EXCEPT ![c] = r]
      /\ t.listener = s.listener /\ t.fds = s.fds + 1 /\ t.ip = s.ip
  BY <1>1, CallsForm
<1>5. Sent(Launched(s, c, x), c, fails) = IF fails THEN w ELSE u
  BY DEF Sent, Launched
<1> HIDE DEF r, t
<1>6. Arrives(s, t, c, r)
  <2>1. t.listener \in Listener /\ t.listener.is = s.listener.is /\ t.listener.ref = s.listener.ref + Num(r.port)
    <3>1. s.listener.ref \in Nat
      BY <1>1, Counts
    <3> QED BY <1>2, <1>3, <1>4, <3>1 DEF Num
  <2>2. t.fds <= FdLimit /\ ~r.port
    BY <1>2, <1>3, <1>4
  <2>3. "iphash" \notin r.flags /\ r.is \in Early
    BY <1>3 DEF Early
  <2> QED BY <1>2, <1>3, <1>4, <2>1, <2>2, <2>3 DEF Arrives
<1>7. t.client[c] = r /\ t.abort = s.abort /\ t.dead = s.dead /\ t.query = s.query /\ Formed(t) /\ t.conf = s.conf
  BY <1>2, <1>4 DEF Only, Fields
<1>8. Asked(t, c) = {} /\ ~OnAbort(t, c) /\ c \notin t.dead
  BY <1>1, <1>7 DEF Absent, Asked, OnAbort
<1>9. NoAuth.dns = FALSE /\ ListOf("connecting") = "unknown"
  BY DEF NoAuth, ListOf
<1>10. Live(t, c) /\ Settled(t, c)
  BY <1>3, <1>7, <1>8, <1>9 DEF Live, Settled
<1>11. GoodBut(t, {}) /\ Kept(s, t)
  <2>1. GoodClient(t, {}, c)
    BY <1>3, <1>7, <1>10 DEF GoodClient, Has
  <2> QED BY <1>6, <2>1, ArrivesGood
<1>12. /\ GoodBut(u, {} \cup {c}) /\ Spared(t, u, c) /\ Only({"client", "conf", "class"}, t, u)
       /\ At({"confs"}, t, u, c)
  <2>1. t.conf[x].is = "on" /\ x \in Conf
    BY <1>7 DEF Conf
  <2> QED BY <1>3, <1>7, <1>11, <2>1, AttachGood
<1> HIDE DEF u
<1>13. /\ u.client[c].is = "connecting" /\ u.client[c].flags = {} /\ u.abort = t.abort
  BY <1>3, <1>7, <1>12 DEF Only, At, Fields, Tags
<1>14. Follows(s, u)
  <2>1. Settled(u, c)
    BY <1>8, <1>13 DEF Settled, OnAbort
  <2>2. \A d \in Conn : GoodClient(u, {}, d)
    BY <1>12, <2>1 DEF GoodBut, GoodClient
  <2>3. GoodBut(u, {})
    BY <1>12, <2>2 DEF GoodBut
  <2>4. Kept(t, u)
    BY <1>12, SparedKept
  <2> QED BY <1>11, <2>3, <2>4, KeptTrans DEF Follows
<1>15. Follows(s, w)
  <2>1. u.client[c].is # "none" /\ ~Defunct(u, c)
    BY <1>13 DEF Defunct, Has
  <2>2. Follows(u, w)
    BY <1>14, <2>1, WriteFollows DEF Follows
  <2> QED BY <1>14, <2>2, FollowsTrans
<1> QED BY <1>5, <1>14, <1>15

-----------------------------------------------------------------------------
(* The configuration read again. *)

\* Only what is around the connections has changed, and it is fit.
Reformed(s, t) == Follows(s, t) /\ t.client = s.client

\* A change around the connections leaves a good state.
LEMMA AroundReformed ==
  ASSUME NEW s, GoodBut(s, {}), NEW t, Around(s, t), Blocks(t)
  PROVE  Reformed(s, t)
  BY AroundGood DEF Reformed, Follows, Around

\* So does setting ping_cookie.
LEMMA CookieGood ==
  ASSUME NEW s, GoodBut(s, {}), NEW v \in BOOLEAN
  PROVE  Reformed(s, [s EXCEPT !.ping_cookie = v])
<1> DEFINE t == [s EXCEPT !.ping_cookie = v]
<1>1. s \in State /\ s.misuse = FALSE /\ Blocks(s) /\ Limits(s) /\ Formed(s)
  BY StateFormed DEF GoodBut
<1>2. /\ s.client \in [Conn -> Client] /\ s.query \in SUBSET Request /\ s.conf \in [Conf -> MaskItem]
      /\ s.class \in [Class -> ClassItem] /\ s.listener \in Listener /\ s.ip \in [Ip -> IpEntry] /\ s.fds \in Int
  BY <1>1, Typed
<1>3. /\ Formed(t) /\ t.ping_cookie = v
      /\ t.client = s.client /\ t.abort = s.abort /\ t.dead = s.dead /\ t.class = s.class /\ t.listener = s.listener
      /\ t.conf = s.conf /\ t.query = s.query /\ t.fds = s.fds /\ t.ip = s.ip /\ t.misuse = s.misuse
  BY <1>1 DEF Formed, Fields
<1> HIDE DEF t
<1>4. Around(s, t)
  <2>1. t.fds = s.fds + Num(t.listener.is = "open") - Num(s.listener.is = "open") /\ t.fds <= FdLimit
    BY <1>1, <1>2, <1>3 DEF Num, Limits
  <2> QED BY <1>1, <1>2, <1>3, <2>1 DEF Around
<1>5. Blocks(t)
  BY <1>1, <1>3 DEF Blocks
<1> QED BY <1>4, <1>5, AroundReformed DEF t

\* So does listener_add(), of a listener that is closed.
LEMMA ListenerGood ==
  ASSUME NEW s, GoodBut(s, {}), s.listener.is # "open", NEW bound \in BOOLEAN
  PROVE  Reformed(s, listener_add(s, bound))
<1> DEFINE l == IF bound /\ s.fds < FdLimit THEN [s.listener EXCEPT !.is = "open"] ELSE listener_close(s.listener)
           f == IF bound /\ s.fds < FdLimit THEN s.fds + 1 ELSE s.fds
           t == listener_add(s, bound)
<1>1. s \in State /\ s.misuse = FALSE /\ Blocks(s) /\ Limits(s) /\ Formed(s)
  BY StateFormed DEF GoodBut
<1>2. /\ s.client \in [Conn -> Client] /\ s.query \in SUBSET Request /\ s.conf \in [Conf -> MaskItem]
      /\ s.class \in [Class -> ClassItem] /\ s.listener \in Listener /\ s.ip \in [Ip -> IpEntry] /\ s.fds \in Int
      /\ s.ping_cookie \in BOOLEAN /\ s.fds <= FdLimit /\ FdLimit \in Nat
  BY <1>1, Typed, ConnAssumption DEF Limits
<1>3. /\ Formed(t) /\ t.listener = l /\ t.fds = f
      /\ t.client = s.client /\ t.abort = s.abort /\ t.dead = s.dead /\ t.class = s.class
      /\ t.ping_cookie = s.ping_cookie
      /\ t.conf = s.conf /\ t.query = s.query /\ t.ip = s.ip /\ t.misuse = s.misuse
  <2>1. CASE bound /\ s.fds < FdLimit
    BY <1>1, <2>1 DEF Formed, Fields, listener_add
  <2>2. CASE ~(bound /\ s.fds < FdLimit)
    BY <1>1, <2>2 DEF Formed, Fields, listener_add
  <2> QED BY <2>1, <2>2
<1> HIDE DEF t
<1>4. l \in Listener /\ l.ref = s.listener.ref /\ f = s.fds + Num(l.is = "open") - Num(s.listener.is = "open")
      /\ f <= FdLimit
      /\ (l.is = "none" => l.ref = 0)
  <2>1. s.listener.ref \in Nat
    BY <1>2 DEF Listener
  <2>2. CASE bound /\ s.fds < FdLimit
    BY <1>2, <2>1, <2>2 DEF Listener, Num
  <2>3. CASE ~(bound /\ s.fds < FdLimit)
    <3>1. l = listener_close(s.listener) /\ f = s.fds
      BY <2>3
    <3>2. l \in Listener /\ l.ref = s.listener.ref /\ l.is # "open" /\ (l.is = "none" => l.ref = 0)
      BY <1>2, <2>1, <3>1 DEF Listener, listener_close
    <3> QED BY <1>2, <3>1, <3>2 DEF Num
  <2> QED BY <2>2, <2>3
<1> HIDE DEF l, f
<1>5. Around(s, t)
  BY <1>1, <1>2, <1>3, <1>4 DEF Around
<1>6. Blocks(t)
  BY <1>1, <1>3, <1>4 DEF Blocks
<1> QED BY <1>5, <1>6, AroundReformed DEF t

\* What conf_clear() leaves.
Out(s) == {x \in Conf : s.conf[x].ref = 0 /\ s.conf[x].is \in {"on", "off"}}
ClearedConf(s)  == [x \in Conf |-> IF x \in Out(s) THEN NoConf ELSE Off(s.conf[x])]
ClearedClass(s) == [k \in Class |-> IF k = Default THEN s.class[k] ELSE Off(s.class[k])]
Cleared(s, t) ==
  /\ Only({"conf", "class", "listener", "fds", "query"}, s, t)
  /\ t.conf = ClearedConf(s) /\ t.class = ClearedClass(s) /\ t.listener = listener_close(s.listener)
  /\ t.fds = (IF s.listener.is = "open" THEN s.fds - 1 ELSE s.fds)
  /\ t.query = {q \in s.query : q.who \notin Out(s)}

\* conf_clear() in closed form.
LEMMA ClearForm ==
  ASSUME NEW s \in State
  PROVE  Cleared(s, conf_clear(s))
<1> DEFINE a == [x \in Conf |-> Off(s.conf[x])]
           k == ClearedClass(s)
           l == listener_close(s.listener)
           f == IF s.listener.is = "open" THEN s.fds - 1 ELSE s.fds
           u == [s EXCEPT !.conf = a, !.class = k, !.listener = l, !.fds = f]
           t == [u EXCEPT !.conf = [x \in Conf |-> IF x \in Unused(u) THEN NoConf ELSE u.conf[x]],
                          !.query = {q \in @ : q.who \notin Unused(u)}]
<1>1. Formed(s) /\ s.conf \in [Conf -> MaskItem]
  BY StateFormed, Typed
<1>2. conf_clear(s) = t
  BY DEF conf_clear, conf_free, ClearedClass
<1> HIDE DEF k, l, f
<1>3. /\ u = [g \in Fields |-> u[g]] /\ u.conf = a /\ u.class = k /\ u.listener = l /\ u.fds = f
      /\ \A g \in Fields \ {"conf", "class", "listener", "fds"} : u[g] = s[g]
  BY <1>1 DEF Formed, Fields
<1> HIDE DEF u
<1>4. Unused(u) = Out(s)
  <2>1. ASSUME NEW x \in Conf
        PROVE  Off(s.conf[x]).ref = s.conf[x].ref /\ (Off(s.conf[x]).is = "off" <=> s.conf[x].is \in {"on", "off"})
    BY <1>1 DEF Off, MaskItem
  <2> QED BY <1>3, <2>1 DEF Unused, Out
<1>5. /\ t = [g \in Fields |-> t[g]] /\ t.conf = [x \in Conf |-> IF x \in Unused(u) THEN NoConf ELSE u.conf[x]]
      /\ t.query = {q \in u.query : q.who \notin Unused(u)}
      /\ \A g \in Fields \ {"conf", "query"} : t[g] = u[g]
  BY <1>3 DEF Fields
<1> HIDE DEF t
<1>6. t.conf = ClearedConf(s)
  BY <1>3, <1>4, <1>5 DEF ClearedConf
<1>7. \A g \in Fields \ {"conf", "class", "listener", "fds", "query"} : t[g] = s[g]
  BY <1>3, <1>5
<1>8. t.class = k /\ t.listener = l /\ t.fds = f /\ t.query = {q \in s.query : q.who \notin Out(s)}
      /\ t.client = s.client
  BY <1>3, <1>4, <1>5 DEF Fields
<1>9. Formed(t)
  BY <1>1, <1>5, <1>8 DEF Formed
<1> QED BY <1>2, <1>6, <1>7, <1>8, <1>9 DEF Cleared, Only, k, l, f

\* After conf_clear() only blocks and classes that are referred to are left, none of them valid.
LEMMA ClearGood ==
  ASSUME NEW s, GoodBut(s, {})
  PROVE  LET t == conf_clear(s) IN
         Reformed(s, t) /\ t.listener.is # "open" /\ \A x \in Conf : s.conf[x].is = "none" => t.conf[x].is = "none"
<1> DEFINE t == conf_clear(s)
<1>1. s \in State /\ s.misuse = FALSE /\ Blocks(s) /\ Limits(s) /\ Refs(s)
  BY DEF GoodBut
<1>2. /\ s.client \in [Conn -> Client] /\ s.query \in SUBSET Request /\ s.conf \in [Conf -> MaskItem]
      /\ s.class \in [Class -> ClassItem] /\ s.listener \in Listener /\ s.ip \in [Ip -> IpEntry] /\ s.fds \in Int
      /\ s.ping_cookie \in BOOLEAN /\ s.fds <= FdLimit /\ FdLimit \in Nat
  BY <1>1, Typed, ConnAssumption DEF Limits
<1>3. Cleared(s, t)
  BY <1>1, ClearForm
<1> HIDE DEF t
<1>4. /\ t.conf = ClearedConf(s) /\ t.class = ClearedClass(s) /\ t.listener = listener_close(s.listener)
      /\ t.fds = (IF s.listener.is = "open" THEN s.fds - 1 ELSE s.fds)
      /\ t.query = {q \in s.query : q.who \notin Out(s)} /\ Formed(t)
  BY <1>3 DEF Cleared, Only
<1>5. /\ t.client = s.client /\ t.abort = s.abort /\ t.dead = s.dead /\ t.ping_cookie = s.ping_cookie
      /\ t.ip = s.ip /\ t.misuse = s.misuse
  BY <1>3 DEF Cleared, Only, Fields
<1>6. ASSUME NEW x \in Conf
      PROVE  /\ t.conf[x] \in MaskItem /\ t.conf[x].ref = s.conf[x].ref
             /\ (s.conf[x].ref > 0 => t.conf[x].class = s.conf[x].class)
             /\ t.conf[x].is # "on" /\ (s.conf[x].is = "none" => t.conf[x].is = "none")
             /\ t.conf[x].is # "none" => t.conf[x].class = s.conf[x].class /\ s.conf[x].is # "none" /\ t.conf[x].ref > 0
             /\ x \notin Out(s) /\ s.conf[x].is # "none" => t.conf[x].is # "none"
  <2>1. s.conf[x] \in MaskItem /\ s.conf[x].ref \in Nat /\ s.conf[x].is \in {"none", "on", "off"}
    BY <1>2 DEF MaskItem
  <2>2. CASE x \in Out(s)
    <3>1. t.conf[x] = NoConf /\ s.conf[x].ref = 0
      BY <1>4, <2>2 DEF ClearedConf, Out
    <3>2. NoConf \in MaskItem /\ NoConf.is = "none" /\ NoConf.ref = 0
      BY ConnAssumption DEF NoConf, MaskItem
    <3> QED BY <2>2, <3>1, <3>2
  <2>3. CASE x \notin Out(s)
    <3>1. t.conf[x] = Off(s.conf[x])
      BY <1>4, <2>3 DEF ClearedConf
    <3>2. /\ Off(s.conf[x]) \in MaskItem /\ Off(s.conf[x]).ref = s.conf[x].ref
          /\ Off(s.conf[x]).class = s.conf[x].class
          /\ Off(s.conf[x]).is = IF s.conf[x].is = "none" THEN "none" ELSE "off"
      BY <2>1 DEF Off, MaskItem
    <3>3. s.conf[x].is = "none" \/ s.conf[x].ref > 0
      BY <2>1, <2>3 DEF Out
    <3> QED BY <3>1, <3>2, <3>3
  <2> QED BY <2>2, <2>3
<1>7. ASSUME NEW k \in Class
      PROVE  t.class[k] \in ClassItem /\ t.class[k].ref = s.class[k].ref
             /\ (s.class[k].is # "none" => t.class[k].is # "none")
  <2>1. s.class[k] \in ClassItem /\ t.class[k] = IF k = Default THEN s.class[k] ELSE Off(s.class[k])
    BY <1>2, <1>4 DEF ClearedClass
  <2>2. Off(s.class[k]) \in ClassItem /\ Off(s.class[k]).ref = s.class[k].ref
        /\ (s.class[k].is # "none" => Off(s.class[k]).is # "none")
    BY <2>1 DEF Off, ClassItem
  <2> QED BY <2>1, <2>2
<1>8. t.class[Default].is = "on"
  BY <1>1, <1>4, ConnAssumption DEF ClearedClass, Blocks
<1>9. t.conf \in [Conf -> MaskItem] /\ t.class \in [Class -> ClassItem]
  BY <1>4, <1>6, <1>7 DEF ClearedConf, ClearedClass
<1>10. t.listener \in Listener /\ t.listener.ref = s.listener.ref /\ t.listener.is # "open"
       /\ (t.listener.is = "none" => t.listener.ref = 0)
  <2>1. s.listener.ref \in Nat
    BY <1>2 DEF Listener
  <2> QED BY <1>2, <1>4, <2>1 DEF Listener, listener_close
<1>11. t.query \in SUBSET Request /\ \A q \in Request : q.who \in Conn => (q \in t.query <=> q \in s.query)
  <2>1. \A d \in Conn : d \notin Out(s)
    BY ConnAssumption DEF Out
  <2> QED BY <1>2, <1>4, <2>1
<1>12. Around(s, t)
  <2>1. t.fds = s.fds + Num(t.listener.is = "open") - Num(s.listener.is = "open") /\ t.fds <= FdLimit
    BY <1>2, <1>4, <1>10 DEF Num
  <2> QED BY <1>1, <1>2, <1>4, <1>5, <1>6, <1>7, <1>9, <1>10, <1>11, <2>1 DEF Around
<1>13. Blocks(t)
  <2>1. \A x \in Conf : s.conf[x].is # "none" => s.class[s.conf[x].class].is # "none" /\ s.conf[x].class \in Class
    BY <1>1, <1>2 DEF Blocks, MaskItem
  <2>2. ASSUME NEW x \in Conf
        PROVE  /\ t.conf[x].is = "none" => t.conf[x].ref = 0
               /\ t.conf[x].is = "off" => t.conf[x].ref > 0
               /\ t.conf[x].is = "on" => t.class[t.conf[x].class].is = "on"
               /\ t.conf[x].is # "none" => t.class[t.conf[x].class].is # "none"
    <3>1. t.conf[x].is = "none" => t.conf[x].ref = 0
      <4>1. s.conf[x].is = "none" => s.conf[x].ref = 0
        BY <1>1 DEF Blocks
      <4>2. CASE x \in Out(s)
        BY <1>6, <4>2 DEF Out
      <4>3. CASE x \notin Out(s)
        BY <1>6, <4>1, <4>3
      <4> QED BY <4>2, <4>3
    <3>2. t.conf[x].is # "none" => t.class[t.conf[x].class].is # "none" /\ t.conf[x].ref > 0 /\ t.conf[x].is # "on"
      BY <1>6, <1>7, <2>1
    <3>3. t.conf[x].is # "on"
      BY <1>6
    <3> QED BY <3>1, <3>2, <3>3
  <2>3. \A q \in t.query : q.who \in Connect => t.conf[q.who].is # "none"
    <3>1. ASSUME NEW q \in t.query, q.who \in Connect PROVE t.conf[q.who].is # "none"
      <4>1. q \in s.query /\ q.who \notin Out(s) /\ q.who \in Conf
        BY <1>4, <3>1 DEF Conf
      <4>2. s.conf[q.who].is # "none"
        BY <1>1, <3>1, <4>1 DEF Blocks
      <4> QED BY <1>6, <4>1, <4>2
    <3> QED BY <3>1
  <2> QED BY <1>8, <1>10, <2>2, <2>3 DEF Blocks
<1> QED BY <1>6, <1>10, <1>12, <1>13, AroundReformed DEF t

\* What conf_read() reads: a file whose blocks are new, each with the class it names.
File(s, new, K, slow) ==
  /\ new \in Files /\ K \in SUBSET Class /\ slow \in SUBSET (DOMAIN new \cap Connect)
  /\ \A x \in DOMAIN new : s.conf[x].is = "none"
ReadClass(s, K) == [k \in Class |-> IF k \in K THEN [s.class[k] EXCEPT !.is = "on"] ELSE s.class[k]]
NewItem(s, new, K, slow, x) ==
  [is |-> "on", ref |-> 0, class |-> IF ReadClass(s, K)[new[x]].is = "on" THEN new[x] ELSE Default,
   dns |-> IF x \in slow THEN "pending" ELSE "no"]
Wanted(slow) == {[who |-> x, ptr |-> FALSE] : x \in slow}
Read(s, t, new, K, slow) ==
  /\ Only({"conf", "class", "query"}, s, t)
  /\ t.conf = [x \in Conf |-> IF x \notin DOMAIN new THEN s.conf[x] ELSE NewItem(s, new, K, slow, x)]
  /\ t.class = [k \in Class |-> Freed(ReadClass(s, K)[k])]
  /\ t.query = s.query \cup Wanted(slow)

\* conf_read() in closed form.
LEMMA ReadForm ==
  ASSUME NEW s, Formed(s), NEW new, NEW K, NEW slow
  PROVE  Read(s, conf_read(s, new, K, slow), new, K, slow)
<1> DEFINE a == [x \in Conf |-> IF x \notin DOMAIN new THEN s.conf[x] ELSE NewItem(s, new, K, slow, x)]
           k == [j \in Class |-> Freed(ReadClass(s, K)[j])]
           q == Wanted(slow)
           t == [s EXCEPT !.conf = a, !.query = @ \cup q, !.class = k]
<1>1. conf_read(s, new, K, slow) = t
  BY DEF conf_read, ReadClass, NewItem, Wanted
<1> HIDE DEF a, k, q
<1>2. /\ t = [g \in Fields |-> t[g]] /\ t.conf = a /\ t.class = k /\ t.query = s.query \cup q /\ t.client = s.client
      /\ \A g \in Fields \ {"conf", "query", "class"} : t[g] = s[g]
  BY DEF Formed, Fields
<1> HIDE DEF t
<1>3. Only({"conf", "class", "query"}, s, t)
  BY <1>2 DEF Only, Formed
<1> QED BY <1>1, <1>2, <1>3 DEF Read, a, k, q

\* After conf_read() valid blocks have valid classes, and blocks still in use keep the class they had.
LEMMA ReadGood ==
  ASSUME NEW s, GoodBut(s, {}), NEW new, NEW K, NEW slow, File(s, new, K, slow)
  PROVE  Reformed(s, conf_read(s, new, K, slow)) /\ conf_read(s, new, K, slow).listener = s.listener
<1> DEFINE t == conf_read(s, new, K, slow)
           n(x) == NewItem(s, new, K, slow, x)
           m == ReadClass(s, K)
<1>1. s \in State /\ s.misuse = FALSE /\ Blocks(s) /\ Limits(s) /\ Refs(s) /\ Formed(s)
  BY StateFormed DEF GoodBut
<1>2. /\ s.client \in [Conn -> Client] /\ s.query \in SUBSET Request /\ s.conf \in [Conf -> MaskItem]
      /\ s.class \in [Class -> ClassItem] /\ s.listener \in Listener /\ s.ip \in [Ip -> IpEntry] /\ s.fds \in Int
      /\ s.ping_cookie \in BOOLEAN /\ s.fds <= FdLimit
  BY <1>1, Typed DEF Limits
<1>3. Read(s, t, new, K, slow)
  BY <1>1, ReadForm
<1> HIDE DEF t
<1>4. /\ Formed(t) /\ t.conf = [x \in Conf |-> IF x \notin DOMAIN new THEN s.conf[x] ELSE n(x)]
      /\ t.class = [k \in Class |-> Freed(m[k])] /\ t.query = s.query \cup Wanted(slow)
  BY <1>3 DEF Read, Only
<1>5. /\ t.client = s.client /\ t.abort = s.abort /\ t.dead = s.dead /\ t.ping_cookie = s.ping_cookie /\ t.ip = s.ip
      /\ t.misuse = s.misuse /\ t.listener = s.listener /\ t.fds = s.fds
  BY <1>3 DEF Read, Only, Fields
<1>6. DOMAIN new \in SUBSET Conf /\ (\A x \in DOMAIN new : new[x] \in Class /\ s.conf[x].is = "none")
      /\ K \in SUBSET Class
      /\ slow \in SUBSET DOMAIN new /\ slow \in SUBSET Connect
  BY DEF File, Files
<1>7. ASSUME NEW k \in Class
      PROVE  /\ m[k] \in ClassItem /\ m[k].ref = s.class[k].ref /\ (m[k].is = s.class[k].is \/ m[k].is = "on")
             /\ t.class[k] \in ClassItem /\ t.class[k].ref = s.class[k].ref
             /\ m[k].is = "on" => t.class[k].is = "on"
             /\ s.class[k].is # "none" /\ s.class[k].ref > 0 => t.class[k].is # "none"
  <2>1. s.class[k] \in ClassItem /\ s.class[k].ref \in Nat
    BY <1>2 DEF ClassItem
  <2>2. m[k] \in ClassItem /\ m[k].ref = s.class[k].ref /\ (m[k].is = s.class[k].is \/ m[k].is = "on")
    BY <2>1 DEF ReadClass, ClassItem
  <2>3. /\ Freed(m[k]) \in ClassItem /\ Freed(m[k]).ref = m[k].ref /\ (m[k].is = "on" => Freed(m[k]).is = "on")
        /\ m[k].ref > 0 => Freed(m[k]) = m[k]
    BY <2>1, <2>2 DEF Freed, ClassItem
  <2>4. t.class[k] = Freed(m[k])
    BY <1>4
  <2> HIDE DEF m
  <2>5. s.class[k].is # "none" /\ s.class[k].ref > 0 => t.class[k].is # "none"
    BY <2>2, <2>3, <2>4
  <2> QED BY <2>2, <2>3, <2>4, <2>5
<1>8. ASSUME NEW x \in DOMAIN new
      PROVE  t.conf[x] \in MaskItem /\ t.conf[x].ref = 0 /\ t.conf[x].is = "on" /\ t.class[t.conf[x].class].is = "on"
  <2>1. t.conf[x] = n(x) /\ new[x] \in Class
    BY <1>4, <1>6
  <2>2. m[Default].is = "on"
    BY <1>1, <1>7, ConnAssumption DEF Blocks
  <2>3. n(x).class \in Class /\ m[n(x).class].is = "on" /\ n(x).ref = 0 /\ n(x).is = "on"
    BY <2>1, <2>2, ConnAssumption DEF NewItem
  <2>4. n(x) \in MaskItem
    BY <2>1, ConnAssumption DEF NewItem, MaskItem
  <2> HIDE DEF n, m
  <2> QED BY <1>7, <2>1, <2>3, <2>4
<1>9. \A x \in Conf \ DOMAIN new : t.conf[x] = s.conf[x]
  BY <1>4
<1>10. ASSUME NEW x \in Conf
       PROVE  t.conf[x] \in MaskItem /\ t.conf[x].ref = s.conf[x].ref
              /\ (s.conf[x].ref > 0 => t.conf[x].class = s.conf[x].class)
  <2>1. CASE x \in DOMAIN new
    <3>1. s.conf[x].ref = 0
      BY <1>1, <1>6, <2>1 DEF Blocks
    <3> QED BY <1>8, <2>1, <3>1
  <2>2. CASE x \notin DOMAIN new
    BY <1>2, <1>9, <2>2
  <2> QED BY <2>1, <2>2
<1> HIDE DEF n, m
<1>11. t.conf \in [Conf -> MaskItem] /\ t.class \in [Class -> ClassItem]
  BY <1>4, <1>7, <1>10
<1>12. t.query \in SUBSET Request /\ (\A q \in Request : q.who \in Conn => (q \in t.query <=> q \in s.query))
       /\ \A q \in t.query : q \in s.query \/ q.who \in slow
  <2>1. \A q \in Wanted(slow) : q \in Request /\ q.who \in slow
    <3>1. \A x \in slow : [who |-> x, ptr |-> FALSE] \in Request /\ [who |-> x, ptr |-> FALSE].who = x
      <4>1. slow \in SUBSET Connect
        BY <1>6
      <4> QED BY <4>1 DEF Request
    <3> QED BY <3>1 DEF Wanted
  <2>2. \A x \in slow : x \notin Conn
    BY <1>6, ConnAssumption
  <2> QED BY <1>2, <1>4, <2>1, <2>2
<1>13. Around(s, t)
  <2>1. t.fds = s.fds + Num(t.listener.is = "open") - Num(s.listener.is = "open") /\ t.fds <= FdLimit
    BY <1>2, <1>5 DEF Num
  <2>2. \A k \in Class : t.class[k].ref = s.class[k].ref
    BY <1>7
  <2> QED BY <1>1, <1>2, <1>4, <1>5, <1>10, <1>11, <1>12, <2>1, <2>2 DEF Around
<1>14. Blocks(t)
  <2>1. t.class[Default].is = "on"
    <3>1. m[Default].is = "on"
      BY <1>1, <1>7, ConnAssumption DEF Blocks
    <3> QED BY <1>7, <3>1, ConnAssumption
  <2>2. ASSUME NEW x \in Conf
        PROVE  /\ t.conf[x].is = "none" => t.conf[x].ref = 0
               /\ t.conf[x].is = "off" => t.conf[x].ref > 0
               /\ t.conf[x].is = "on" => t.class[t.conf[x].class].is = "on"
               /\ t.conf[x].is # "none" => t.class[t.conf[x].class].is # "none"
    <3>1. CASE x \in DOMAIN new
      BY <1>8, <3>1
    <3>2. CASE x \notin DOMAIN new
      <4> DEFINE k == s.conf[x].class
      <4>1. t.conf[x] = s.conf[x] /\ k \in Class /\ s.conf[x].is \in {"none", "on", "off"}
        BY <1>2, <1>9, <3>2 DEF MaskItem
      <4>2. /\ s.conf[x].is = "none" => s.conf[x].ref = 0
            /\ s.conf[x].is = "off" => s.conf[x].ref > 0
            /\ s.conf[x].is = "on" => s.class[k].is = "on"
            /\ s.conf[x].is # "none" => s.class[k].is # "none"
        BY <1>1 DEF Blocks
      <4>3. s.conf[x].ref > 0 => s.class[k].ref > 0
        <5>1. ASSUME s.conf[x].ref > 0 PROVE \E c \in Conn : x \in s.client[c].confs
          <6>1. s.conf[x].ref = Cardinality({c \in Conn : x \in s.client[c].confs})
            BY <1>1 DEF Refs, ConfRefs
          <6> QED BY <5>1, <6>1, FS_EmptySet
        <5> QED BY <1>1, <4>1, <5>1, Counts
      <4>4. s.class[k].is = "on" => t.class[k].is = "on"
        BY <1>7, <4>1
      <4>5. s.class[k].is # "none" /\ s.class[k].ref > 0 => t.class[k].is # "none"
        BY <1>7, <4>1
      <4> HIDE DEF k
      <4> QED BY <4>1, <4>2, <4>3, <4>4, <4>5 DEF k
    <3> QED BY <3>1, <3>2
  <2>3. \A q \in t.query : q.who \in Connect => t.conf[q.who].is # "none"
    <3>1. ASSUME NEW q \in t.query, q.who \in Connect PROVE t.conf[q.who].is # "none"
      <4>1. CASE q.who \in DOMAIN new
        BY <1>8, <4>1
      <4>2. CASE q.who \notin DOMAIN new
        <5>1. q \in s.query /\ q.who \in Conf
          BY <1>6, <1>12, <3>1, <4>2 DEF Conf
        <5> QED BY <1>1, <1>9, <3>1, <4>2, <5>1 DEF Blocks
      <4> QED BY <4>1, <4>2
    <3> QED BY <3>1
  <2>4. t.listener.is = "none" => t.listener.ref = 0
    BY <1>1, <1>5 DEF Blocks
  <2> QED BY <2>1, <2>2, <2>3, <2>4 DEF Blocks
<1> QED BY <1>5, <1>13, <1>14, AroundReformed DEF t

\* conf_rehash() leaves a good state, whoever is banned by it.
LEMMA RehashGood ==
  ASSUME NEW s, GoodBut(s, {}), NEW new, NEW K, NEW slow, File(s, new, K, slow), NEW cookie \in BOOLEAN,
         NEW bound \in BOOLEAN,
         NEW banned \in SUBSET Conn, \A c \in banned : s.client[c].is # "none"
  PROVE  Follows(s, conf_rehash(s, new, K, slow, cookie, bound, banned))
<1> DEFINE a == conf_clear(s)
           b == conf_read(a, new, K, slow)
           d == listener_add(b, bound)
           e == [d EXCEPT !.ping_cookie = cookie]
<1>1. Reformed(s, a) /\ a.listener.is # "open" /\ \A x \in Conf : s.conf[x].is = "none" => a.conf[x].is = "none"
  BY ClearGood
<1>2. conf_rehash(s, new, K, slow, cookie, bound, banned) = exit_all(e, banned)
  BY DEF conf_rehash
<1> HIDE DEF a
<1>3. Reformed(a, b) /\ b.listener = a.listener
  <2>1. File(a, new, K, slow)
    <3>1. DOMAIN new \in SUBSET Conf
      BY DEF File, Files
    <3> QED BY <1>1, <3>1 DEF File
  <2>2. GoodBut(a, {})
    BY <1>1 DEF Reformed, Follows
  <2> QED BY <2>1, <2>2, ReadGood
<1> HIDE DEF b
<1>4. Reformed(b, d)
  <2>1. GoodBut(b, {}) /\ b.listener.is # "open"
    BY <1>1, <1>3 DEF Reformed, Follows
  <2> QED BY <2>1, ListenerGood
<1> HIDE DEF d
<1>5. Reformed(d, e)
  <2>1. GoodBut(d, {})
    BY <1>4 DEF Reformed, Follows
  <2> QED BY <2>1, CookieGood
<1> HIDE DEF e
<1>6. Follows(s, e) /\ e.client = s.client
  BY <1>1, <1>3, <1>4, <1>5, FollowsTrans DEF Reformed
<1>7. Follows(e, exit_all(e, banned))
  BY <1>6, ExitAllFollows DEF Follows
<1> QED BY <1>2, <1>6, <1>7, FollowsTrans

-----------------------------------------------------------------------------
(* The first configuration. *)

\* The state before main() has read anything is good.
LEMMA NoStateGood == GoodBut(NoState, {})
<1> DEFINE s == NoState
<1>1. /\ s.client = [c \in Conn |-> Gone] /\ s.abort = <<>> /\ s.dead = {} /\ s.query = {}
      /\ s.conf = [x \in Conf |-> NoConf]
      /\ s.class = [k \in Class |-> [is |-> IF k = Default THEN "on" ELSE "none", ref |-> 0]]
      /\ s.listener = [is |-> "none", ref |-> 0] /\ s.ip = [p \in Ip |-> NoEntry] /\ s.fds = 0
      /\ s.ping_cookie = FALSE
      /\ s.misuse = FALSE
  BY DEF NoState
<1>2. Formed(s)
  <2>1. s \in [client : {s.client}, abort : {s.abort}, dead : {s.dead}, query : {s.query}, conf : {s.conf}, class : {s.class},
               listener : {s.listener}, ip : {s.ip}, fds : {s.fds}, ping_cookie : {s.ping_cookie}, misuse : {s.misuse}]
    BY DEF NoState
  <2>2. s = [f \in Fields |-> s[f]]
    BY <2>1 DEF Fields
  <2> QED BY <1>1, <2>2, GoneForm DEF Formed
<1> HIDE DEF s
<1>3. Gone \in Client /\ Gone.is = "none" /\ Gone.fd = FALSE /\ Gone.confs = {} /\ Gone.flags = {}
      /\ Gone.port = FALSE
      /\ Gone.auth.ident = "off"
  <2>1. Gone.is = "none" /\ Gone.list = "none" /\ Gone.fd = FALSE /\ Gone.need = {} /\ Gone.flags = {}
        /\ Gone.confs = {}
    BY DEF Gone
  <2>2. Gone.auth.ident = "off"
    BY GoneForm DEF NoAuth
  <2>3. Gone.flags \in SUBSET Flags /\ Gone.need \in SUBSET {"nick", "user", "cap"} /\ Gone.confs \in SUBSET Conf
    BY <2>1
  <2> QED BY <2>1, <2>2, <2>3, GoneForm, ClientOf
<1>4. s \in State
  <2>1. NoConf \in MaskItem /\ NoEntry \in IpEntry
    BY ConnAssumption DEF NoConf, MaskItem, NoEntry, IpEntry
  <2>2. \A k \in Class : [is |-> IF k = Default THEN "on" ELSE "none", ref |-> 0] \in ClassItem
    BY DEF ClassItem
  <2>3. s.client \in [Conn -> Client] /\ s.abort \in Seq(Conn) /\ s.dead \in SUBSET Conn /\ s.query \in SUBSET Request
    BY <1>1, <1>3
  <2>4. s.conf \in [Conf -> MaskItem] /\ s.ip \in [Ip -> IpEntry]
    BY <1>1, <2>1
  <2>5. s.class \in [Class -> ClassItem]
    BY <1>1, <2>2
  <2>6. s.listener \in Listener /\ s.fds \in Int
    BY <1>1 DEF Listener
  <2>7. s.ping_cookie \in BOOLEAN /\ s.misuse \in BOOLEAN
    BY <1>1
  <2> QED BY <1>2, <2>3, <2>4, <2>5, <2>6, <2>7, StateOf
<1>5. Refs(s)
  <2>1. \A c \in Conn : s.client[c] = Gone
    BY <1>1
  <2>2. ConfRefs(s)
    <3>1. \A x \in Conf : {c \in Conn : x \in s.client[c].confs} = {} /\ s.conf[x].ref = 0
      BY <1>1, <1>3, <2>1 DEF NoConf
    <3> QED BY <3>1, FS_EmptySet DEF ConfRefs
  <2>3. ClassRefs(s)
    <3>1. \A k \in Class :
            s.class[k].ref = 0 /\ {r \in Conn \X Conf : r[2] \in s.client[r[1]].confs /\ s.conf[r[2]].class = k} = {}
      BY <1>1, <1>3, <2>1
    <3> QED BY <3>1, FS_EmptySet DEF ClassRefs
  <2>4. PortRefs(s)
    <3>1. {c \in Conn : s.client[c].port} = {} /\ s.listener.ref = 0
      BY <1>1, <1>3, <2>1
    <3> QED BY <3>1, FS_EmptySet DEF PortRefs
  <2>5. IpRefs(s)
    <3>1. \A p \in Ip : s.ip[p].local = 0 /\ {c \in Conn : Has(s, c, "iphash") /\ s.client[c].ip = p} = {}
      BY <1>1, <1>3, <2>1 DEF NoEntry, Has
    <3> QED BY <3>1, FS_EmptySet DEF IpRefs
  <2>6. FdRefs(s)
    <3>1. {c \in Conn : s.client[c].fd} = {} /\ Idents(s) = {} /\ s.listener.is # "open" /\ s.fds = 0
      BY <1>1, <1>3, <2>1 DEF Idents
    <3> QED BY <3>1, FS_EmptySet DEF FdRefs
  <2> QED BY <2>2, <2>3, <2>4, <2>5, <2>6 DEF Refs
<1>6. Blocks(s)
  <2>1. \A x \in Conf : s.conf[x].is = "none" /\ s.conf[x].ref = 0
    BY <1>1 DEF NoConf
  <2> QED BY <1>1, <2>1, ConnAssumption DEF Blocks
<1>7. Limits(s)
  <2>1. Admitted(s) = {}
    BY <1>1, <1>3 DEF Admitted
  <2>2. \A k \in Class : {c \in Admitted(s) : \E x \in s.client[c].confs \cap Auth : s.conf[x].class = k} = {}
    BY <2>1
  <2>3. \A p \in Ip : {c \in Admitted(s) : s.client[c].ip = p} = {}
    BY <2>1
  <2>4. Cardinality({}) = 0 /\ MaxTotal \in Nat /\ PerIp \in Nat /\ FdLimit \in Nat /\ s.fds = 0
    BY <1>1, FS_EmptySet, ConnAssumption
  <2>5. \A k \in Class :
          Cardinality({c \in Admitted(s) : \E x \in s.client[c].confs \cap Auth : s.conf[x].class = k}) <= MaxTotal
    BY <2>2, <2>4
  <2>6. \A p \in Ip : Cardinality({c \in Admitted(s) : s.client[c].ip = p}) <= PerIp
    BY <2>3, <2>4
  <2>7. s.fds <= FdLimit
    BY <2>4
  <2> QED BY <2>5, <2>6, <2>7 DEF Limits
<1>8. IsInjective(s.abort)
  BY <1>1 DEF IsInjective
<1>9. \A c \in Conn : GoodClient(s, {}, c)
  <2>1. Range(s.abort) = {}
    BY <1>1 DEF Range
  <2> QED BY <1>1, <1>3, <2>1 DEF GoodClient, Absent, OnAbort, Asked
<1> QED BY <1>1, <1>4, <1>5, <1>6, <1>7, <1>8, <1>9 DEF GoodBut, s

\* And so is the first one after.
LEMMA BootGood ==
  ASSUME NEW new \in Files, NEW K \in SUBSET Class, NEW slow \in SUBSET (DOMAIN new \cap Connect),
         NEW cookie \in BOOLEAN
  PROVE  GoodBut(Booted(new, K, slow, cookie), {})
<1> DEFINE s == NoState
           b == conf_read(s, new, K, slow)
           bound == TRUE
           d == listener_add(b, bound)
           e == [d EXCEPT !.ping_cookie = cookie]
<1>1. File(s, new, K, slow) /\ s.listener.is # "open"
  <2>1. \A x \in Conf : s.conf[x].is = "none"
    BY DEF NoState, NoConf
  <2>2. s.listener.is # "open"
    BY DEF NoState
  <2>3. DOMAIN new \in SUBSET Conf
    BY DEF Files
  <2> HIDE DEF s
  <2> QED BY <2>1, <2>2, <2>3 DEF File
<1>2. Booted(new, K, slow, cookie) = e
  BY DEF Booted
<1>3. GoodBut(s, {})
  BY NoStateGood
<1> HIDE DEF s
<1>4. Reformed(s, b) /\ b.listener = s.listener
  BY <1>1, <1>3, ReadGood
<1> HIDE DEF b
<1>5. bound \in BOOLEAN
  OBVIOUS
<1> HIDE DEF bound
<1>6. Reformed(b, d)
  BY <1>1, <1>4, <1>5, ListenerGood DEF Reformed, Follows
<1> HIDE DEF d
<1>7. Reformed(d, e)
  BY <1>6, CookieGood DEF Reformed, Follows
<1> QED BY <1>2, <1>7 DEF Reformed, Follows

-----------------------------------------------------------------------------
(* The end of a pass: abort_list, then dead_list. *)

\* The first of abort_list is taken off it, and exited.
LEMMA AbortGood ==
  ASSUME NEW s, GoodBut(s, {}), s.abort # <<>>
  PROVE  Follows(s, exit_client([s EXCEPT !.abort = Tail(@)], Head(s.abort)))
<1> DEFINE c == Head(s.abort)
           t == SetAbort(s, Tail(s.abort))
           u == exit_client(t, c)
<1>1. s \in State /\ Formed(s) /\ Limits(s) /\ IsInjective(s.abort)
  BY StateFormed DEF GoodBut
<1>2. s.client \in [Conn -> Client] /\ s.abort \in Seq(Conn) /\ s.query \in SUBSET Request /\ s.fds \in Int
  BY <1>1, Typed
<1>3. Tail(s.abort) \in Seq(Conn) /\ IsInjective(Tail(s.abort)) /\ c \in Conn
      /\ Range(Tail(s.abort)) = Range(s.abort) \ {c}
  BY <1>1, <1>2, TailOf
<1>4. c \in Range(s.abort)
  <2>1. 1 \in DOMAIN s.abort /\ c = s.abort[1]
    BY <1>2
  <2> QED BY <2>1 DEF Range
<1>5. [s EXCEPT !.abort = Tail(@)] = t
  BY DEF SetAbort
<1>6. Only({"abort"}, s, t) /\ t.abort = Tail(s.abort)
  BY <1>1, Setters
<1> HIDE DEF c, t
<1>7. t.client = s.client /\ t.query = s.query /\ t.fds = s.fds /\ t.conf = s.conf /\ t.dead = s.dead
  BY <1>6 DEF Only, Fields
<1>8. s.client[c].is # "none" /\ s.client[c] \in Client /\ GoodClient(s, {}, c)
  BY <1>2, <1>3, <1>4 DEF GoodBut, GoodClient, Absent, OnAbort
<1>9. Changed(s, t, c)
  <2>1. Only({"client", "abort", "query", "fds"}, s, t)
    BY <1>6 DEF Only
  <2>2. t.abort \in Seq(Conn) /\ IsInjective(t.abort) /\ \A d \in Conn \ {c} : OnAbort(t, d) <=> OnAbort(s, d)
    BY <1>3, <1>6 DEF OnAbort
  <2>3. \A d \in Conn \ {c} : Asked(t, d) = Asked(s, d)
    BY <1>7 DEF Asked
  <2>4. t.fds = s.fds + Num(Asking(t.client[c])) - Num(Asking(s.client[c]))
    BY <1>2, <1>7 DEF Num
  <2>5. Limits(t)
    BY <1>1, <1>7 DEF Limits, Admitted
  <2> QED BY <1>2, <1>7, <1>8, <2>1, <2>2, <2>3, <2>4, <2>5 DEF Changed
<1>10. GoodClient(t, {c}, c)
  <2>1. Asked(t, c) = Asked(s, c)
    BY <1>7 DEF Asked
  <2>2. Closed(s, c) => Closed(t, c)
    BY <1>7, <2>1 DEF Closed
  <2>3. Live(s, c) => Live(t, c)
    BY <1>7, <2>1 DEF Live
  <2> QED BY <1>7, <1>8, <2>2, <2>3 DEF GoodClient, Has
<1>11. GoodBut(t, {c})
  <2>1. {} \subseteq {c} \cup {c}
    OBVIOUS
  <2> QED BY <1>3, <1>9, <1>10, <2>1, Change
<1>12. GoodBut(u, {c} \ {c}) /\ Spared(t, u, c)
  BY <1>3, <1>7, <1>8, <1>11, ExitGood
<1>13. {c} \ {c} = {} /\ Kept(s, t)
  BY <1>7 DEF Kept
<1> HIDE DEF u
<1>14. Kept(t, u)
  BY <1>3, <1>12, SparedKept
<1> QED BY <1>5, <1>12, <1>13, <1>14, KeptTrans DEF Follows, u, c

\* Nothing refers to a connection on dead_list once abort_list is empty: its memory is given back.
Freeing(s) == [s EXCEPT !.client   = [c \in Conn |-> IF c \in s.dead THEN Gone ELSE s.client[c]],
                        !.listener = listener_release(@, Cardinality({c \in s.dead : s.client[c].port})),
                        !.dead     = @ \ s.dead]

\* free_exited_clients() in closed form: no assertion of it fails.
LEMMA FreeForm ==
  ASSUME NEW s, GoodBut(s, {}), s.abort = <<>>
  PROVE  LET t == client_free(s, s.dead) IN
         /\ Only({"client", "listener", "dead"}, s, t) /\ t.dead = {}
         /\ t.client = [c \in Conn |-> IF c \in s.dead THEN Gone ELSE s.client[c]]
         /\ t.listener = listener_release(s.listener, Cardinality({c \in s.dead : s.client[c].port}))
<1> DEFINE t == Freeing(s)
           l == listener_release(s.listener, Cardinality({c \in s.dead : s.client[c].port}))
           m == [c \in Conn |-> IF c \in s.dead THEN Gone ELSE s.client[c]]
           bad == \E c \in s.dead : Held(s, c)
<1>1. s \in State /\ s.misuse = FALSE /\ Formed(s) /\ s.dead \in SUBSET Conn
  BY StateFormed, Typed DEF GoodBut
<1>2. client_free(s, s.dead) = Misused(t, bad)
  BY DEF client_free, Freeing
<1>3. bad = FALSE
  <2>1. ASSUME NEW c \in s.dead PROVE ~Held(s, c)
    <3>1. GoodClient(s, {}, c) /\ c \in s.dead
      BY <1>1 DEF GoodBut
    <3>2. Closed(s, c)
      BY <3>1 DEF GoodClient, Absent, Live
    <3>3. ~OnAbort(s, c)
      BY DEF OnAbort, Range
    <3> QED BY <3>2, <3>3 DEF Closed, Held, Asked
  <2> QED BY <2>1
<1> HIDE DEF bad
<1>4. t = [s EXCEPT !.client = m, !.listener = l, !.dead = s.dead \ s.dead]
  BY DEF Freeing
<1> HIDE DEF t, l
<1>5. /\ t = [f \in Fields |-> t[f]] /\ t.client = m /\ t.listener = l /\ t.dead = {}
      /\ \A f \in Fields \ {"client", "listener", "dead"} : t[f] = s[f]
  BY <1>1, <1>4 DEF Formed, Fields
<1>6. Formed(t)
  <2>1. \A d \in Conn : Tagged(t.client[d])
    BY <1>1, <1>5, GoneForm DEF Formed
  <2> QED BY <1>5, <2>1 DEF Formed
<1>7. Misused(t, bad) = t
  <2>1. t.misuse = FALSE
    BY <1>1, <1>5 DEF Fields
  <2> QED BY <1>3, <1>6, <2>1, MisusedNot
<1> QED BY <1>2, <1>5, <1>6, <1>7 DEF Only, l

\* Whoever was exited is still what it was then, or its slot is free.
Collected(s, t) == \A d \in Conn : "closing" \in s.client[d].flags => t.client[d] \in {s.client[d], Gone}

\* Freeing what is on dead_list leaves a good state.
LEMMA FreeGood ==
  ASSUME NEW s, GoodBut(s, {}), s.abort = <<>>
  PROVE  GoodBut(client_free(s, s.dead), {}) /\ Collected(s, client_free(s, s.dead))
<1> DEFINE t == client_free(s, s.dead)
           D == {c \in s.dead : s.client[c].port}
           n == Cardinality(D)
<1>1. /\ s \in State /\ s.misuse = FALSE /\ Refs(s) /\ Blocks(s) /\ Limits(s) /\ IsInjective(s.abort)
      /\ \A d \in Conn : GoodClient(s, {}, d)
  BY DEF GoodBut
<1>2. /\ s.client \in [Conn -> Client] /\ s.abort \in Seq(Conn) /\ s.dead \in SUBSET Conn
      /\ s.query \in SUBSET Request
      /\ s.conf \in [Conf -> MaskItem] /\ s.class \in [Class -> ClassItem] /\ s.listener \in Listener
      /\ s.ip \in [Ip -> IpEntry] /\ s.fds \in Int /\ s.ping_cookie \in BOOLEAN
  BY <1>1, Typed
<1>3. /\ Only({"client", "listener", "dead"}, s, t) /\ t.dead = {}
      /\ t.client = [c \in Conn |-> IF c \in s.dead THEN Gone ELSE s.client[c]]
      /\ t.listener = listener_release(s.listener, n)
  BY FreeForm
<1> HIDE DEF t
<1>4. /\ Formed(t) /\ t.abort = s.abort /\ t.query = s.query /\ t.conf = s.conf /\ t.class = s.class /\ t.ip = s.ip
      /\ t.fds = s.fds /\ t.ping_cookie = s.ping_cookie /\ t.misuse = s.misuse
  BY <1>3 DEF Only, Fields
<1>5. ASSUME NEW c \in Conn PROVE ~OnAbort(s, c) /\ ~OnAbort(t, c)
  BY <1>4 DEF OnAbort, Range
<1>6. \A c \in s.dead : Closed(s, c) /\ s.client[c].is # "none"
  <2>1. ASSUME NEW c \in s.dead PROVE Closed(s, c) /\ s.client[c].is # "none"
    <3>1. GoodClient(s, {}, c) /\ c \in s.dead
      BY <1>1, <1>2
    <3> QED BY <3>1 DEF GoodClient, Absent, Live
  <2> QED BY <2>1
<1>7. Gone \in Client /\ Gone.is = "none" /\ Gone.fd = FALSE /\ Gone.confs = {} /\ Gone.flags = {}
      /\ Gone.port = FALSE
      /\ Gone.auth = NoAuth
  <2>1. Gone.is = "none" /\ Gone.list = "none" /\ Gone.fd = FALSE /\ Gone.need = {}
    BY DEF Gone
  <2>2. Gone.flags \in SUBSET Flags /\ Gone.need \in SUBSET {"nick", "user", "cap"} /\ Gone.confs \in SUBSET Conf
    BY <2>1, GoneForm
  <2> QED BY <2>1, <2>2, GoneForm, ClientOf
<1>8. ASSUME NEW c \in Conn
      PROVE  /\ t.client[c].confs = s.client[c].confs /\ (t.client[c].fd <=> s.client[c].fd)
             /\ t.client[c].auth = s.client[c].auth
             /\ ("iphash" \in t.client[c].flags => t.client[c] = s.client[c])
             /\ ("iphash" \in s.client[c].flags => t.client[c] = s.client[c])
             /\ (t.client[c].port <=> s.client[c].port /\ c \notin D)
             /\ t.client[c].is # "none" => t.client[c] = s.client[c]
             /\ t.client[c] \in {s.client[c], Gone} /\ t.client[c] \in Client
  <2>1. CASE c \in s.dead
    <3>1. t.client[c] = Gone
      BY <1>3, <2>1
    <3>2. s.client[c].confs = {} /\ ~s.client[c].fd /\ s.client[c].auth = NoAuth /\ "iphash" \notin s.client[c].flags
      BY <1>6, <2>1 DEF Closed
    <3> QED BY <1>7, <2>1, <3>1, <3>2
  <2>2. CASE c \notin s.dead
    <3>1. t.client[c] = s.client[c] /\ c \notin D
      BY <1>3, <2>2
    <3> QED BY <1>2, <3>1
  <2> QED BY <2>1, <2>2
<1>9. D \subseteq {c \in Conn : s.client[c].port} /\ IsFiniteSet({c \in Conn : s.client[c].port}) /\ n \in Nat
  <2>1. D \subseteq {c \in Conn : s.client[c].port} /\ D \in SUBSET Conn
    BY <1>2
  <2>2. IsFiniteSet({c \in Conn : s.client[c].port})
    BY ConnAssumption, FS_Subset
  <2>3. n \in Nat
    BY <2>1, ConnAssumption, Some
  <2> QED BY <2>1, <2>2, <2>3
<1> DEFINE P == {c \in Conn : s.client[c].port}
           Q == {c \in Conn : t.client[c].port}
<1>10. Cardinality(Q) = s.listener.ref - n /\ Cardinality(Q) \in Nat
  <2>1. Q = P \ D /\ P \cap D = D
    BY <1>8, <1>9
  <2>2. s.listener.ref = Cardinality(P)
    BY <1>1 DEF Refs, PortRefs
  <2>3. Cardinality(P \ D) = Cardinality(P) - Cardinality(P \cap D) /\ IsFiniteSet(P \ D)
    BY <1>9, FS_Difference
  <2>4. Cardinality(Q) \in Nat
    BY <2>1, <2>3, FS_CardinalityType
  <2> QED BY <2>1, <2>2, <2>3, <2>4
<1> HIDE DEF D, P, Q, n
<1>11. t.listener \in Listener /\ t.listener.ref = s.listener.ref - n
       /\ (t.listener.is = "open" <=> s.listener.is = "open") /\ (t.listener.is = "none" => t.listener.ref = 0)
  <2>1. s.listener \in Listener /\ s.listener.ref \in Nat /\ s.listener.ref - n \in Nat /\ n \in Nat
        /\ s.listener.is \in {"none", "closed", "open"} /\ (s.listener.is = "none" => s.listener.ref = 0)
    BY <1>1, <1>2, <1>9, <1>10 DEF Listener, Blocks
  <2>2. CASE s.listener.ref = n /\ s.listener.is = "closed"
    <3>1. t.listener = [is |-> "none", ref |-> 0]
      BY <1>3, <2>2 DEF listener_release
    <3>2. t.listener \in Listener /\ t.listener.is = "none" /\ t.listener.ref = 0
      BY <3>1 DEF Listener
    <3> QED BY <2>1, <2>2, <3>2
  <2>3. CASE ~(s.listener.ref = n /\ s.listener.is = "closed")
    <3>1. t.listener = [s.listener EXCEPT !.ref = s.listener.ref - n]
      BY <1>3, <2>3 DEF listener_release
    <3>2. t.listener \in Listener /\ t.listener.is = s.listener.is /\ t.listener.ref = s.listener.ref - n
      BY <2>1, <3>1 DEF Listener
    <3> QED BY <2>1, <3>2
  <2> QED BY <2>2, <2>3
<1>12. t \in State
  <2>1. t.client \in [Conn -> Client]
    BY <1>3, <1>8
  <2>2. t.dead \in SUBSET Conn /\ t.misuse \in BOOLEAN
    BY <1>1, <1>3, <1>4
  <2> QED BY <1>2, <1>4, <1>11, <2>1, <2>2, StateOf
<1>13. Refs(t)
  <2>1. ConfRefs(t)
    <3>1. \A x \in Conf : {c \in Conn : x \in t.client[c].confs} = {c \in Conn : x \in s.client[c].confs}
      BY <1>8
    <3> QED BY <1>1, <1>4, <3>1 DEF Refs, ConfRefs
  <2>2. ClassRefs(t)
    <3>1. \A k \in Class : {r \in Conn \X Conf : r[2] \in t.client[r[1]].confs /\ t.conf[r[2]].class = k}
                         = {r \in Conn \X Conf : r[2] \in s.client[r[1]].confs /\ s.conf[r[2]].class = k}
      BY <1>4, <1>8
    <3> QED BY <1>1, <1>4, <3>1 DEF Refs, ClassRefs
  <2>3. PortRefs(t)
    BY <1>10, <1>11 DEF PortRefs, Q
  <2>4. IpRefs(t)
    <3>1. ASSUME NEW p \in Ip
          PROVE  {c \in Conn : Has(t, c, "iphash") /\ t.client[c].ip = p}
                   = {c \in Conn : Has(s, c, "iphash") /\ s.client[c].ip = p}
      <4>1. \A c \in Conn : ("iphash" \in t.client[c].flags /\ t.client[c].ip = p)
                             <=> ("iphash" \in s.client[c].flags /\ s.client[c].ip = p)
        BY <1>8
      <4> QED BY <4>1 DEF Has
    <3> QED BY <1>1, <1>4, <3>1 DEF Refs, IpRefs
  <2>5. FdRefs(t)
    <3>1. {c \in Conn : t.client[c].fd} = {c \in Conn : s.client[c].fd} /\ Idents(t) = Idents(s)
      BY <1>8 DEF Idents
    <3> QED BY <1>1, <1>4, <1>11, <3>1 DEF Refs, FdRefs
  <2> QED BY <2>1, <2>2, <2>3, <2>4, <2>5 DEF Refs
<1>14. Blocks(t)
  BY <1>1, <1>4, <1>11 DEF Blocks
<1>15. Limits(t)
  <2>1. \A d \in Conn : d \in Admitted(t) =>
           /\ d \in Admitted(s) /\ t.client[d].confs = s.client[d].confs /\ t.client[d].ip = s.client[d].ip
           /\ \A x \in t.client[d].confs \cap Auth : t.conf[x].class = s.conf[x].class
    BY <1>4, <1>8 DEF Admitted
  <2>2. t.fds <= FdLimit
    BY <1>1, <1>4 DEF Limits
  <2> QED BY <1>1, <2>1, <2>2, LimitsShrink
<1>16. ASSUME NEW d \in Conn PROVE GoodClient(t, {}, d)
  <2>1. Asked(t, d) = Asked(s, d)
    BY <1>4 DEF Asked
  <2>2. CASE d \in s.dead
    <3>1. t.client[d] = Gone /\ Asked(s, d) = {}
      BY <1>3, <1>6, <2>2 DEF Closed
    <3> QED BY <1>3, <1>5, <1>7, <2>1, <3>1 DEF GoodClient, Absent
  <2>3. CASE d \notin s.dead
    <3>1. t.client[d] = s.client[d] /\ d \notin t.dead
      BY <1>3, <2>3
    <3>2. GoodClient(s, {}, d) /\ (d \in t.dead <=> d \in s.dead) /\ (OnAbort(t, d) <=> OnAbort(s, d))
      BY <1>1, <1>5, <2>3, <3>1
    <3> QED BY <2>1, <3>1, <3>2, SameClient
  <2> QED BY <2>2, <2>3
<1>17. Collected(s, t)
  BY <1>8 DEF Collected
<1>18. GoodBut(t, {})
  BY <1>1, <1>4, <1>12, <1>13, <1>14, <1>15, <1>16 DEF GoodBut
<1> QED BY <1>17, <1>18 DEF t

-----------------------------------------------------------------------------
(* The steps. *)

\* A callback: what it leaves is good, and who was exited before is untouched.
Moves == Follows(ircd, ircd') /\ UNCHANGED phase

\* Whatever has a descriptor or is on a list may be exited.
LEMMA ThereNow ==
  ASSUME GoodBut(ircd, {}), NEW c \in Conn, Client_(c).fd \/ Client_(c).list # "none"
  PROVE  ircd.client[c].is # "none" /\ ~Has(ircd, c, "closing")
  BY There DEF Client_

\* Every callback of sockets, TLS, ident and DNS leaves a good state.
LEMMA CallbacksMove == ASSUME GoodBut(ircd, {}), Callbacks PROVE Moves
<1>1. ASSUME NEW c \in Conn, NEW ident \in BOOLEAN, NEW fails \in BOOLEAN, ssl_handshake(c, ident, fails) PROVE Moves
  <2>1. ircd' = Handshaken(ircd, c, ident, fails) /\ UNCHANGED phase
    BY <1>1 DEF ssl_handshake, Handshaken, Do, Client_
  <2>2. ircd.client[c].fd /\ "tls" \in ircd.client[c].flags
    BY <1>1 DEF ssl_handshake, Handshaking, Client_, Has
  <2> QED BY <2>1, <2>2, HandshakenGood DEF Moves
<1>2. ASSUME NEW c \in Conn, NEW tls \in {"no", "ok", "fail"}, server_connect_callback(c, tls) PROVE Moves
  <2>1. ircd' = Connected(ircd, c, tls) /\ UNCHANGED phase
    BY <1>2 DEF server_connect_callback, Connected, Do
  <2>2. ircd.client[c].is = "connecting" /\ ircd.client[c].fd /\ ~Defunct(ircd, c) /\ ~Has(ircd, c, "tls")
    BY <1>2 DEF server_connect_callback, Connecting, Client_
  <2> QED BY <2>1, <2>2, ConnectedGood DEF Moves
<1>3. ASSUME NEW c \in Conn, auth_connect_callback(c) PROVE Moves
  <2>1. ircd' = [ircd EXCEPT !.client[c].auth.ident = "read"] /\ UNCHANGED phase
        /\ ircd.client[c].auth.ident = "connect"
    BY <1>3 DEF auth_connect_callback, Do, Client_
  <2> QED BY <2>1, IdentConnectedGood DEF Moves
<1>4. ASSUME NEW c \in Conn, NEW eof \in BOOLEAN, IdentEnds(c, eof) PROVE Moves
  <2>1. ircd' = auth_error(ircd, c, eof) /\ UNCHANGED phase /\ Asking(ircd.client[c])
    BY <1>4 DEF IdentEnds, Do, Client_, Asking
  <2> QED BY <2>1, IdentEndGood DEF Moves
<1>5. ASSUME NEW q \in Request, NEW ok \in BOOLEAN, NEW eof \in BOOLEAN, LookupEnds(q, ok, eof) PROVE Moves
  <2>1. ircd' = res_readreply(ircd, q, ok, eof) /\ UNCHANGED phase /\ q \in ircd.query
    BY <1>5 DEF LookupEnds, Do
  <2>2. CASE q.who \in Conn
    BY <2>1, <2>2, LookupEndGood DEF Moves
  <2>3. CASE q.who \notin Conn
    BY <2>1, <2>3, BlockLookupEndGood DEF Moves
  <2> QED BY <2>2, <2>3
<1>6. ASSUME NEW c \in Conn, TlsFails(c) PROVE Moves
  <2>1. ircd' = exit_client(ircd, c) /\ UNCHANGED phase /\ ircd.client[c].is # "none"
    BY <1>6, ThereNow DEF TlsFails, Handshaking, Do
  <2> QED BY <2>1, ExitFollows DEF Moves
<1>7. ASSUME NEW c \in Conn, ConnectFails(c) PROVE Moves
  <2>1. ircd' = dead_link_on_write(ircd, c) /\ UNCHANGED phase /\ ircd.client[c].is # "none" /\ ~Defunct(ircd, c)
    BY <1>7, ThereNow DEF ConnectFails, Connecting, Do
  <2> QED BY <2>1, WriteFollows DEF Moves
<1> QED BY <1>1, <1>2, <1>3, <1>4, <1>5, <1>6, <1>7 DEF Callbacks

\* A block found is valid.
LEMMA FoundNow == ASSUME NEW B, NEW X \in Found(B) PROVE FoundIn(ircd, X, B)
  BY DEF Found, FoundIn

\* A client that is read and not registered may register.
LEMMA UnregisteredNow ==
  ASSUME GoodBut(ircd, {}), NEW c \in Conn, Unregistered(c)
  PROVE  Registers(ircd, c)
  BY DEF Unregistered, Reads, Registers, Client_, Has

\* Everything read from connections, or sent to them in vain, leaves a good state.
LEMMA InputMoves == ASSUME GoodBut(ircd, {}), Input PROVE Moves
<1>1. ASSUME NEW c \in Conn, NEW why \in Why, NEW X \in Found(Auth), Command(c, X, why) PROVE Moves
  <2>1. Registers(ircd, c) /\ FoundIn(ircd, X, Auth)
    BY <1>1, UnregisteredNow, FoundNow DEF Command
  <2>2. UNCHANGED phase /\ ircd' \in {cap_ls(ircd, c), cap_end(ircd, c, X, why), mr_nick(ircd, c, X, why),
                                      do_user(ircd, c, X, why), mr_pong(ircd, c, X, why)}
    BY <1>1 DEF Command, Do
  <2> QED BY <2>1, <2>2, CommandGood DEF Moves
<1>2. ASSUME NEW c \in Conn, NEW why \in Why, NEW X \in Found(Connect), Server(c, X, why) PROVE Moves
  <2>1. FoundIn(ircd, X, Connect)
    BY <1>2, FoundNow
  <2>2. ircd.client[c].fd /\ ~Defunct(ircd, c) /\ (Registers(ircd, c) \/ ircd.client[c].is = "handshake")
    BY <1>2, UnregisteredNow DEF Server, Unregistered, Reads, Client_
  <2>3. UNCHANGED phase /\ ircd' = mr_server(ircd, c, X, why)
    BY <1>2 DEF Server, Do
  <2> QED BY <2>1, <2>2, <2>3, ServerGood DEF Moves
<1>3. ASSUME NEW c \in Conn, NEW p \in Ip, NEW banned \in BOOLEAN, mr_webirc(c, p, banned) PROVE Moves
  <2> DEFINE t == [ircd EXCEPT !.client[c].ip = p]
  <2>1. Registers(ircd, c)
    BY <1>3, UnregisteredNow DEF mr_webirc
  <2>2. Follows(ircd, t) /\ Follows(ircd, exit_client(t, c))
    BY <2>1, WebircGood
  <2>3. UNCHANGED phase /\ (ircd' = t \/ ircd' = exit_client(t, c))
    BY <1>3 DEF mr_webirc, Do
  <2> QED BY <2>2, <2>3 DEF Moves
<1>4. ASSUME NEW c \in Conn, m_quit(c) \/ ms_svinfo(c) \/ read_packet(c) \/ Killed(c) PROVE Moves
  <2>1. ircd.client[c].is # "none"
    BY <1>4, ThereNow DEF m_quit, ms_svinfo, read_packet, Killed, Unregistered, Reads
  <2>2. UNCHANGED phase /\ (ircd' = exit_client(ircd, c) \/ ircd' = ircd)
    BY <1>4 DEF m_quit, ms_svinfo, read_packet, Killed, dead_link_on_read, Do
  <2>3. Follows(ircd, ircd)
    BY DEF Follows, Kept
  <2> QED BY <2>1, <2>2, <2>3, ExitFollows DEF Moves
<1>5. ASSUME NEW c \in Conn, WriteFails(c) PROVE Moves
  <2>1. ircd' = dead_link_on_write(ircd, c) /\ UNCHANGED phase /\ ircd.client[c].is # "none" /\ ~Defunct(ircd, c)
    BY <1>5, ThereNow DEF WriteFails, Do
  <2> QED BY <2>1, WriteFollows DEF Moves
<1>6. ASSUME NEW c \in Conn, mo_close(c) PROVE Moves
  <2> DEFINE C == Listed(ircd, "unknown")
  <2>1. C \in SUBSET Conn /\ \A d \in C : ircd.client[d].is # "none"
    BY ThereNow DEF Listed, Client_
  <2>2. UNCHANGED phase /\ ircd' = exit_all(ircd, C)
    BY <1>6 DEF mo_close, Do
  <2> HIDE DEF C
  <2> QED BY <2>1, <2>2, ExitAllFollows DEF Moves
<1> QED BY <1>1, <1>2, <1>3, <1>4, <1>5, <1>6 DEF Input

\* Every timer does.
LEMMA EventsMove == ASSUME GoodBut(ircd, {}), Events PROVE Moves
<1>1. ASSUME NEW c \in Conn, check_pings_list(c) \/ check_unknowns_list(c) PROVE Moves
  <2>1. UNCHANGED phase /\ ircd' = exit_client(ircd, c) /\ ircd.client[c].is # "none"
    BY <1>1, ThereNow DEF check_pings_list, check_unknowns_list, Do
  <2> QED BY <2>1, ExitFollows DEF Moves
<1>2. ASSUME NEW p \in Ip, ipcache_remove_expired_records(p) PROVE Moves
  BY <1>2, ExpireGood DEF ipcache_remove_expired_records, Do, Moves
<1> QED BY <1>1, <1>2 DEF Events

\* Every accept() does.
LEMMA AcceptsMove == ASSUME GoodBut(ircd, {}), Accepts PROVE Moves
<1>1. ASSUME NEW c \in Conn, NEW p \in Ip, NEW tls \in {"no", "ok", "fail"}, NEW ident \in BOOLEAN,
             NEW fails \in BOOLEAN,
             listener_accept_connection(c, p, tls, ident, fails)
      PROVE  Moves
  <2>1. UNCHANGED phase /\ ircd' = add_connection(ircd, c, p, tls, ident, fails)
        /\ ircd.client[c].is = "none" /\ ircd.listener.is = "open" /\ ircd.fds < FdLimit
    BY <1>1 DEF listener_accept_connection, Do, Client_
  <2> QED BY <2>1, AcceptGood DEF Moves
<1> QED BY <1>1 DEF Accepts

\* Every connect() does.
LEMMA ConnectsMove == ASSUME GoodBut(ircd, {}), Connects PROVE Moves
<1>1. ASSUME NEW c \in Conn, NEW x \in Connect, NEW fails \in BOOLEAN,
             try_connections(c, x, fails) \/ \E o \in Conn : mo_connect(o, c, x, fails)
      PROVE  Moves
  <2>1. UNCHANGED phase /\ ircd' = Sent(server_connect(c, x), c, fails) /\ Free(c, x)
    BY <1>1 DEF try_connections, mo_connect, Do
  <2>2. server_connect(c, x) = Launched(ircd, c, x)
    BY DEF server_connect, Launched, Calls, Caller
  <2>3. ircd.client[c].is = "none" /\ ircd.fds < FdLimit /\ ircd.conf[x].is = "on"
    BY <2>1 DEF Free, Client_
  <2> QED BY <2>1, <2>2, <2>3, LaunchGood DEF Moves
<1> QED BY <1>1 DEF Connects

\* Every rehash does.
LEMMA RehashesMove == ASSUME GoodBut(ircd, {}), Rehashes PROVE Moves
<1>1. ASSUME NEW new \in Files, NEW K \in SUBSET Class, NEW cookie \in BOOLEAN, NEW bound \in BOOLEAN,
             NEW banned \in SUBSET Conn,
             NEW slow \in SUBSET (DOMAIN new \cap Connect), Rehash(new, K, slow, cookie, bound, banned)
      PROVE  Moves
  <2>1. UNCHANGED phase /\ ircd' = conf_rehash(ircd, new, K, slow, cookie, bound, banned)
    BY <1>1 DEF Rehash, Do
  <2>2. File(ircd, new, K, slow)
    BY <1>1 DEF Rehash, File
  <2>3. \A c \in banned : ircd.client[c].is # "none"
    BY <1>1, ThereNow DEF Rehash
  <2> QED BY <2>1, <2>2, <2>3, RehashGood DEF Moves
<1> QED BY <1>1 DEF Rehashes

-----------------------------------------------------------------------------
(* The theorems. *)

\* The invariant holds once the configuration has been read.
LEMMA InitInv == Init => Inv
<1> SUFFICES ASSUME Init PROVE Inv
  OBVIOUS
<1>1. PICK new \in Files, K \in SUBSET Class, cookie \in BOOLEAN :
        \E slow \in SUBSET (DOMAIN new \cap Connect) : ircd = Booted(new, K, slow, cookie)
  BY DEF Init
<1>2. GoodBut(ircd, {})
  BY <1>1, BootGood
<1> QED BY <1>2 DEF Init, Inv

\* The end of a pass keeps it.
LEMMA PassesKeep == ASSUME Inv, Passes PROVE Inv' /\ ClosedUntouched
<1>1. GoodBut(ircd, {}) /\ phase \in {"events", "io", "abort"}
  BY DEF Inv
<1>2. CASE comm_select
  <2>1. ircd' = ircd /\ phase' \in {"events", "io", "abort"}
    BY <1>1, <1>2 DEF comm_select, Running, Event, Ready
  <2> QED BY <1>1, <2>1 DEF Inv, ClosedUntouched, Client_
<1>3. CASE exit_aborted_clients
  <2>1. ircd' = exit_client([ircd EXCEPT !.abort = Tail(@)], Head(ircd.abort)) /\ phase' = phase /\ ircd.abort # <<>>
    BY <1>3 DEF exit_aborted_clients, Do
  <2>2. Follows(ircd, ircd')
    BY <1>1, <2>1, AbortGood
  <2> QED BY <1>1, <2>1, <2>2 DEF Follows, Kept, Inv, ClosedUntouched, Client_, Has
<1>4. CASE free_exited_clients
  <2>1. ircd' = client_free(ircd, ircd.dead) /\ phase' = "events" /\ ircd.abort = <<>>
    BY <1>4 DEF free_exited_clients
  <2>2. GoodBut(ircd', {}) /\ Collected(ircd, ircd')
    BY <1>1, <2>1, FreeGood
  <2> QED BY <2>1, <2>2 DEF Collected, Inv, ClosedUntouched, Client_, Has
<1> QED BY <1>2, <1>3, <1>4 DEF Passes

\* Every step keeps it, and touches no connection that was exited but to free it.
LEMMA NextKeeps ==
  ASSUME Inv, [Next]_vars
  PROVE  Inv' /\ (\A c \in Conn : Has(ircd, c, "closing") => ircd'.client[c] \in {Client_(c), Gone})
<1>1. GoodBut(ircd, {}) /\ phase \in {"events", "io", "abort"}
  BY DEF Inv
<1>2. ASSUME Moves PROVE Inv' /\ ClosedUntouched
  BY <1>1, <1>2 DEF Moves, Follows, Kept, Inv, ClosedUntouched, Client_, Has
<1>3. CASE Callbacks \/ Input \/ Events \/ Accepts \/ Connects \/ Rehashes
  BY <1>1, <1>2, <1>3, CallbacksMove, InputMoves, EventsMove, AcceptsMove, ConnectsMove,
  RehashesMove DEF ClosedUntouched
<1>4. CASE Passes
  BY <1>4, PassesKeep DEF ClosedUntouched
<1>5. CASE UNCHANGED vars
  BY <1>1, <1>5 DEF vars, Inv, Client_
<1> QED BY <1>3, <1>4, <1>5 DEF Next

\* In every state of the server, for any number of connections, addresses, blocks, classes and
\* limits, every count is right, every connection is fit for its state, and the limits hold.
THEOREM Invariance == Spec => []Inv
<1>1. Init => Inv
  BY InitInv
<1>2. Inv /\ [Next]_vars => Inv'
  BY NextKeeps
<1> QED BY <1>1, <1>2, PTL DEF Spec

\* exit_client() happens once to a connection, and nothing after it but that its memory is given back.
THEOREM ExitedOnceHolds == Spec => ExitedOnce
<1>1. Inv /\ [Next]_vars => [ClosedUntouched]_vars
  BY NextKeeps DEF ClosedUntouched
<1> QED BY <1>1, Invariance, PTL DEF Spec, ExitedOnce

\* The invariant says what has which type,
LEMMA InvTypeOK == Inv => TypeOK
  BY DEF Inv, GoodBut, TypeOK

\* that all the counts are right,
LEMMA InvRefs == Inv => RefsHold
<1> SUFFICES ASSUME Inv PROVE RefsHold
  OBVIOUS
<1>1. Refs(ircd) /\ \A c \in Conn : GoodClient(ircd, {}, c)
  BY DEF Inv, GoodBut
<1>2. \A p \in Ip : {c \in Local : Has(ircd, c, "iphash") /\ Client_(c).ip = p}
                  = {c \in Conn : Has(ircd, c, "iphash") /\ ircd.client[c].ip = p}
  <2>1. \A c \in Conn : Has(ircd, c, "iphash") => c \in Local
    <3>1. Gone.flags = {}
      BY GoneForm
    <3> QED BY <1>1, <3>1 DEF Local, Client_, GoodClient, Absent, Has
  <2> QED BY <2>1 DEF Local, Client_
<1> QED BY <1>1, <1>2 DEF RefsHold, Refs, ConfRefs, ClassRefs, PortRefs, IpRefs, FdRefs, Idents, Open, Client_

\* and that the limits hold.
LEMMA InvLimits == Inv => LimitsHold
  BY DEF Inv, GoodBut, Limits, Admitted, LimitsHold, Client_

\* Blocks, classes, the listener, addresses and descriptors are counted right, and nobody is admitted
\* beyond the limits of a class or an address, however lookups, refusals, exits and rehashes interleave.
THEOREM CountsAlwaysHold == Spec => []CountsHold
<1>1. Inv => CountsHold
  BY InvTypeOK, InvRefs, InvLimits DEF CountsHold
<1> QED BY <1>1, Invariance, PTL

\* Nothing that is referred to has been freed, no assertion about lists and counts fails, and the
\* lists agree with the states: also while a configuration is replaced under connections that use it.
THEOREM NothingDangles == Spec => []NoDangling
<1>1. Inv => NoDangling
  <2> SUFFICES ASSUME Inv PROVE NoDangling
    OBVIOUS
  <2>1. /\ GoodBut(ircd, {}) /\ ircd \in State /\ ircd.misuse = FALSE /\ Refs(ircd) /\ Blocks(ircd)
        /\ IsInjective(ircd.abort)
        /\ \A c \in Conn : GoodClient(ircd, {}, c)
    BY DEF Inv, GoodBut
  <2>2. /\ ircd.client \in [Conn -> Client] /\ ircd.query \in SUBSET Request /\ ircd.conf \in [Conf -> MaskItem]
        /\ ircd.dead \in SUBSET Conn /\ ircd.abort \in Seq(Conn)
    BY <2>1, Typed
  <2>3. \A q \in ircd.query : IF q.who \in Conn THEN Client_(q.who).auth.dns ELSE ircd.conf[q.who].is # "none"
    <3>1. ASSUME NEW q \in ircd.query, q.who \in Conn PROVE Client_(q.who).auth.dns
      BY <2>1, <3>1, LookupOf DEF Client_
    <3>2. ASSUME NEW q \in ircd.query, q.who \notin Conn PROVE ircd.conf[q.who].is # "none"
      <4>1. q.who \in Connect
        BY <2>2, <3>2 DEF Request
      <4> QED BY <2>1, <4>1 DEF Blocks
    <3> QED BY <3>1, <3>2
  <2>4. \A c \in Conn : \A x \in Client_(c).confs : ircd.conf[x].is # "none"
    <3>1. ASSUME NEW c \in Conn, NEW x \in Client_(c).confs PROVE ircd.conf[x].is # "none"
      <4>1. x \in Conf /\ x \in ircd.client[c].confs
        BY <2>2, ClientTyped DEF Client_
      <4>2. ircd.conf[x].ref > 0
        BY <2>1, <4>1, Counts
      <4> QED BY <2>1, <4>1, <4>2 DEF Blocks
    <3> QED BY <3>1
  <2>5. \A x \in Conf : ircd.conf[x].is # "none" => ircd.class[ircd.conf[x].class].is # "none"
    BY <2>1 DEF Blocks
  <2>6. \A c \in Conn : Client_(c).port => ircd.listener.is # "none"
    <3>1. ircd.listener.is = "none" => ircd.listener.ref = 0
      BY <2>1 DEF Blocks
    <3>2. \A c \in Conn : Client_(c).port => ircd.listener.ref > 0
      BY <2>1, Counts DEF Client_
    <3> QED BY <3>1, <3>2
  <2>7. \A c \in Local : IF Has(ircd, c, "closing") THEN c \in ircd.dead /\ ~Client_(c).fd
                         ELSE /\ Client_(c).list = ListOf(Client_(c).is)
                              /\ Has(ircd, c, "dead") <=> OnAbort(ircd, c)
    BY <2>1 DEF Local, Client_, GoodClient, Closed, Live, Settled, Has
  <2>8. ircd.dead \subseteq Local /\ Range(ircd.abort) \subseteq Local
    <3>1. \A c \in Conn : c \in ircd.dead \/ OnAbort(ircd, c) => c \in Local
      BY <2>1 DEF GoodClient, Absent, Local, Client_
    <3>2. Range(ircd.abort) \subseteq Conn
      BY <2>2 DEF Range
    <3> QED BY <2>2, <3>1, <3>2 DEF OnAbort
  <2>9. ~ircd.misuse
    BY <2>1
  <2> QED BY <2>1, <2>3, <2>4, <2>5, <2>6, <2>7, <2>8, <2>9 DEF NoDangling
<1> QED BY <1>1, Invariance, PTL

\* A connection that is not registered always has a timer set or is about to be aborted.
THEOREM NobodyForgotten == Spec => []WatchedOver
<1>1. Inv => WatchedOver
  <2> SUFFICES ASSUME Inv, NEW c \in Conn, Client_(c).list = "unknown" PROVE Timed(c) \/ OnAbort(ircd, c)
    BY DEF WatchedOver
  <2> DEFINE r == ircd.client[c]
  <2>1. GoodBut(ircd, {}) /\ ircd \in State /\ GoodClient(ircd, {}, c)
    BY DEF Inv, GoodBut
  <2>2. r.is # "none" /\ ~Has(ircd, c, "closing")
    BY <2>1, There DEF Client_
  <2>3. Live(ircd, c) /\ Settled(ircd, c) /\ r \in Client
    BY <2>1, <2>2, Typed DEF GoodClient
  <2>4. r.is \in {"unknown", "connecting", "handshake"}
    <3>1. r.is \in {"none", "unknown", "connecting", "handshake", "client", "server"}
      BY <2>3, ClientTyped
    <3>2. ListOf(r.is) = "unknown"
      BY <2>3 DEF Live, Client_
    <3> QED BY <2>2, <3>1, <3>2 DEF ListOf
  <2>5. CASE r.is # "unknown"
    BY <2>4, <2>5 DEF Timed, Client_
  <2>6. CASE r.is = "unknown" /\ "dead" \in r.flags
    BY <2>3, <2>6 DEF Settled
  <2>7. CASE r.is = "unknown" /\ "dead" \notin r.flags
    <3>1. r.auth # NoAuth \/ "auth" \in r.flags \/ "tls" \in r.flags
      BY <2>3, <2>7 DEF Settled
    <3>2. CASE r.auth # NoAuth
      <4>1. r.auth \in Lookup /\ (r.auth.dns \/ r.auth.ident # "no")
        BY <2>3, <3>2, ClientTyped DEF Live
      <4>2. r.auth.dns => \E q \in ircd.query : q.who = c
        BY <2>3 DEF Live, Asked
      <4>3. r.auth.ident # "no" => r.auth.ident \in {"connect", "read"}
        BY <4>1 DEF Lookup
      <4> QED BY <4>1, <4>2, <4>3 DEF Timed, Client_
    <3>3. CASE "auth" \in r.flags \/ "tls" \in r.flags
      BY <3>3 DEF Timed, Has
    <3> QED BY <3>1, <3>2, <3>3
  <2> QED BY <2>5, <2>6, <2>7
<1> QED BY <1>1, Invariance, PTL
=============================================================================
