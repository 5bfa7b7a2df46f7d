----------------------------- MODULE LoopProofs -----------------------------
(***************************************************************************)
(* What holds of Loop for any number of descriptors, whatever the handlers  *)
(* do and in whichever of the four ways the kernel is told; and of the      *)
(* timed events the loop runs, for any events, periods and clock, whatever  *)
(* their handlers add and delete.                                           *)
(***************************************************************************)
EXTENDS Loop, Events, ListLemmas

Timer == [by : Nat, at : Nat]
\* Places in pollfds are of no concern here.
Entry(Places) == [open : BOOLEAN, who : Nat, read : Nat, write : Nat, evcache : SUBSET Way, comm_index : Places,
                  timeout : Timer, flush : Timer]
IsTable(t) == \E Places : t \in [Fd -> Entry(Places)]
Own(e) == {e.read, e.write, e.timeout.by, e.flush.by} \subseteq {NoOne} \cup IF e.open THEN {e.who} ELSE {}

\* What a call of comm_setselect may leave.
Changed(t, k, cs, ps, os) == [table |-> t, kernel |-> k, changes |-> cs, polls |-> ps, owed |-> os]

\* Entries that differ in what the polling mechanism keeps only.
AlikeAt(t, u, f) == /\ t[f].open = u[f].open /\ t[f].who = u[f].who /\ t[f].read = u[f].read /\ t[f].write = u[f].write
                    /\ t[f].timeout = u[f].timeout /\ t[f].flush = u[f].flush
Alike(t, u) == \A f \in Fd : AlikeAt(t, u, f)

TypeInv ==
  /\ mechanism \in {"epoll", "poll", "kqueue", "devpoll"}
  /\ IsTable(fd_table)
  /\ seconds \in Nat /\ opened \in Nat

-----------------------------------------------------------------------------
(* comm_setselect *)

LEMMA IndexKept ==
  ASSUME NEW t, IsTable(t), NEW g, NEW i, NEW u, u = [t EXCEPT ![g].comm_index = i]
  PROVE  IsTable(u) /\ Alike(u, t)
<1>1. PICK P : t \in [Fd -> Entry(P)]
  BY DEF IsTable
<1> DEFINE Q == P \cup {i}
<1>2. \A f \in Fd : t[f] \in Entry(Q) /\ [t[f] EXCEPT !.comm_index = i] \in Entry(Q)
  BY <1>1 DEF Entry
<1>3. u \in [Fd -> Entry(Q)]
  BY <1>1, <1>2
<1>4. Alike(u, t)
  BY <1>1 DEF Entry, Alike, AlikeAt
<1> HIDE DEF Q
<1> QED BY <1>3, <1>4 DEF IsTable

LEMMA AlikeTrans ==
  ASSUME NEW t, NEW u, NEW v, Alike(t, u), Alike(u, v) PROVE Alike(t, v)
BY DEF Alike, AlikeAt

LEMMA PollUpdate ==
  ASSUME NEW t, IsTable(t), NEW f, NEW new, NEW k, NEW cs, NEW ps, NEW os
  PROVE  \E t2, ps2, os2 :
           /\ poll_update(Changed(t, k, cs, ps, os), f, new) = Changed(t2, k, cs, ps2, os2)
           /\ IsTable(t2) /\ Alike(t2, t)
<1> DEFINE i == t[f].comm_index
           n == Len(ps)
           final == ps[n]
           s == Changed(t, k, cs, ps, os)
<1>1. CASE new = {}
  <2> DEFINE t1 == [t EXCEPT ![final.fd].comm_index = i]
             t2 == [t1 EXCEPT ![f].comm_index = 0]
             ps2 == SubSeq(IF i # n THEN [ps EXCEPT ![i] = final] ELSE ps, 1, n - 1)
             os2 == IF i < sel.at THEN {x \in os : x.fd # final.fd} ELSE os
  <2>1. poll_update(s, f, new) = Changed(t2, k, cs, ps2, os2)
    BY <1>1 DEF poll_update, Changed
  <2>2. IsTable(t1) /\ Alike(t1, t)
    BY IndexKept
  <2>3. IsTable(t2) /\ Alike(t2, t1)
    <3> HIDE DEF t1
    <3> QED BY <2>2, IndexKept
  <2> HIDE DEF t1, t2, ps2, os2, s
  <2>4. Alike(t2, t)
    BY <2>2, <2>3, AlikeTrans
  <2> QED BY <2>1, <2>3, <2>4 DEF s
<1>2. CASE new # {} /\ t[f].evcache = {}
  <2> DEFINE e == [fd |-> f, events |-> new, revents |-> {}]
             t2 == [t EXCEPT ![f].comm_index = n + 1]
  <2>1. poll_update(s, f, new) = Changed(t2, k, cs, Append(ps, e), os)
    BY <1>2 DEF poll_update, Changed
  <2>2. IsTable(t2) /\ Alike(t2, t)
    BY IndexKept
  <2> HIDE DEF t2, s, e
  <2> QED BY <2>1, <2>2 DEF s
<1>3. CASE new # {} /\ t[f].evcache # {}
  <2> DEFINE ps2 == [ps EXCEPT ![i] = [fd |-> f, events |-> new, revents |-> {}]]
  <2>1. poll_update(s, f, new) = Changed(t, k, cs, ps2, os)
    BY <1>3 DEF poll_update, Changed
  <2> HIDE DEF ps2, s
  <2> QED BY <2>1 DEF s, Alike, AlikeAt
<1> QED BY <1>1, <1>2, <1>3

LEMMA KqueueUpdate ==
  ASSUME NEW t, NEW f, NEW new, NEW k, NEW cs, NEW ps, NEW os
  PROVE  \E k2, cs2 : kqueue_update(Changed(t, k, cs, ps, os), f, new) = Changed(t, k2, cs2, ps, os)
<1>1. \A k1, cs1, way, add : \E k2, cs2 :
        kq_update_events(Changed(t, k1, cs1, ps, os), f, way, add) = Changed(t, k2, cs2, ps, os)
  <2> TAKE k1, cs1, way, add
  <2> DEFINE v == Changed(t, k1, cs1, ps, os)
             c == Append(v.changes, [fd |-> f, way |-> way, add |-> add])
             k2 == Learnt(v.table, v.kernel, c)
  <2>1. kq_update_events(v, f, way, add) =
          IF Len(c) = Pending THEN [v EXCEPT !.kernel = k2, !.changes = <<>>] ELSE [v EXCEPT !.changes = c]
    BY DEF kq_update_events
  <2>2. \A a : [v EXCEPT !.changes = a] = Changed(t, k1, a, ps, os)
    BY DEF Changed
  <2>3. [v EXCEPT !.kernel = k2, !.changes = <<>>] = Changed(t, k2, <<>>, ps, os)
    <3> HIDE DEF k2
    <3>1. [v EXCEPT !.kernel = k2] = Changed(t, k2, cs1, ps, os)
      BY DEF Changed
    <3>2. [Changed(t, k2, cs1, ps, os) EXCEPT !.changes = <<>>] = Changed(t, k2, <<>>, ps, os)
      BY DEF Changed
    <3>3. [v EXCEPT !.kernel = k2, !.changes = <<>>] = [[v EXCEPT !.kernel = k2] EXCEPT !.changes = <<>>]
      OBVIOUS
    <3> QED BY <3>1, <3>2, <3>3
  <2> HIDE DEF v, c, k2
  <2> QED BY <2>1, <2>2, <2>3 DEF v
<1> DEFINE s == Changed(t, k, cs, ps, os)
           r == IF ("read" \in new) # ("read" \in s.table[f].evcache)
                THEN kq_update_events(s, f, "read", "read" \in new) ELSE s
<1>2. \E k2, cs2 : r = Changed(t, k2, cs2, ps, os)
  BY <1>1
<1>3. kqueue_update(s, f, new) = r \/ kqueue_update(s, f, new) = kq_update_events(r, f, "write", "write" \in new)
  BY DEF kqueue_update
<1> HIDE DEF r, s
<1> QED BY <1>1, <1>2, <1>3 DEF s

LEMMA UpdateAlike ==
  ASSUME mechanism \in {"epoll", "poll", "kqueue", "devpoll"},
         NEW t, IsTable(t), NEW f, NEW new, NEW k, NEW cs, NEW ps, NEW os
  PROVE  \E t2, k2, cs2, ps2, os2 :
           /\ Update(Changed(t, k, cs, ps, os), f, new) = Changed(t2, k2, cs2, ps2, os2)
           /\ IsTable(t2) /\ Alike(t2, t)
<1>0. Alike(t, t)
  BY DEF Alike, AlikeAt
<1>1. CASE mechanism \in {"epoll", "devpoll"}
  <2>1. Update(Changed(t, k, cs, ps, os), f, new) = Changed(t, [k EXCEPT ![f] = new], cs, ps, os)
    BY <1>1 DEF Update, epoll_ctl, devpoll_write_update, Changed
  <2> QED BY <2>1, <1>0
<1>2. CASE mechanism = "kqueue"
  <2>1. Update(Changed(t, k, cs, ps, os), f, new) = kqueue_update(Changed(t, k, cs, ps, os), f, new)
    BY <1>2 DEF Update
  <2> QED BY <2>1, <1>0, KqueueUpdate
<1>3. CASE mechanism = "poll"
  <2>1. Update(Changed(t, k, cs, ps, os), f, new) = poll_update(Changed(t, k, cs, ps, os), f, new)
    BY <1>3 DEF Update
  <2> QED BY <2>1, PollUpdate
<1> QED BY <1>1, <1>2, <1>3

\* Of the descriptor the handlers named are set; of the others none is.
Selected(t, f, ways, by, timeout) ==
  /\ \A g \in Fd \ {f} : AlikeAt(t, fd_table, g)
  /\ t[f].open = fd_table[f].open /\ t[f].who = fd_table[f].who /\ t[f].flush = fd_table[f].flush
  /\ t[f].read = IF "read" \in ways THEN by ELSE fd_table[f].read
  /\ t[f].write = IF "write" \in ways THEN by ELSE fd_table[f].write
  /\ IF timeout > 0 THEN t[f].timeout.by = by ELSE t[f].timeout = fd_table[f].timeout

LEMMA SetselectTable ==
  ASSUME TypeInv, NEW f \in Fd, NEW ways, NEW by \in Nat, NEW timeout \in Nat
  PROVE  \E t2, k2, cs2, ps2, os2 :
           /\ comm_setselect(Now, f, ways, by, timeout) = Changed(t2, k2, cs2, ps2, os2)
           /\ IsTable(t2) /\ Selected(t2, f, ways, by, timeout)
<1> DEFINE old == fd_table[f]
           read == IF "read" \in ways THEN by ELSE old.read
           write == IF "write" \in ways THEN by ELSE old.write
           timer == IF timeout > 0 THEN [by |-> by, at |-> seconds + timeout] ELSE old.timeout
           e == [open |-> old.open, who |-> old.who, read |-> read, write |-> write, evcache |-> old.evcache,
                 comm_index |-> old.comm_index, timeout |-> timer, flush |-> old.flush]
           t == [fd_table EXCEPT ![f] = e]
           s == Changed(t, kernel, kq_fdlist, pollfds, sel.owed)
           v == IF Wants(e) = e.evcache THEN s ELSE Update(s, f, Wants(e))
<1>0. PICK P : fd_table \in [Fd -> Entry(P)]
  BY DEF TypeInv, IsTable
<1>1. read \in Nat /\ write \in Nat /\ timer \in Timer
  <2>1. old.read \in Nat /\ old.write \in Nat /\ old.timeout \in Timer
    BY <1>0 DEF Entry
  <2>2. [by |-> by, at |-> seconds + timeout] \in Timer
    BY DEF TypeInv, Timer
  <2> QED BY <2>1, <2>2
<1>2. e = [old EXCEPT !.read = read, !.write = write, !.timeout = timer]
  <2>1. old \in Entry(P)
    BY <1>0
  <2> HIDE DEF read, write, timer, old
  <2> DEFINE With(a, b, c) == [open |-> old.open, who |-> old.who, read |-> a, write |-> b, evcache |-> old.evcache,
                               comm_index |-> old.comm_index, timeout |-> c, flush |-> old.flush]
  <2>2. old = With(old.read, old.write, old.timeout)
    BY <2>1 DEF Entry
  <2>3. [With(old.read, old.write, old.timeout) EXCEPT !.read = read] = With(read, old.write, old.timeout)
    OBVIOUS
  <2>4. [With(read, old.write, old.timeout) EXCEPT !.write = write] = With(read, write, old.timeout)
    OBVIOUS
  <2>5. [With(read, write, old.timeout) EXCEPT !.timeout = timer] = With(read, write, timer)
    OBVIOUS
  <2>6. [old EXCEPT !.read = read, !.write = write, !.timeout = timer] =
          [[[old EXCEPT !.read = read] EXCEPT !.write = write] EXCEPT !.timeout = timer]
    OBVIOUS
  <2>7. e = With(read, write, timer)
    OBVIOUS
  <2> HIDE DEF With, e
  <2> QED BY <2>2, <2>3, <2>4, <2>5, <2>6, <2>7
<1>3. e \in Entry(P)
  <2> HIDE DEF read, write, timer
  <2> QED BY <1>0, <1>1 DEF Entry
<1>4. Selected(t, f, ways, by, timeout)
  BY <1>0 DEF Entry, Timer, Selected, AlikeAt
<1>5. t \in [Fd -> Entry(P)] /\ IsTable(t)
  <2> HIDE DEF e
  <2> QED BY <1>0, <1>3 DEF IsTable
<1>6. comm_setselect(Now, f, ways, by, timeout) = [v EXCEPT !.table[f].evcache = Wants(e)]
  <2> DEFINE e0 == [Now.table[f] EXCEPT !.read  = IF "read" \in ways THEN by ELSE @,
                                       !.write = IF "write" \in ways THEN by ELSE @,
                                       !.timeout = IF timeout > 0 THEN [by |-> by, at |-> seconds + timeout] ELSE @]
             s0 == [Now EXCEPT !.table[f] = e0]
  <2>1. comm_setselect(Now, f, ways, by, timeout) =
          [IF Wants(e0) = e0.evcache THEN s0 ELSE Update(s0, f, Wants(e0)) EXCEPT !.table[f].evcache = Wants(e0)]
    BY DEF comm_setselect
  <2>2. e0 = e
    BY <1>2 DEF Now
  <2>3. s0 = s
    <3> HIDE DEF e0, e
    <3> QED BY <2>2 DEF Now, Changed
  <2> HIDE DEF e0, s0, e, s
  <2> QED BY <2>1, <2>2, <2>3
<1> HIDE DEF e, t
<1>7. \E t1, k2, cs2, ps2, os2 : v = Changed(t1, k2, cs2, ps2, os2) /\ IsTable(t1) /\ Alike(t1, t)
  <2>1. Alike(t, t)
    BY DEF Alike, AlikeAt
  <2>2. CASE Wants(e) = e.evcache
    BY <2>1, <2>2, <1>5
  <2>3. CASE Wants(e) # e.evcache
    <3>1. v = Update(s, f, Wants(e))
      BY <2>3
    <3> QED BY <3>1, <1>5, UpdateAlike DEF TypeInv
  <2> QED BY <2>2, <2>3
<1>8. PICK t1, k2, cs2, ps2, os2 : v = Changed(t1, k2, cs2, ps2, os2) /\ IsTable(t1) /\ Alike(t1, t)
  BY <1>7
<1> DEFINE t2 == [t1 EXCEPT ![f].evcache = Wants(e)]
<1>9. PICK Q : t1 \in [Fd -> Entry(Q)]
  BY <1>8 DEF IsTable
<1>10. t2 \in [Fd -> Entry(Q)] /\ Alike(t2, t1)
  BY <1>9 DEF Entry, Wants, Alike, AlikeAt
<1>11. [Changed(t1, k2, cs2, ps2, os2) EXCEPT !.table[f].evcache = Wants(e)] = Changed(t2, k2, cs2, ps2, os2)
  BY <1>9 DEF Changed, Entry
<1>12. comm_setselect(Now, f, ways, by, timeout) = Changed(t2, k2, cs2, ps2, os2)
  BY <1>6, <1>8, <1>11
<1> HIDE DEF t2
<1>13. Selected(t2, f, ways, by, timeout)
  BY <1>4, <1>8, <1>10 DEF Selected, Alike, AlikeAt
<1>14. IsTable(t2)
  BY <1>10 DEF IsTable
<1> QED BY <1>12, <1>13, <1>14

\* A number there is no descriptor of changes none.
LEMMA SetselectOutside ==
  ASSUME TypeInv, NEW f, f \notin Fd, NEW ways, NEW by, NEW timeout
  PROVE  \E t2, k2, cs2, ps2, os2 :
           /\ comm_setselect(Now, f, ways, by, timeout) = Changed(t2, k2, cs2, ps2, os2)
           /\ IsTable(t2) /\ Alike(t2, fd_table)
<1> DEFINE e == [Now.table[f] EXCEPT !.read  = IF "read" \in ways THEN by ELSE @,
                                     !.write = IF "write" \in ways THEN by ELSE @,
                                     !.timeout = IF timeout > 0 THEN [by |-> by, at |-> seconds + timeout] ELSE @]
           s == [Now EXCEPT !.table[f] = e]
           v == IF Wants(e) = e.evcache THEN s ELSE Update(s, f, Wants(e))
<1>0. PICK P : fd_table \in [Fd -> Entry(P)]
  BY DEF TypeInv, IsTable
<1>1. comm_setselect(Now, f, ways, by, timeout) = [v EXCEPT !.table[f].evcache = Wants(e)]
  BY DEF comm_setselect
<1> HIDE DEF e
<1>2. s = Changed(fd_table, kernel, kq_fdlist, pollfds, sel.owed)
  <2>1. [fd_table EXCEPT ![f] = e] = fd_table
    BY <1>0
  <2> QED BY <2>1 DEF Now, Changed
<1>3. Alike(fd_table, fd_table) /\ IsTable(fd_table)
  BY DEF Alike, AlikeAt, TypeInv
<1> HIDE DEF s
<1>4. \E t1, k2, cs2, ps2, os2 : v = Changed(t1, k2, cs2, ps2, os2) /\ IsTable(t1) /\ Alike(t1, fd_table)
  <2>1. CASE Wants(e) = e.evcache
    BY <2>1, <1>2, <1>3
  <2>2. CASE Wants(e) # e.evcache
    <3>1. v = Update(s, f, Wants(e))
      BY <2>2
    <3> QED BY <3>1, <1>2, <1>3, UpdateAlike DEF TypeInv
  <2> QED BY <2>1, <2>2
<1> HIDE DEF v
<1>5. PICK t1, k2, cs2, ps2, os2 : v = Changed(t1, k2, cs2, ps2, os2) /\ IsTable(t1) /\ Alike(t1, fd_table)
  BY <1>4
<1>6. PICK Q : t1 \in [Fd -> Entry(Q)]
  BY <1>5 DEF IsTable
<1>7. [t1 EXCEPT ![f].evcache = Wants(e)] = t1
  BY <1>6
<1>8. [Changed(t1, k2, cs2, ps2, os2) EXCEPT !.table[f].evcache = Wants(e)] = Changed(t1, k2, cs2, ps2, os2)
  BY <1>7 DEF Changed
<1> QED BY <1>1, <1>5, <1>8

-----------------------------------------------------------------------------
(* The highest of a set of numbers. *)

LEMMA MinOf ==
  ASSUME NEW T, T \subseteq Nat, T # {}
  PROVE  Min(T) \in T
BY Least DEF Min

LEMMA MaxIs ==
  ASSUME NEW T, T \subseteq Nat, NEW m \in T, \A y \in T : y <= m
  PROVE  Max(T) = m
<1>1. m >= m /\ \A y \in T : m >= y
  BY DEF Max
<1>2. \A x \in T : (\A y \in T : x >= y) => x = m
  <2> TAKE x \in T
  <2> HAVE \A y \in T : x >= y
  <2>1. x >= m /\ x <= m /\ x \in Nat /\ m \in Nat
    OBVIOUS
  <2> QED BY <2>1
<1> QED BY <1>1, <1>2 DEF Max

LEMMA MaxOf ==
  ASSUME NEW T, T \subseteq 0..Fds, T # {}
  PROVE  Max(T) \in T /\ \A y \in T : y <= Max(T)
<1> DEFINE U == {Fds - x : x \in T}
<1>1. U \subseteq Nat /\ U # {}
  <2>1. \A x \in T : x \in Nat /\ x <= Fds /\ Fds - x \in Nat
    BY FdsAssumption
  <2> QED BY <2>1
<1>2. PICK u \in U : \A y \in U : u <= y
  <2> HIDE DEF U
  <2> QED BY <1>1, Least
<1>3. PICK m \in T : u = Fds - m
  BY <1>2
<1>4. \A y \in T : y <= m
  <2> TAKE y \in T
  <2>1. u <= Fds - y
    BY <1>2
  <2>2. y \in Nat /\ m \in Nat /\ Fds \in Nat
    BY FdsAssumption
  <2> QED BY <2>1, <2>2, <1>3
<1>5. T \subseteq Nat
  OBVIOUS
<1> QED BY <1>4, <1>5, MaxIs

-----------------------------------------------------------------------------
(* The invariant. *)

OpenIn(t) == {f \in Fd : t[f].open}
Owned(t) == \A f \in Fd : Own(t[f])
CountInv == number_fd = Cardinality(OpenIn(fd_table)) /\ highest_fd = Max({0} \cup OpenIn(fd_table))
LoopInv == TypeInv /\ Owned(fd_table) /\ CountInv

LEMMA OpenFinite ==
  ASSUME NEW t
  PROVE  /\ IsFiniteSet(OpenIn(t)) /\ Cardinality(OpenIn(t)) \in Nat
         /\ OpenIn(t) \subseteq Fd /\ {0} \cup OpenIn(t) \subseteq 0..Fds
         /\ Cardinality(OpenIn(t)) < Fds => OpenIn(t) # Fd
<1>1. IsFiniteSet(1..Fds) /\ Cardinality(1..Fds) = Fds
  BY FS_Interval, FdsAssumption
<1>2. OpenIn(t) \subseteq Fd
  BY DEF OpenIn
<1>3. IsFiniteSet(OpenIn(t)) /\ Cardinality(OpenIn(t)) \in Nat
  BY <1>1, <1>2, FS_Subset, FS_CardinalityType DEF Fd
<1>4. {0} \cup OpenIn(t) \subseteq 0..Fds
  BY <1>2, FdsAssumption DEF Fd
<1>5. Cardinality(OpenIn(t)) < Fds => OpenIn(t) # Fd
  <2>1. Cardinality(Fd) = Fds
    BY <1>1 DEF Fd
  <2> QED BY <1>3, <2>1, FdsAssumption
<1> QED BY <1>2, <1>3, <1>4, <1>5

\* Tables that are alike have the same open, and owned handlers.
LEMMA AlikeOpen ==
  ASSUME NEW t, NEW u, Alike(t, u)
  PROVE  OpenIn(t) = OpenIn(u) /\ (Owned(u) => Owned(t))
BY DEF Alike, AlikeAt, OpenIn, Owned, Own

LEMMA OpenKeeps ==
  ASSUME LoopInv, fd_open, UNCHANGED <<mechanism, seconds>>
  PROVE  LoopInv'
<1> DEFINE C == {g \in Fd : ~IsOpen(g)}
           f == Min(C)
<1>1. f \in Fd /\ ~fd_table[f].open
  <2>1. C \subseteq Nat
    BY FdsAssumption DEF Fd
  <2>2. C # {}
    <3>1. OpenIn(fd_table) # Fd
      BY OpenFinite DEF LoopInv, CountInv, fd_open
    <3> QED BY <3>1 DEF OpenIn, IsOpen
  <2>3. f \in C
    <3> HIDE DEF C
    <3> QED BY <2>1, <2>2, MinOf
  <2> QED BY <2>3 DEF IsOpen
<1>2. /\ number_fd < Fds
      /\ fd_table' = [fd_table EXCEPT ![f] = [@ EXCEPT !.open = TRUE, !.who = opened + 1, !.comm_index = 0]]
      /\ highest_fd' = fdlist_update_highest_fd(fd_table', f)
      /\ number_fd' = number_fd + 1 /\ opened' = opened + 1
  BY DEF fd_open
<1> HIDE DEF f
<1>3. PICK P : fd_table \in [Fd -> Entry(P)]
  BY DEF LoopInv, TypeInv, IsTable
<1> DEFINE e == [fd_table[f] EXCEPT !.open = TRUE, !.who = opened + 1, !.comm_index = 0]
<1>4. /\ e \in Entry(P \cup {0}) /\ e.open
      /\ e.read = fd_table[f].read /\ e.write = fd_table[f].write
      /\ e.timeout = fd_table[f].timeout /\ e.flush = fd_table[f].flush
  <2> DEFINE old == fd_table[f]
             With(a, b, c) == [open |-> a, who |-> b, read |-> old.read, write |-> old.write, evcache |-> old.evcache,
                               comm_index |-> c, timeout |-> old.timeout, flush |-> old.flush]
             n == opened + 1
             yes == TRUE
  <2>1. old \in Entry(P)
    BY <1>1, <1>3
  <2>2. n \in Nat
    BY DEF LoopInv, TypeInv
  <2> HIDE DEF old, n, yes
  <2>3. old = With(old.open, old.who, old.comm_index)
    BY <2>1 DEF Entry
  <2>4. [With(old.open, old.who, old.comm_index) EXCEPT !.open = yes] = With(yes, old.who, old.comm_index)
    OBVIOUS
  <2>5. [With(yes, old.who, old.comm_index) EXCEPT !.who = n] = With(yes, n, old.comm_index)
    OBVIOUS
  <2>6. [With(yes, n, old.comm_index) EXCEPT !.comm_index = 0] = With(yes, n, 0)
    OBVIOUS
  <2>7. e = [[[old EXCEPT !.open = yes] EXCEPT !.who = n] EXCEPT !.comm_index = 0]
    BY DEF old, n, yes
  <2>8. e = With(yes, n, 0)
    <3> HIDE DEF With, e
    <3> QED BY <2>3, <2>4, <2>5, <2>6, <2>7
  <2>9. With(yes, n, 0) \in Entry(P \cup {0})
    BY <2>1, <2>2 DEF Entry, yes
  <2> HIDE DEF e
  <2> QED BY <2>8, <2>9 DEF old, yes
<1> HIDE DEF e
<1>5. fd_table' \in [Fd -> Entry(P \cup {0})]
  <2>1. \A g \in Fd : fd_table[g] \in Entry(P \cup {0})
    BY <1>3 DEF Entry
  <2> QED BY <1>2, <1>3, <1>4, <2>1 DEF e
<1>6. fd_table'[f] = e /\ \A g \in Fd \ {f} : fd_table'[g] = fd_table[g]
  BY <1>1, <1>2, <1>3 DEF e
<1>7. TypeInv'
  <2>1. IsTable(fd_table)'
    BY <1>5 DEF IsTable
  <2>2. UNCHANGED <<mechanism, seconds>> /\ (opened + 1 \in Nat)
    BY DEF fd_open, LoopInv, TypeInv
  <2> QED BY <1>2, <2>1, <2>2 DEF LoopInv, TypeInv
<1>8. Owned(fd_table')
  BY <1>1, <1>4, <1>6 DEF LoopInv, Owned, Own
<1>9. OpenIn(fd_table') = OpenIn(fd_table) \cup {f} /\ f \notin OpenIn(fd_table)
  BY <1>1, <1>4, <1>6 DEF OpenIn
<1>10. number_fd' = Cardinality(OpenIn(fd_table'))
  BY <1>2, <1>9, OpenFinite, FS_AddElement DEF LoopInv, CountInv
<1>11. highest_fd' = Max({0} \cup OpenIn(fd_table'))
  <2> DEFINE S == {0} \cup OpenIn(fd_table)
  <2>1. highest_fd \in S /\ \A y \in S : y <= highest_fd
    <3>1. S \subseteq 0..Fds /\ S # {}
      BY OpenFinite
    <3>2. highest_fd = Max(S)
      BY DEF LoopInv, CountInv
    <3> HIDE DEF S
    <3> QED BY <3>1, <3>2, MaxOf
  <2>2. S \subseteq Nat /\ f \in Nat /\ f # 0
    BY <1>1, OpenFinite, FdsAssumption DEF Fd
  <2>3. f # highest_fd
    BY <1>9, <2>1, <2>2
  <2>4. highest_fd' \in S \cup {f} /\ \A y \in S \cup {f} : y <= highest_fd'
    BY <1>2, <2>1, <2>2, <2>3 DEF fdlist_update_highest_fd
  <2>5. {0} \cup OpenIn(fd_table') = S \cup {f}
    BY <1>9
  <2> HIDE DEF S
  <2>6. Max(S \cup {f}) = highest_fd'
    BY <2>2, <2>4, MaxIs
  <2> QED BY <2>5, <2>6
<1> QED BY <1>7, <1>8, <1>10, <1>11 DEF LoopInv, CountInv

LEMMA CloseKeeps ==
  ASSUME LoopInv, NEW f \in Fd, fd_close(f), UNCHANGED <<mechanism, seconds>>
  PROVE  LoopInv'
<1>1. PICK t2, k2, cs2, ps2, os2 :
        /\ comm_setselect(Now, f, Way, NoOne, 0) = Changed(t2, k2, cs2, ps2, os2)
        /\ IsTable(t2) /\ Selected(t2, f, Way, NoOne, 0)
  BY SetselectTable DEF LoopInv, NoOne
<1> DEFINE s == Changed(t2, k2, cs2, ps2, os2)
<1>2. /\ fd_table[f].open
      /\ fd_table' = [t2 EXCEPT ![f] = ClosedFd]
      /\ highest_fd' = fdlist_update_highest_fd(fd_table', f)
      /\ number_fd' = number_fd - 1 /\ opened' = opened
  <2> DEFINE T(x) == [x EXCEPT !.table[f] = ClosedFd, !.kernel[f] = {}, !.owed = {y \in @ : y.fd # f}]
  <2>1. T(s).table = [t2 EXCEPT ![f] = ClosedFd]
    BY DEF Changed
  <2>2. /\ fd_table' = T(comm_setselect(Now, f, Way, NoOne, 0)).table
        /\ highest_fd' = fdlist_update_highest_fd(T(comm_setselect(Now, f, Way, NoOne, 0)).table, f)
        /\ number_fd' = number_fd - 1 /\ opened' = opened /\ fd_table[f].open
    BY DEF fd_close, SetTo, IsOpen
  <2> HIDE DEF T
  <2> QED BY <1>1, <2>1, <2>2
<1>3. PICK P : t2 \in [Fd -> Entry(P)]
  BY <1>1 DEF IsTable
<1>4. ClosedFd \in Entry(P \cup {0}) /\ ~ClosedFd.open /\ Own(ClosedFd)
  BY DEF ClosedFd, Entry, Timer, Off, NoOne, Own
<1>5. fd_table' \in [Fd -> Entry(P \cup {0})]
  <2>1. \A g \in Fd : t2[g] \in Entry(P \cup {0})
    BY <1>3 DEF Entry
  <2> QED BY <1>2, <1>3, <1>4, <2>1
<1>6. fd_table'[f] = ClosedFd /\ \A g \in Fd \ {f} : AlikeAt(fd_table', fd_table, g)
  BY <1>1, <1>2, <1>3 DEF Selected, AlikeAt
<1>7. TypeInv'
  BY <1>2, <1>5 DEF LoopInv, TypeInv, IsTable
<1>8. Owned(fd_table')
  BY <1>4, <1>6 DEF LoopInv, Owned, Own, AlikeAt
<1>9. OpenIn(fd_table') = OpenIn(fd_table) \ {f} /\ f \in OpenIn(fd_table)
  BY <1>2, <1>4, <1>6 DEF OpenIn, AlikeAt
<1>10. number_fd' = Cardinality(OpenIn(fd_table'))
  BY <1>2, <1>9, OpenFinite, FS_RemoveElement DEF LoopInv, CountInv
<1>11. highest_fd' = Max({0} \cup OpenIn(fd_table'))
  <2> DEFINE S == {0} \cup OpenIn(fd_table)
  <2>1. highest_fd \in S /\ \A y \in S : y <= highest_fd
    <3>1. S \subseteq 0..Fds /\ S # {}
      BY OpenFinite
    <3>2. highest_fd = Max(S)
      BY DEF LoopInv, CountInv
    <3> HIDE DEF S
    <3> QED BY <3>1, <3>2, MaxOf
  <2>2. S \subseteq Nat /\ f \in Nat /\ f # 0 /\ f \in S
    BY <1>9, OpenFinite, FdsAssumption DEF Fd
  <2>3. {0} \cup OpenIn(fd_table') = S \ {f}
    BY <1>9, <2>2
  <2>4. CASE f < highest_fd
    <3>1. highest_fd' = highest_fd
      BY <2>4, <1>2 DEF fdlist_update_highest_fd
    <3>2. highest_fd \in S \ {f} /\ \A y \in S \ {f} : y <= highest_fd
      BY <2>1, <2>2, <2>4
    <3> HIDE DEF S
    <3>3. Max(S \ {f}) = highest_fd
      BY <2>2, <3>2, MaxIs
    <3> QED BY <2>3, <3>1, <3>3
  <2>5. CASE ~(f < highest_fd)
    <3>1. f = highest_fd
      BY <2>1, <2>2, <2>5
    <3>2. highest_fd' = Max({0} \cup {g \in Fd : g <= highest_fd /\ fd_table'[g].open})
      BY <1>2, <2>2, <3>1 DEF fdlist_update_highest_fd
    <3>3. {g \in Fd : g <= highest_fd /\ fd_table'[g].open} = OpenIn(fd_table')
      <4>1. \A g \in OpenIn(fd_table') : g \in S
        BY <1>9
      <4> QED BY <2>1, <4>1 DEF OpenIn
    <3> QED BY <3>2, <3>3
  <2> QED BY <2>4, <2>5
<1> QED BY <1>7, <1>8, <1>10, <1>11 DEF LoopInv, CountInv

LEMMA SetsKeeps ==
  ASSUME LoopInv, NEW f \in Fd, NEW ways, NEW on \in BOOLEAN, NEW timeout \in Nat, Sets(f, ways, on, timeout),
         UNCHANGED <<mechanism, seconds>>
  PROVE  LoopInv'
<1> DEFINE by == IF on THEN fd_table[f].who ELSE NoOne
<1>0. fd_table[f].open /\ by \in Nat /\ by \in {NoOne, fd_table[f].who}
  <2>1. PICK P : fd_table \in [Fd -> Entry(P)]
    BY DEF LoopInv, TypeInv, IsTable
  <2>2. fd_table[f].who \in Nat
    BY <2>1 DEF Entry
  <2> QED BY <2>2 DEF NoOne, Sets, IsOpen
<1> HIDE DEF by
<1>1. PICK t2, k2, cs2, ps2, os2 :
        /\ comm_setselect(Now, f, ways, by, timeout) = Changed(t2, k2, cs2, ps2, os2)
        /\ IsTable(t2) /\ Selected(t2, f, ways, by, timeout)
  BY <1>0, SetselectTable DEF LoopInv
<1>2. fd_table' = t2 /\ UNCHANGED <<highest_fd, number_fd, opened>>
  <2> DEFINE T(x) == [x EXCEPT !.owed = {y \in @ : y.fd # f \/ (y.way \notin ways /\ mechanism # "poll")}]
  <2>1. T(Changed(t2, k2, cs2, ps2, os2)).table = t2
    BY DEF Changed
  <2>2. fd_table' = T(comm_setselect(Now, f, ways, by, timeout)).table /\ UNCHANGED <<highest_fd, number_fd, opened>>
    BY DEF Sets, SetTo, Same, by
  <2> HIDE DEF T
  <2> QED BY <1>1, <2>1, <2>2
<1>3. OpenIn(fd_table') = OpenIn(fd_table)
  BY <1>1, <1>2 DEF OpenIn, Selected, AlikeAt
<1>4. Owned(fd_table')
  <2> SUFFICES ASSUME NEW g \in Fd PROVE Own(t2[g])
    BY <1>2 DEF Owned
  <2>1. Own(fd_table[g])
    BY DEF LoopInv, Owned
  <2>2. CASE g = f
    <3> DEFINE W == {NoOne, fd_table[f].who}
    <3>1. {fd_table[f].read, fd_table[f].write, fd_table[f].timeout.by, fd_table[f].flush.by} \subseteq W
      BY <2>1, <2>2, <1>0 DEF Own
    <3>2. {t2[f].read, t2[f].write, t2[f].timeout.by, t2[f].flush.by} \subseteq W
      BY <3>1, <1>0, <1>1 DEF Selected
    <3>3. t2[f].open /\ t2[f].who = fd_table[f].who
      BY <1>0, <1>1 DEF Selected
    <3> QED BY <3>2, <3>3, <2>2 DEF Own
  <2>3. CASE g # f
    BY <2>1, <2>3, <1>1 DEF Own, Selected, AlikeAt
  <2> QED BY <2>2, <2>3
<1> QED BY <1>1, <1>2, <1>3, <1>4 DEF LoopInv, TypeInv, CountInv

\* Changes of one timer, or of one handler, of one descriptor.
LEMMA TimerSet ==
  ASSUME LoopInv, NEW f, NEW timer \in Timers, NEW by, NEW at \in Nat,
         f \in Fd => (fd_table[f].open /\ by = fd_table[f].who) \/ by = NoOne,
         fd_table' = [fd_table EXCEPT ![f][timer] = [by |-> by, at |-> at]],
         UNCHANGED <<mechanism, seconds, highest_fd, number_fd, opened>>
  PROVE  LoopInv'
<1>1. PICK P : fd_table \in [Fd -> Entry(P)]
  BY DEF LoopInv, TypeInv, IsTable
<1>2. CASE f \in Fd
  <2>1. fd_table[f] \in Entry(P) /\ Own(fd_table[f])
    BY <1>1, <1>2 DEF LoopInv, Owned
  <2>2. by \in Nat
    BY <1>2, <2>1 DEF Entry, NoOne
  <2> DEFINE e == [fd_table[f] EXCEPT ![timer] = [by |-> by, at |-> at]]
  <2>3. e \in Entry(P) /\ e.open = fd_table[f].open /\ Own(e)
    <3>1. CASE timer = "flush"
      BY <3>1, <2>1, <2>2, <1>2 DEF Entry, Timer, Own
    <3>2. CASE timer = "timeout"
      BY <3>2, <2>1, <2>2, <1>2 DEF Entry, Timer, Own
    <3> QED BY <3>1, <3>2 DEF Timers
  <2>4. fd_table' = [fd_table EXCEPT ![f] = e]
    OBVIOUS
  <2> HIDE DEF e
  <2>5. fd_table' \in [Fd -> Entry(P)] /\ fd_table'[f] = e /\ \A g \in Fd \ {f} : fd_table'[g] = fd_table[g]
    BY <1>1, <1>2, <2>3, <2>4
  <2>6. OpenIn(fd_table') = OpenIn(fd_table) /\ Owned(fd_table')
    BY <1>2, <2>3, <2>5 DEF OpenIn, Owned, LoopInv
  <2> QED BY <2>5, <2>6 DEF LoopInv, TypeInv, IsTable, CountInv
<1>3. CASE f \notin Fd
  <2>1. fd_table' = fd_table
    BY <1>1, <1>3
  <2> QED BY <2>1 DEF LoopInv, TypeInv, CountInv
<1> QED BY <1>2, <1>3

LEMMA HandlerOff ==
  ASSUME LoopInv, NEW f, NEW way \in Way,
         fd_table' = [fd_table EXCEPT ![f][way] = NoOne],
         UNCHANGED <<mechanism, seconds, highest_fd, number_fd, opened>>
  PROVE  LoopInv'
<1>1. PICK P : fd_table \in [Fd -> Entry(P)]
  BY DEF LoopInv, TypeInv, IsTable
<1>2. CASE f \in Fd
  <2>1. fd_table[f] \in Entry(P) /\ Own(fd_table[f])
    BY <1>1, <1>2 DEF LoopInv, Owned
  <2> DEFINE e == [fd_table[f] EXCEPT ![way] = NoOne]
  <2>2. e \in Entry(P) /\ e.open = fd_table[f].open /\ Own(e)
    <3>1. CASE way = "read"
      BY <3>1, <2>1 DEF Entry, Own, NoOne
    <3>2. CASE way = "write"
      BY <3>2, <2>1 DEF Entry, Own, NoOne
    <3> QED BY <3>1, <3>2 DEF Way
  <2>3. fd_table' = [fd_table EXCEPT ![f] = e]
    OBVIOUS
  <2> HIDE DEF e
  <2>4. fd_table' \in [Fd -> Entry(P)] /\ fd_table'[f] = e /\ \A g \in Fd \ {f} : fd_table'[g] = fd_table[g]
    BY <1>1, <1>2, <2>2, <2>3
  <2>5. OpenIn(fd_table') = OpenIn(fd_table) /\ Owned(fd_table')
    BY <1>2, <2>2, <2>4 DEF OpenIn, Owned, LoopInv
  <2> QED BY <2>4, <2>5 DEF LoopInv, TypeInv, IsTable, CountInv
<1>3. CASE f \notin Fd
  <2>1. fd_table' = fd_table
    BY <1>1, <1>3
  <2> QED BY <2>1 DEF LoopInv, TypeInv, CountInv
<1> QED BY <1>2, <1>3

LEMMA LeaveKeeps ==
  ASSUME LoopInv, Leave
  PROVE  LoopInv'
<1>1. UNCHANGED <<mechanism, highest_fd, number_fd, seconds, opened>>
  BY DEF Leave, Quiet_
<1>2. CASE fd_table' = fd_table
  BY <1>1, <1>2 DEF LoopInv, TypeInv, CountInv
<1>3. CASE fd_table' = comm_setselect(Now, sel.fd, {}, NoOne, 0).table
  <2>1. IsTable(fd_table') /\ Alike(fd_table', fd_table)
    <3>1. CASE sel.fd \in Fd
      <4>1. PICK t2, k2, cs2, ps2, os2 :
              /\ comm_setselect(Now, sel.fd, {}, NoOne, 0) = Changed(t2, k2, cs2, ps2, os2)
              /\ IsTable(t2) /\ Selected(t2, sel.fd, {}, NoOne, 0)
        BY <3>1, SetselectTable DEF LoopInv, NoOne
      <4>2. fd_table' = t2
        BY <1>3, <4>1 DEF Changed
      <4>3. Alike(t2, fd_table)
        BY <4>1 DEF Alike, AlikeAt, Selected
      <4> QED BY <4>1, <4>2, <4>3
    <3>2. CASE sel.fd \notin Fd
      <4>1. PICK t2, k2, cs2, ps2, os2 :
              /\ comm_setselect(Now, sel.fd, {}, NoOne, 0) = Changed(t2, k2, cs2, ps2, os2)
              /\ IsTable(t2) /\ Alike(t2, fd_table)
        BY <3>2, SetselectOutside DEF LoopInv
      <4>2. fd_table' = t2
        BY <1>3, <4>1 DEF Changed
      <4> QED BY <4>1, <4>2
    <3> QED BY <3>1, <3>2
  <2> QED BY <1>1, <2>1, AlikeOpen DEF LoopInv, TypeInv, CountInv
<1> QED BY <1>2, <1>3 DEF Leave

-----------------------------------------------------------------------------
(* Theorems *)

LEMMA Begins ==
  ASSUME NEW n \in 0..Fds, LoopInit(n)
  PROVE  LoopInv
<1>0. n \in Nat /\ Fds \in Nat
  BY FdsAssumption
<1> DEFINE opens(f) == [ClosedFd EXCEPT !.open = TRUE, !.who = f]
<1>1. ClosedFd \in Entry({0}) /\ Own(ClosedFd) /\ ~ClosedFd.open
  BY DEF ClosedFd, Entry, Timer, Off, NoOne, Own
<1>2. \A f \in Nat : opens(f) \in Entry({0}) /\ Own(opens(f)) /\ opens(f).open
  BY DEF ClosedFd, Entry, Timer, Off, NoOne, Own
<1>3. fd_table = [f \in Fd |-> IF f <= n THEN opens(f) ELSE ClosedFd]
  BY DEF LoopInit
<1> HIDE DEF opens
<1>4. \A f \in Fd : fd_table[f] \in Entry({0}) /\ Own(fd_table[f]) /\ (fd_table[f].open <=> f <= n)
  BY <1>0, <1>1, <1>2, <1>3 DEF Fd
<1>5. fd_table \in [Fd -> Entry({0})]
  BY <1>3, <1>4
<1>6. OpenIn(fd_table) = 1..n
  BY <1>0, <1>4 DEF OpenIn, Fd
<1>7. Cardinality(1..n) = n
  BY <1>0, FS_Interval
<1>8. Max({0} \cup 1..n) = n
  <2> DEFINE T == {0} \cup 1..n
  <2>1. T \subseteq Nat /\ n \in T /\ \A y \in T : y <= n
    BY <1>0
  <2> HIDE DEF T
  <2> QED BY <2>1, MaxIs DEF T
<1> QED BY <1>0, <1>4, <1>5, <1>6, <1>7, <1>8 DEF LoopInit, LoopInv, TypeInv, IsTable, Owned, CountInv

LEMMA Stays ==
  ASSUME LoopInv, [LoopNext]_loopVars
  PROVE  LoopInv'
<1>1. CASE Move
  <2>0. UNCHANGED <<mechanism, seconds>>
    BY <1>1 DEF Move
  <2>1. CASE fd_open
    BY <2>0, <2>1, OpenKeeps
  <2>2. ASSUME NEW f \in Fd, fd_close(f) PROVE LoopInv'
    BY <2>0, <2>2, CloseKeeps
  <2>3. ASSUME NEW f \in Fd, NEW ways, NEW on \in BOOLEAN, NEW t \in {0, 1}, Sets(f, ways, on, t) PROVE LoopInv'
    BY <2>0, <2>3, SetsKeeps
  <2>4. ASSUME NEW f \in Fd, NEW on \in BOOLEAN, comm_settimeout(f, on, 1) \/ comm_setflush(f, on, 1) PROVE LoopInv'
    <3> DEFINE by == IF on THEN fd_table[f].who ELSE NoOne
    <3>1. /\ fd_table[f].open /\ UNCHANGED <<highest_fd, number_fd, opened>>
          /\ \/ fd_table' = [fd_table EXCEPT ![f].timeout = [by |-> by, at |-> seconds + 1]]
             \/ fd_table' = [fd_table EXCEPT ![f].flush = [by |-> by, at |-> seconds + 1]]
      BY <2>4 DEF comm_settimeout, comm_setflush, IsOpen, Same
    <3>2. by = fd_table[f].who \/ by = NoOne
      OBVIOUS
    <3>3. seconds + 1 \in Nat
      BY DEF LoopInv, TypeInv
    <3> HIDE DEF by
    <3>4. \E timer \in Timers : fd_table' = [fd_table EXCEPT ![f][timer] = [by |-> by, at |-> seconds + 1]]
      BY <3>1 DEF Timers
    <3>5. UNCHANGED <<mechanism, seconds, highest_fd, number_fd, opened>>
      BY <2>0, <3>1
    <3> DEFINE later == seconds + 1
    <3> HIDE DEF later
    <3>6. PICK timer \in Timers : fd_table' = [fd_table EXCEPT ![f][timer] = [by |-> by, at |-> later]]
      BY <3>4 DEF later
    <3>7. later \in Nat
      BY <3>3 DEF later
    <3> QED BY <3>1, <3>2, <3>5, <3>6, <3>7, TimerSet
  <2> QED BY <1>1, <2>1, <2>2, <2>3, <2>4 DEF Move
<1>2. CASE comm_select
  <2>1. UNCHANGED <<mechanism, fd_table, highest_fd, number_fd, opened>> /\ seconds' \in {seconds, seconds + 1}
    BY <1>2 DEF comm_select
  <2> QED BY <2>1 DEF LoopInv, TypeInv, CountInv
<1>3. ASSUME NEW way \in Way, Call(way) PROVE LoopInv'
  <2>1. fd_table' = [fd_table EXCEPT ![sel.fd][way] = NoOne] /\ UNCHANGED <<mechanism, seconds, highest_fd, number_fd, opened>>
    BY <1>3 DEF Call, Quiet_
  <2> QED BY <2>1, HandlerOff
<1>4. CASE Leave
  BY <1>4, LeaveKeeps
<1>5. CASE TimerStep
  <2>1. UNCHANGED <<mechanism, seconds, highest_fd, number_fd, opened>>
    BY <1>5 DEF TimerStep, Quiet_
  <2>2. CASE fd_table' = fd_table
    BY <2>1, <2>2 DEF LoopInv, TypeInv, CountInv
  <2>3. ASSUME NEW timer \in Timers, fd_table' = [fd_table EXCEPT ![sel.fd][timer] = [by |-> NoOne, at |-> seconds]]
        PROVE  LoopInv'
    <3>1. seconds \in Nat
      BY DEF LoopInv, TypeInv
    <3> QED BY <2>1, <2>3, <3>1, TimerSet
  <2> QED BY <1>5, <2>2, <2>3 DEF TimerStep, Timers
<1>6. CASE Take \/ Returns \/ SelectEnds \/ comm_checktimeouts \/ UNCHANGED loopVars
  <2>1. UNCHANGED <<mechanism, fd_table, seconds, highest_fd, number_fd, opened>>
    BY <1>6 DEF Take, Returns, SelectEnds, comm_checktimeouts, Quiet_, loopVars
  <2> QED BY <2>1 DEF LoopInv, TypeInv, CountInv
<1> QED BY <1>1, <1>2, <1>3, <1>4, <1>5, <1>6 DEF LoopNext

THEOREM InvariantHolds == LoopSpec => []LoopInv
<1>1. (\E n \in 0..Fds : LoopInit(n)) => LoopInv
  BY Begins
<1>2. LoopInv /\ [LoopNext]_loopVars => LoopInv'
  BY Stays
<1> QED BY <1>1, <1>2, PTL DEF LoopSpec

\* Whichever way of polling, and whatever handlers do to their own descriptors and others',
\* no handler or timer of one who had the number before is left to the one who has it now
\* (fdlist.c:129, s_bsd.c:318).
THEOREM HandlersOwned == LoopSpec => []OwnHandlers
<1>1. LoopInv => OwnHandlers
  BY DEF LoopInv, Owned, Own, OwnHandlers
<1> QED BY <1>1, InvariantHolds, PTL

\* The number of open descriptors and the highest of them are always what the table says,
\* so that the timers of none are passed over (fdlist.c:76, 110 and 129).
THEOREM DescriptorsCounted == LoopSpec => []FdsCounted
<1>1. LoopInv => FdsCounted
  BY DEF LoopInv, CountInv, OpenIn, FdsCounted, IsOpen
<1> QED BY <1>1, InvariantHolds, PTL

-----------------------------------------------------------------------------
(* The timed events: what holds of Events. *)

\* The list without repetition, in the order of the times.
Ordered(list, times) ==
  \A i, j \in DOMAIN list : i < j => list[i] # list[j] /\ times[list[i]] <= times[list[j]]
Overdue(list, times, t) == {e \in ToSet(list) : times[e] <= t}

EventsTypeInv ==
  /\ clock \in Nat /\ last \in Nat /\ last <= clock
  /\ event_list \in Seq(Event) /\ due \in [Event -> Nat]
  /\ pass \in [left : Nat, in : Event \cup {"none"}]
\* A pass may take as many events as are due.
PassInv == /\ pass # Ready => last = clock
           /\ Cardinality(Overdue(event_list, due, last)) <= pass.left
EventsInv == EventsTypeInv /\ Ordered(event_list, due) /\ PassInv

-----------------------------------------------------------------------------
(* event_delete and event_add. *)

\* The list is the same but for the event that is deleted.
LEMMA Deleted ==
  ASSUME NEW l \in Seq(Event), NEW times, Ordered(l, times), NEW e, NEW r, r = event_delete(l, e)
  PROVE  r \in Seq(Event) /\ Ordered(r, times) /\ ToSet(r) = ToSet(l) \ {e} /\ e \notin ToSet(r)
<1>1. CASE e \notin ToSet(l)
  BY <1>1 DEF event_delete
<1>2. CASE e \in ToSet(l)
  <2> DEFINE i == CHOOSE j \in DOMAIN l : l[j] = e
  <2>1. i \in 1..Len(l) /\ l[i] = e
    BY <1>2 DEF ToSet
  <2>2. r = RemoveAt(l, i)
    BY <1>2 DEF event_delete
  <2> HIDE DEF i
  <2>3. /\ r \in Seq(Event) /\ Len(r) = Len(l) - 1
        /\ \A k \in 1..Len(r) : r[k] = IF k < i THEN l[k] ELSE l[k + 1]
    BY <2>1, <2>2, Removed
  <2> DEFINE at(k) == IF k < i THEN k ELSE k + 1
  <2>4. \A k \in 1..Len(r) : at(k) \in 1..Len(l) /\ at(k) # i /\ r[k] = l[at(k)]
    BY <2>1, <2>3
  <2>5. \A j, k \in 1..Len(r) : j < k => at(j) < at(k)
    BY <2>1
  <2>6. Ordered(r, times)
    <3> HIDE DEF at
    <3>1. DOMAIN r = 1..Len(r) /\ DOMAIN l = 1..Len(l)
      BY <2>3, LenProperties
    <3>2. ASSUME NEW j \in 1..Len(r), NEW k \in 1..Len(r), j < k
          PROVE  r[j] # r[k] /\ times[r[j]] <= times[r[k]]
      <4>1. at(j) \in DOMAIN l /\ at(k) \in DOMAIN l /\ at(j) < at(k) /\ r[j] = l[at(j)] /\ r[k] = l[at(k)]
        BY <2>4, <2>5, <3>1, <3>2
      <4> QED BY <4>1 DEF Ordered
    <3> QED BY <3>1, <3>2 DEF Ordered
  <2>7. \A k \in 1..Len(l) : k # i => \E j \in 1..Len(r) : l[k] = r[j]
    <3> TAKE k \in 1..Len(l)
    <3> HAVE k # i
    <3>1. CASE k < i
      BY <3>1, <2>1, <2>3
    <3>2. CASE k > i
      <4>1. k - 1 \in 1..Len(r) /\ r[k - 1] = l[k]
        BY <3>2, <2>1, <2>3
      <4> QED BY <4>1
    <3> QED BY <3>1, <3>2, <2>1
  <2>8. \A k \in 1..Len(l) : k # i => l[k] # e
    BY <2>1 DEF Ordered
  <2>9. ToSet(r) = ToSet(l) \ {e}
    <3>1. ToSet(r) = {r[k] : k \in 1..Len(r)} /\ ToSet(l) = {l[k] : k \in 1..Len(l)}
      BY <2>3 DEF ToSet
    <3>2. \A k \in 1..Len(r) : r[k] \in ToSet(l) /\ r[k] # e
      <4> HIDE DEF at
      <4> QED BY <3>1, <2>4, <2>8
    <3>3. \A k \in 1..Len(l) : l[k] # e => l[k] \in ToSet(r)
      <4> TAKE k \in 1..Len(l)
      <4> HAVE l[k] # e
      <4>1. k # i
        BY <2>1
      <4>2. PICK j \in 1..Len(r) : l[k] = r[j]
        BY <2>7, <4>1
      <4> QED BY <3>1, <4>2
    <3> QED BY <3>1, <3>2, <3>3
  <2> QED BY <2>3, <2>6, <2>9
<1> QED BY <1>1, <1>2

\* The event gets its place by its time.
WellPlaced(r, l, times, e, t) ==
  r \in Seq(Event) /\ Ordered(r, [times EXCEPT ![e] = t]) /\ ToSet(r) = ToSet(l) \cup {e}
LEMMA PlacedAt ==
  ASSUME NEW l \in Seq(Event), NEW times \in [Event -> Nat], Ordered(l, times), NEW e \in Event, e \notin ToSet(l),
         NEW t \in Nat, NEW r, r = Placed(l, times, e, t)
  PROVE  WellPlaced(r, l, times, e, t)
<1> DEFINE later == {i \in DOMAIN l : times[l[i]] > t}
           n == IF later = {} THEN Len(l) + 1 ELSE CHOOSE i \in later : \A j \in later : i <= j
           u == [times EXCEPT ![e] = t]
<1>0. Len(l) \in Nat /\ DOMAIN l = 1..Len(l) /\ \A k \in 1..Len(l) : l[k] \in Event /\ times[l[k]] \in Nat
  BY LenProperties, ElementOfSeq
<1>1. /\ n \in 1..(Len(l) + 1)
      /\ \A k \in 1..Len(l) : k < n => times[l[k]] <= t
      /\ \A k \in 1..Len(l) : k >= n => times[l[k]] > t
  <2>1. CASE later = {}
    <3>1. n = Len(l) + 1
      BY <2>1
    <3>2. \A k \in 1..Len(l) : ~(times[l[k]] > t)
      BY <2>1, <1>0
    <3> HIDE DEF later, n
    <3> QED BY <3>1, <3>2, <1>0
  <2>2. CASE later # {}
    <3>1. later \subseteq Nat /\ later \subseteq 1..Len(l) /\ \A k \in 1..Len(l) : k \in later <=> times[l[k]] > t
      BY <1>0
    <3>2. \E i \in later : \A j \in later : i <= j
      <4> HIDE DEF later
      <4> QED BY <2>2, <3>1, Least
    <3>3. n \in later /\ \A j \in later : n <= j
      BY <2>2, <3>2
    <3> HIDE DEF n, later
    <3>4. n \in 1..Len(l) /\ times[l[n]] > t /\ n \in Nat
      BY <3>1, <3>3
    <3>5. \A k \in 1..Len(l) : k < n => times[l[k]] <= t
      <4> TAKE k \in 1..Len(l)
      <4> HAVE k < n
      <4>1. k \notin later
        BY <3>3, <3>4
      <4> QED BY <1>0, <3>1, <4>1
    <3>6. \A k \in 1..Len(l) : k > n => times[l[n]] <= times[l[k]]
      BY <1>0, <3>4 DEF Ordered
    <3>7. \A k \in 1..Len(l) : k >= n => times[l[k]] > t
      <4> TAKE k \in 1..Len(l)
      <4> HAVE k >= n
      <4>1. k = n \/ k > n
        BY <3>4
      <4> QED BY <1>0, <3>6, <3>4, <4>1
    <3> QED BY <1>0, <3>4, <3>5, <3>7
  <2> QED BY <2>1, <2>2
<1>2. r = InsertAt(l, n, e)
  BY DEF Placed
<1> HIDE DEF later, n
<1>3. /\ r \in Seq(Event) /\ Len(r) = Len(l) + 1
      /\ \A k \in 1..Len(r) : r[k] = IF k < n THEN l[k] ELSE IF k = n THEN e ELSE l[k - 1]
  <2>1. n \in 1..(Len(l) + 1)
    BY <1>1
  <2>2. r \in Seq(Event) /\ Insertion(r, l, n, e)
    BY <2>1, <1>2, Inserted
  <2> QED BY <2>2 DEF Insertion
<1>4. \A k \in 1..Len(l) : l[k] # e /\ l[k] \in Event /\ u[l[k]] = times[l[k]] /\ times[l[k]] \in Nat
  BY <1>0 DEF ToSet
<1>5. u[e] = t
  OBVIOUS
<1> HIDE DEF u
<1>6. Ordered(r, u)
  <2> SUFFICES ASSUME NEW i \in 1..Len(r), NEW j \in 1..Len(r), i < j
               PROVE  r[i] # r[j] /\ u[r[i]] <= u[r[j]]
    <3>1. DOMAIN r = 1..Len(r)
      <4>1. r \in Seq(Event)
        BY <1>3
      <4> QED BY <4>1, Elements
    <3> QED BY Zenon, <3>1 DEF Ordered
  <2>0. \A a, b \in 1..Len(l) : a < b => l[a] # l[b] /\ times[l[a]] <= times[l[b]]
    BY Zenon, <1>0 DEF Ordered
  <2>1. n \in Nat /\ n >= 1 /\ n <= Len(l) + 1 /\ i \in Nat /\ j \in Nat /\ i < j /\ j <= Len(l) + 1 /\ Len(l) \in Nat
    BY <1>0, <1>1, <1>3
  <2>2. CASE i < n /\ j < n
    <3>1. i \in 1..Len(l) /\ j \in 1..Len(l)
      BY <2>1, <2>2
    <3>2. r[i] = l[i] /\ r[j] = l[j]
      BY <2>2, <1>3
    <3> QED BY <2>0, <3>1, <3>2, <1>4
  <2>3. CASE i < n /\ j = n
    BY <2>3, <1>0, <1>1, <1>3, <1>4, <1>5
  <2>4. CASE i < n /\ j > n
    <3>1. i \in 1..Len(l) /\ j - 1 \in 1..Len(l) /\ i <= j - 1 /\ i < n /\ ~(j < n) /\ j # n /\ j - 1 >= n
      BY <2>4, <2>1
    <3>2. r[i] = l[i] /\ r[j] = l[j - 1]
      BY <3>1, <1>3
    <3>3. i < j - 1
      BY <3>1, <2>1
    <3> QED BY <2>0, <3>1, <3>2, <3>3, <1>4
  <2>5. CASE i = n
    <3>1. j - 1 \in 1..Len(l) /\ j - 1 >= n /\ ~(j < n) /\ j # n
      BY <2>5, <2>1
    <3>2. r[i] = e /\ r[j] = l[j - 1]
      BY <2>5, <3>1, <1>3
    <3>3. times[l[j - 1]] > t
      BY <3>1, <1>1
    <3>4. u[l[j - 1]] \in Nat /\ u[l[j - 1]] > t /\ l[j - 1] # e
      BY <3>1, <3>3, <1>4
    <3> QED BY <3>2, <3>4, <1>5
  <2>6. CASE i > n
    <3>1. /\ i - 1 \in 1..Len(l) /\ j - 1 \in 1..Len(l) /\ i - 1 < j - 1
          /\ ~(i < n) /\ i # n /\ ~(j < n) /\ j # n
      BY <2>6, <2>1
    <3>2. r[i] = l[i - 1] /\ r[j] = l[j - 1]
      BY <3>1, <1>3
    <3> QED BY <2>0, <3>1, <3>2, <1>4
  <2> QED BY <2>2, <2>3, <2>4, <2>5, <2>6, <2>1
<1>7. ToSet(r) = ToSet(l) \cup {e}
  <2>1. ToSet(r) = {r[k] : k \in 1..Len(r)} /\ ToSet(l) = {l[k] : k \in 1..Len(l)}
    <3>1. ToSet(r) = {r[k] : k \in DOMAIN r} /\ DOMAIN r = 1..Len(r)
      <4>1. r \in Seq(Event)
        BY <1>3
      <4> QED BY <4>1, Elements
    <3>2. ToSet(l) = {l[k] : k \in DOMAIN l} /\ DOMAIN l = 1..Len(l)
      BY Elements
    <3> QED BY <3>1, <3>2
  <2>2. \A k \in 1..Len(l) : \E j \in 1..Len(r) : r[j] = l[k]
    <3> TAKE k \in 1..Len(l)
    <3>1. CASE k < n
      <4>1. k \in 1..Len(r)
        BY <1>0, <1>3
      <4> QED BY <3>1, <4>1, <1>3
    <3>2. CASE k >= n
      <4>1. k + 1 \in 1..Len(r) /\ ~(k + 1 < n) /\ k + 1 # n /\ (k + 1) - 1 = k
        BY <3>2, <1>0, <1>1, <1>3
      <4>2. r[k + 1] = l[k]
        BY <4>1, <1>3
      <4> QED BY <4>1, <4>2
    <3> QED BY <3>1, <3>2, <1>1
  <2>3. n \in 1..Len(r) /\ r[n] = e
    BY <1>0, <1>1, <1>3
  <2>4. \A k \in 1..Len(r) : r[k] = e \/ \E j \in 1..Len(l) : r[k] = l[j]
    <3> TAKE k \in 1..Len(r)
    <3>1. CASE k < n
      BY <3>1, <1>0, <1>1, <1>3
    <3>2. CASE k > n
      <4>1. k - 1 \in 1..Len(l) /\ r[k] = l[k - 1]
        BY <3>2, <1>0, <1>1, <1>3
      <4> QED BY <4>1
    <3> QED BY <3>1, <3>2, <1>1, <2>3
  <2>5. \A x \in ToSet(l) : x \in ToSet(r)
    BY <2>1, <2>2
  <2>6. e \in ToSet(r)
    BY <2>1, <2>3
  <2>7. \A x \in ToSet(r) : x \in ToSet(l) \cup {e}
    BY <2>1, <2>4
  <2> QED BY <2>5, <2>6, <2>7
<1> QED BY <1>3, <1>6, <1>7 DEF u, WellPlaced

\* An event is taken off and put where its new time belongs.
LEMMA Added ==
  ASSUME EventsTypeInv, Ordered(event_list, due), NEW e \in Event, event_add(e)
  PROVE  /\ event_list' \in Seq(Event) /\ due' \in [Event -> Nat] /\ Ordered(event_list', due')
         /\ ToSet(event_list') = ToSet(event_list) \cup {e}
         /\ \A o \in Event : due'[o] = IF o = e THEN clock + When[e] ELSE due[o]
<1> DEFINE l == event_delete(event_list, e)
           t == clock + When[e]
<1>1. /\ l \in Seq(Event) /\ Ordered(l, due) /\ ToSet(l) = ToSet(event_list) \ {e} /\ e \notin ToSet(l)
  BY Deleted DEF EventsTypeInv
<1>2. t \in Nat /\ due \in [Event -> Nat]
  BY WhenAssumption DEF EventsTypeInv
<1>3. event_list' = Placed(l, due, e, t) /\ due' = [due EXCEPT ![e] = t]
  BY DEF event_add
<1> HIDE DEF l, t
<1>4. /\ event_list' \in Seq(Event) /\ Ordered(event_list', [due EXCEPT ![e] = t])
      /\ ToSet(event_list') = ToSet(l) \cup {e}
  <2>1. WellPlaced(event_list', l, due, e, t)
    BY <1>1, <1>2, <1>3, PlacedAt
  <2> QED BY <2>1 DEF WellPlaced
<1>5. ToSet(event_list') = ToSet(event_list) \cup {e}
  BY <1>1, <1>4
<1> QED BY <1>2, <1>3, <1>4, <1>5 DEF t

\* What is due is no more than what is on the list, and fewer events, or later times, leave less of it.
LEMMA Fewer ==
  ASSUME NEW l \in Seq(Event), NEW times, NEW t, NEW m, NEW u, NEW s,
         Overdue(m, u, s) \subseteq Overdue(l, times, t)
  PROVE  /\ IsFiniteSet(Overdue(l, times, t)) /\ Cardinality(Overdue(l, times, t)) \in Nat
         /\ Cardinality(Overdue(l, times, t)) <= Len(l)
         /\ Cardinality(Overdue(m, u, s)) \in Nat
         /\ Cardinality(Overdue(m, u, s)) <= Cardinality(Overdue(l, times, t))
<1> DEFINE A == Overdue(l, times, t)
           B == Overdue(m, u, s)
<1>1. A \subseteq ToSet(l)
  BY DEF Overdue
<1>2. Len(l) \in Nat
  BY LenProperties
<1> HIDE DEF A, B
<1>3. IsFiniteSet(ToSet(l)) /\ Cardinality(ToSet(l)) <= Len(l) /\ Cardinality(ToSet(l)) \in Nat
  BY FewElements
<1>4. IsFiniteSet(A) /\ Cardinality(A) <= Cardinality(ToSet(l)) /\ Cardinality(A) \in Nat
  BY <1>1, <1>3, FS_Subset, FS_CardinalityType
<1>5. B \subseteq A
  BY DEF A, B
<1>6. IsFiniteSet(B) /\ Cardinality(B) <= Cardinality(A) /\ Cardinality(B) \in Nat
  BY <1>4, <1>5, FS_Subset, FS_CardinalityType
<1> QED BY <1>2, <1>3, <1>4, <1>6 DEF A, B

-----------------------------------------------------------------------------
(* The operations. *)

LEMMA Idle ==
  ASSUME EventsInv, UNCHANGED <<event_list, due, last>>, clock' \in Nat, clock <= clock',
         pass' \in [left : Nat, in : Event \cup {"none"}], pass.left <= pass'.left,
         pass' # Ready => pass # Ready /\ clock' = clock
  PROVE  EventsInv'
<1>1. EventsTypeInv' /\ Ordered(event_list, due)'
  BY DEF EventsInv, EventsTypeInv, Ordered
<1>2. PassInv'
  <2>1. Overdue(event_list, due, last)' = Overdue(event_list, due, last)
    BY DEF Overdue
  <2>2. Cardinality(Overdue(event_list, due, last)) \in Nat
    BY Fewer DEF EventsInv, EventsTypeInv
  <2>3. pass.left \in Nat /\ pass'.left \in Nat
    BY DEF EventsInv, EventsTypeInv
  <2>4. Cardinality(Overdue(event_list, due, last)') <= pass'.left
    BY <2>1, <2>2, <2>3 DEF EventsInv, PassInv
  <2> QED BY <2>4 DEF EventsInv, PassInv
<1> QED BY <1>1, <1>2 DEF EventsInv

LEMMA TimeStep == EventsInv /\ event_time_set => EventsInv'
<1> SUFFICES ASSUME EventsInv, event_time_set PROVE EventsInv'
  OBVIOUS
<1>1. clock' \in Nat /\ clock <= clock' /\ pass' = pass /\ pass = Ready /\ pass.left <= pass'.left
  BY DEF EventsInv, EventsTypeInv, event_time_set, Ready
<1> QED BY <1>1, Idle DEF event_time_set, EventsInv, EventsTypeInv

\* A pass may take all there is.
LEMMA RunStep == EventsInv /\ event_run => EventsInv'
<1> SUFFICES ASSUME EventsInv, event_run PROVE EventsInv'
  OBVIOUS
<1> USE DEF EventsInv, EventsTypeInv
<1>1. Len(event_list) \in Nat
  BY LenProperties
<1>2. EventsTypeInv' /\ Ordered(event_list, due)'
  BY <1>1 DEF event_run, Ordered
<1>3. Cardinality(Overdue(event_list, due, clock)) <= Len(event_list)
  BY Fewer
<1>4. pass'.left = Len(event_list) /\ last' = clock /\ clock' = clock /\ event_list' = event_list /\ due' = due
  BY DEF event_run
<1>5. Overdue(event_list, due, last)' = Overdue(event_list, due, clock)
  BY <1>4 DEF Overdue
<1>6. PassInv'
  BY <1>3, <1>4, <1>5 DEF PassInv
<1> QED BY <1>2, <1>6

\* What is not overdue when an event is added by the clock is not afterwards.
LEMMA AddStep ==
  ASSUME EventsInv, NEW e \in Event, event_add(e), UNCHANGED <<clock, last>>,
         pass' \in [left : Nat, in : Event \cup {"none"}], pass'.left = pass.left,
         pass' # Ready => pass # Ready
  PROVE  EventsInv'
<1>1. /\ event_list' \in Seq(Event) /\ due' \in [Event -> Nat] /\ Ordered(event_list', due')
      /\ ToSet(event_list') = ToSet(event_list) \cup {e}
      /\ \A o \in Event : due'[o] = IF o = e THEN clock + When[e] ELSE due[o]
  BY Added DEF EventsInv
<1>2. EventsTypeInv' /\ Ordered(event_list, due)'
  BY <1>1 DEF EventsInv, EventsTypeInv
<1>3. clock + When[e] \in Nat /\ clock + When[e] > last
  BY WhenAssumption DEF EventsInv, EventsTypeInv
<1>4. last \in Nat /\ event_list \in Seq(Event) /\ ToSet(event_list') \subseteq Event
  <2>1. \A k \in 1..Len(event_list') : event_list'[k] \in Event
    BY <1>1, ElementOfSeq
  <2>2. DOMAIN (event_list') = 1..Len(event_list')
    BY <1>1, LenProperties
  <2> QED BY <2>1, <2>2 DEF EventsInv, EventsTypeInv, ToSet
<1>5. Overdue(event_list', due', last) \subseteq Overdue(event_list, due, last)
  <2> SUFFICES ASSUME NEW o \in ToSet(event_list'), due'[o] <= last
               PROVE  o \in ToSet(event_list) /\ due[o] <= last
    BY DEF Overdue
  <2>1. o \in Event
    BY <1>4
  <2>2. o # e
    BY <1>1, <1>3, <1>4, <2>1
  <2> QED BY <1>1, <2>1, <2>2
<1>6. /\ Cardinality(Overdue(event_list, due, last)) \in Nat
      /\ Cardinality(Overdue(event_list', due', last)) \in Nat
      /\ Cardinality(Overdue(event_list', due', last)) <= Cardinality(Overdue(event_list, due, last))
  BY <1>4, <1>5, Fewer
<1>7. Cardinality(Overdue(event_list, due, last)) <= pass.left /\ pass.left \in Nat
  BY DEF EventsInv, PassInv, EventsTypeInv
<1>8. Cardinality(Overdue(event_list', due', last)) <= pass'.left
  BY <1>6, <1>7
<1>9. PassInv'
  BY <1>8 DEF EventsInv, PassInv
<1> QED BY <1>2, <1>9 DEF EventsInv

\* An event is deleted; if it was the first and due, the pass may take one less.
LEMMA DeleteStep ==
  ASSUME EventsInv, NEW e, event_list' = event_delete(event_list, e), UNCHANGED <<clock, last, due>>,
         pass' \in [left : Nat, in : Event \cup {"none"}], pass' # Ready => pass # Ready,
         \/ pass'.left = pass.left
         \/ pass'.left = pass.left - 1 /\ e \in Overdue(event_list, due, last)
  PROVE  EventsInv'
<1>1. event_list' \in Seq(Event) /\ Ordered(event_list', due) /\ ToSet(event_list') = ToSet(event_list) \ {e}
  BY Deleted DEF EventsInv, EventsTypeInv
<1>2. EventsTypeInv' /\ Ordered(event_list, due)'
  BY <1>1 DEF EventsInv, EventsTypeInv
<1> DEFINE A == Overdue(event_list, due, last)
           B == Overdue(event_list, due, last)'
<1>3. B = A \ {e}
  BY <1>1 DEF Overdue
<1>4. B \subseteq A
  BY <1>3
<1>5. IsFiniteSet(A) /\ Cardinality(A) \in Nat /\ Cardinality(B) \in Nat /\ Cardinality(B) <= Cardinality(A)
  <2>1. Overdue(event_list', due', last') \subseteq Overdue(event_list, due, last)
    BY <1>4
  <2> QED BY <2>1, Fewer DEF EventsInv, EventsTypeInv
<1> HIDE DEF A, B
<1>6. e \in A => Cardinality(B) = Cardinality(A) - 1
  BY <1>3, <1>5, FS_RemoveElement
<1>7. Cardinality(A) <= pass.left /\ pass.left \in Nat /\ pass'.left \in Nat
  BY DEF EventsInv, PassInv, EventsTypeInv, A
<1>8. Cardinality(B) <= pass'.left
  BY <1>5, <1>6, <1>7 DEF A
<1>9. PassInv'
  BY <1>8 DEF EventsInv, PassInv, B
<1> QED BY <1>2, <1>9 DEF EventsInv

\* The first is the next that is due: if it is not due, nothing is.
LEMMA RunOneStep == EventsInv /\ RunOne => EventsInv'
<1> SUFFICES ASSUME EventsInv, RunOne PROVE EventsInv'
  OBVIOUS
<1> DEFINE e == Head(event_list)
<1>1. /\ pass.left \in Nat /\ pass.left > 0 /\ pass # Ready /\ last = clock /\ clock \in Nat
      /\ event_list \in Seq(Event) /\ event_list # <<>> /\ due \in [Event -> Nat]
  BY DEF RunOne, EventsInv, EventsTypeInv, PassInv, Ready
<1>2. /\ Len(event_list) \in Nat \ {0} /\ DOMAIN event_list = 1..Len(event_list)
      /\ e = event_list[1] /\ e \in Event
  <2>1. Len(event_list) \in Nat \ {0} /\ DOMAIN event_list = 1..Len(event_list)
    BY <1>1, EmptySeq, LenProperties
  <2>2. event_list[1] \in Event
    BY <1>1, <2>1, ElementOfSeq
  <2> QED BY <1>1, <2>1, <2>2
<1>3. e \in ToSet(event_list)
  BY <1>2 DEF ToSet
<1> HIDE DEF e
<1>4. CASE due[e] > clock
  <2>1. pass' = Ready /\ UNCHANGED <<clock, event_list, due, last>>
    BY <1>4 DEF RunOne, e
  <2>2. \A k \in 1..Len(event_list) : due[e] <= due[event_list[k]]
    <3> TAKE k \in 1..Len(event_list)
    <3>1. CASE k = 1
      BY <1>1, <1>2, <3>1
    <3>2. CASE k # 1
      <4>1. 1 \in DOMAIN event_list /\ k \in DOMAIN event_list /\ 1 < k
        BY <1>2, <3>2
      <4> QED BY <1>2, <4>1 DEF EventsInv, Ordered
    <3> QED BY <3>1, <3>2
  <2>3. \A k \in 1..Len(event_list) : ~ (due[event_list[k]] <= last)
    <3> TAKE k \in 1..Len(event_list)
    <3>1. event_list[k] \in Event
      BY <1>1, ElementOfSeq
    <3>2. due[event_list[k]] \in Nat /\ due[e] \in Nat /\ due[e] <= due[event_list[k]]
      BY <1>1, <1>2, <2>2, <3>1
    <3> QED BY <1>1, <1>4, <3>2
  <2>4. Overdue(event_list, due, last)' = {}
    <3>1. \A o \in ToSet(event_list) : ~ (due[o] <= last)
      BY <1>2, <2>3 DEF ToSet
    <3> QED BY <2>1, <3>1 DEF Overdue
  <2>5. Cardinality(Overdue(event_list, due, last)') = 0
    BY <2>4, FS_EmptySet
  <2>6. pass' \in [left : Nat, in : Event \cup {"none"}] /\ pass'.left = 0
    BY <2>1 DEF Ready
  <2>7. EventsTypeInv' /\ Ordered(event_list, due)'
    BY <2>1, <2>6 DEF EventsInv, EventsTypeInv, Ordered
  <2>8. PassInv'
    BY <2>1, <2>5, <2>6 DEF PassInv
  <2> QED BY <2>7, <2>8 DEF EventsInv
<1>5. CASE ~ (due[e] > clock)
  <2>1. /\ event_list' = event_delete(event_list, e) /\ UNCHANGED <<clock, due, last>>
        /\ pass' = [left |-> pass.left - 1, in |-> e]
    BY <1>5 DEF RunOne, e
  <2>2. pass' \in [left : Nat, in : Event \cup {"none"}] /\ pass'.left = pass.left - 1
    BY <1>1, <1>2, <2>1
  <2>3. due[e] <= last
    <3>1. due[e] \in Nat
      BY <1>1, <1>2
    <3> QED BY <1>1, <1>5, <3>1
  <2>4. e \in Overdue(event_list, due, last)
    BY <1>3, <2>3 DEF Overdue
  <2> QED BY <1>1, <2>1, <2>2, <2>4, DeleteStep
<1> QED BY <1>4, <1>5

LEMMA HandlerStep == EventsInv /\ HandlerEnds => EventsInv'
<1> SUFFICES ASSUME EventsInv, HandlerEnds PROVE EventsInv'
  OBVIOUS
<1>1. /\ pass.in \in Event /\ pass # Ready /\ pass.left \in Nat /\ clock \in Nat
      /\ pass' \in [left : Nat, in : Event \cup {"none"}] /\ pass'.left = pass.left
  BY DEF HandlerEnds, EventsInv, EventsTypeInv, Ready
<1>2. CASE pass.in \in OneShot
  BY <1>1, <1>2, Idle DEF HandlerEnds
<1>3. CASE pass.in \notin OneShot
  <2>1. event_add(pass.in) /\ UNCHANGED <<clock, last>>
    BY <1>3 DEF HandlerEnds
  <2> QED BY <1>1, <2>1, AddStep
<1> QED BY <1>2, <1>3

LEMMA TouchStep == \A e \in Event, add \in BOOLEAN : EventsInv /\ Touch(e, add) => EventsInv'
<1> SUFFICES ASSUME EventsInv, NEW e \in Event, NEW add \in BOOLEAN, Touch(e, add) PROVE EventsInv'
  OBVIOUS
<1>1. /\ pass' = pass /\ pass \in [left : Nat, in : Event \cup {"none"}] /\ pass'.left = pass.left
      /\ UNCHANGED <<clock, last>>
  BY DEF Touch, EventsInv, EventsTypeInv
<1>2. CASE add
  <2>1. event_add(e)
    BY <1>2 DEF Touch
  <2> QED BY <1>1, <2>1, AddStep
<1>3. CASE ~ add
  <2>1. event_list' = event_delete(event_list, e) /\ UNCHANGED due
    BY <1>3 DEF Touch
  <2> QED BY <1>1, <2>1, DeleteStep
<1> QED BY <1>2, <1>3

LEMMA EndStep == EventsInv /\ PassEnds => EventsInv'
<1> SUFFICES ASSUME EventsInv, PassEnds PROVE EventsInv'
  OBVIOUS
<1>1. pass' = Ready /\ pass'.left = 0 /\ pass' \in [left : Nat, in : Event \cup {"none"}]
      /\ UNCHANGED <<clock, event_list, due, last>>
  BY DEF PassEnds, Ready
<1>2. CASE pass.left = 0
  BY <1>1, <1>2, Idle DEF EventsInv, EventsTypeInv
<1>3. CASE event_list = <<>>
  <2>1. Overdue(event_list, due, last)' = {}
    BY <1>1, <1>3 DEF Overdue, ToSet
  <2>2. Cardinality(Overdue(event_list, due, last)') = 0
    BY <2>1, FS_EmptySet
  <2>3. EventsTypeInv' /\ Ordered(event_list, due)'
    BY <1>1 DEF EventsInv, EventsTypeInv, Ordered
  <2>4. PassInv'
    BY <1>1, <2>2 DEF PassInv
  <2> QED BY <2>3, <2>4 DEF EventsInv
<1> QED BY <1>2, <1>3 DEF PassEnds

-----------------------------------------------------------------------------
(* The theorems. *)

\* The list stays in the order of the times and a pass can always still take as many events
\* as are overdue, whatever the handlers do (event.c:95).
THEOREM EventsInvariance == EventsSpec => []EventsInv
<1>1. EventsInit => EventsInv
  <2> SUFFICES ASSUME EventsInit PROVE EventsInv
    OBVIOUS
  <2>1. EventsTypeInv
    BY DEF EventsInit, EventsTypeInv, Ready
  <2>2. Ordered(event_list, due) /\ Overdue(event_list, due, last) = {}
    BY DEF EventsInit, Ordered, Overdue, ToSet
  <2>3. PassInv
    BY <2>2, FS_EmptySet DEF EventsInit, PassInv, Ready
  <2> QED BY <2>1, <2>2, <2>3 DEF EventsInv
<1>2. EventsInv /\ [EventsNext]_eventsVars => EventsInv'
  <2> SUFFICES ASSUME EventsInv, [EventsNext]_eventsVars PROVE EventsInv'
    OBVIOUS
  <2>1. CASE UNCHANGED eventsVars
    BY <2>1, Idle DEF eventsVars, EventsInv, EventsTypeInv
  <2> QED BY <2>1, TimeStep, RunStep, RunOneStep, HandlerStep, TouchStep, EndStep DEF EventsNext
<1> QED BY <1>1, <1>2, PTL DEF EventsSpec

\* After a pass nothing that was due is left, and each event is on the list once, in its
\* place: one that is added during the pass is due later (event.c:95 and 47).
THEOREM EventsRunAlways == EventsSpec => []EventsRun
<1>1. EventsInv => EventsRun
  <2> SUFFICES ASSUME EventsInv PROVE EventsRun
    OBVIOUS
  <2>1. ASSUME pass = Ready, NEW e \in ToSet(event_list) PROVE due[e] > last
    <3>1. event_list \in Seq(Event) /\ last \in Nat /\ due \in [Event -> Nat]
      BY DEF EventsInv, EventsTypeInv
    <3>2. IsFiniteSet(Overdue(event_list, due, last)) /\ Cardinality(Overdue(event_list, due, last)) \in Nat
      BY <3>1, Fewer
    <3>3. Cardinality(Overdue(event_list, due, last)) = 0
      BY <2>1, <3>2 DEF EventsInv, PassInv, Ready
    <3>4. e \notin Overdue(event_list, due, last)
      BY <3>2, <3>3, FS_EmptySet
    <3>5. e \in Event
      <4>1. PICK k \in DOMAIN event_list : e = event_list[k]
        BY DEF ToSet
      <4> QED BY <3>1, <4>1, LenProperties, ElementOfSeq
    <3>6. due[e] \in Nat /\ ~ (due[e] <= last)
      BY <3>1, <3>4, <3>5 DEF Overdue
    <3> QED BY <3>1, <3>6
  <2> QED BY <2>1 DEF EventsInv, Ordered, EventsRun
<1> QED BY <1>1, EventsInvariance, PTL
=============================================================================
