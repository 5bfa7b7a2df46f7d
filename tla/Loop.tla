-------------------------------- MODULE Loop ---------------------------------
(***************************************************************************)
(* File descriptors, and the loop that waits for them: fdlist.c, the timers *)
(* of s_bsd.c, and comm_select with each of the four ways of polling, which  *)
(* differ in how the kernel is told what is wanted of a descriptor.  The     *)
(* table has one handler each for reading, writing, a timeout and a flush;  *)
(* a handler may open and close descriptors and set handlers, its own and   *)
(* others'.  Numbers are used again, the lowest first.                      *)
(***************************************************************************)
EXTENDS Naturals, FiniteSets, SequencesExt, FiniteSetsExt

CONSTANTS
  Fds,           \* how many descriptors there may be: hard_fdlimit
  Pending,       \* KE_LENGTH
  MaxMoves, MaxSeconds   \* bounds: what handlers and others do, and the clock

ASSUME FdsAssumption == Fds \in Nat

Fd == 1..Fds
Way == {"read", "write"}
NoOne == 0        \* no handler; others are named for whom the descriptor was opened

VARIABLES
  mechanism,     \* epoll, poll, kqueue or devpoll
  fd_table,
  highest_fd, number_fd,
  kernel,        \* what the kernel waits for
  kq_fdlist,     \* kqueue: changes it has not been told of
  pollfds,       \* poll: fd, events and revents, one entry for each descriptor with a handler
  sel,           \* the pass under way
  seconds, checked,      \* the clock, and the second comm_checktimeouts last ran in
  opened, moves
loopVars == <<mechanism, fd_table, highest_fd, number_fd, kernel, kq_fdlist, pollfds, sel, seconds, checked, opened, moves>>

Off == [by |-> NoOne, at |-> 0]
ClosedFd == [open |-> FALSE, who |-> NoOne, read |-> NoOne, write |-> NoOne, evcache |-> {}, comm_index |-> 0,
             timeout |-> Off, flush |-> Off]
NoPass == [doing |-> "none", rest |-> <<>>, at |-> 0, num |-> 0, fd |-> 0, what |-> {}, in |-> "none", owed |-> {}]
IsOpen(f) == fd_table[f].open
Wants(e) == {w \in Way : e[w] # NoOne}

\* What comm_setselect and its callers change, as one value.
Now == [table |-> fd_table, kernel |-> kernel, changes |-> kq_fdlist, polls |-> pollfds, owed |-> sel.owed]
SetTo(s) == /\ fd_table' = s.table /\ kernel' = s.kernel /\ kq_fdlist' = s.changes /\ pollfds' = s.polls
              /\ sel' = [sel EXCEPT !.owed = s.owed]

-----------------------------------------------------------------------------
(* comm_setselect: the handlers, and telling the kernel. *)

epoll_ctl(s, f, new) == [s EXCEPT !.kernel[f] = new]
devpoll_write_update(s, f, new) == [s EXCEPT !.kernel[f] = new]

\* The entry goes, and the last takes its place; one that is changed has nothing to report.
poll_update(s, f, new) ==
  LET i == s.table[f].comm_index
      n == Len(s.polls)
      last == s.polls[n]
  IN IF new = {}
     THEN [s EXCEPT !.polls = SubSeq(IF i # n THEN [@ EXCEPT ![i] = last] ELSE @, 1, n - 1),
                    !.table = [[@ EXCEPT ![last.fd].comm_index = i] EXCEPT ![f].comm_index = 0],
                    !.owed = IF i < sel.at THEN {x \in @ : x.fd # last.fd} ELSE @]
     ELSE IF s.table[f].evcache = {}
     THEN [s EXCEPT !.polls = Append(@, [fd |-> f, events |-> new, revents |-> {}]), !.table[f].comm_index = n + 1]
     ELSE [s EXCEPT !.polls[i] = [fd |-> f, events |-> new, revents |-> {}]]

\* A change for a descriptor that is closed fails.
Learnt(table, k, cs) ==
  FoldLeft(LAMBDA w, c : [w EXCEPT ![c.fd] = IF ~table[c.fd].open THEN {} ELSE IF c.add THEN @ \cup {c.way} ELSE @ \ {c.way}], k, cs)
\* Changes are gathered until there is room for no more.
kq_update_events(s, f, way, add) ==
  LET cs == Append(s.changes, [fd |-> f, way |-> way, add |-> add])
  IN IF Len(cs) = Pending THEN [s EXCEPT !.kernel = Learnt(s.table, @, cs), !.changes = <<>>] ELSE [s EXCEPT !.changes = cs]
kqueue_update(s, f, new) ==
  LET diff(w) == (w \in new) # (w \in s.table[f].evcache)
      r == IF diff("read") THEN kq_update_events(s, f, "read", "read" \in new) ELSE s
  IN IF diff("write") THEN kq_update_events(r, f, "write", "write" \in new) ELSE r

Update(s, f, new) ==
  CASE mechanism = "epoll"   -> epoll_ctl(s, f, new)
    [] mechanism = "poll"    -> poll_update(s, f, new)
    [] mechanism = "kqueue"  -> kqueue_update(s, f, new)
    [] mechanism = "devpoll" -> devpoll_write_update(s, f, new)
comm_setselect(s, f, ways, by, timeout) ==
  LET e == [s.table[f] EXCEPT !.read  = IF "read" \in ways THEN by ELSE @,
                              !.write = IF "write" \in ways THEN by ELSE @,
                              !.timeout = IF timeout > 0 THEN [by |-> by, at |-> seconds + timeout] ELSE @]
      t == [s EXCEPT !.table[f] = e]
      u == IF Wants(e) = e.evcache THEN t ELSE Update(t, f, Wants(e))
  IN [u EXCEPT !.table[f].evcache = Wants(e)]

-----------------------------------------------------------------------------
(* Opening and closing. *)

fdlist_update_highest_fd(table, f) ==
  IF f < highest_fd THEN highest_fd
  ELSE IF f > highest_fd THEN f
  ELSE Max({0} \cup {g \in Fd : g <= highest_fd /\ table[g].open})

\* Of what the table had for the number before, nothing is left (fd_close).
fd_open ==
  LET f == Min({g \in Fd : ~IsOpen(g)})
  IN /\ number_fd < Fds
     /\ fd_table' = [fd_table EXCEPT ![f] = [@ EXCEPT !.open = TRUE, !.who = opened + 1, !.comm_index = 0]]
     /\ highest_fd' = fdlist_update_highest_fd(fd_table', f)
     /\ number_fd' = number_fd + 1 /\ opened' = opened + 1
     /\ UNCHANGED <<kernel, kq_fdlist, pollfds, sel>>

\* Mutation: the table keeps what it had, but for its handlers of reading and writing.
fd_close_kept(f) ==
  LET s == comm_setselect(Now, f, Way, NoOne, 0)
      t == [s EXCEPT !.table[f].open = FALSE, !.kernel[f] = {}, !.owed = {x \in @ : x.fd # f}]
  IN /\ IsOpen(f) /\ SetTo(t)
     /\ highest_fd' = fdlist_update_highest_fd(t.table, f) /\ number_fd' = number_fd - 1 /\ UNCHANGED opened
\* The kernel forgets a descriptor that is closed.
fd_close(f) ==
  LET s == comm_setselect(Now, f, Way, NoOne, 0)
      t == [s EXCEPT !.table[f] = ClosedFd, !.kernel[f] = {}, !.owed = {x \in @ : x.fd # f}]
  IN /\ IsOpen(f) /\ SetTo(t)
     /\ highest_fd' = fdlist_update_highest_fd(t.table, f) /\ number_fd' = number_fd - 1 /\ UNCHANGED opened

-----------------------------------------------------------------------------
(* What the program does, in a handler or between passes. *)

Same == UNCHANGED <<highest_fd, number_fd, opened>>
\* What was reported in one direction stands when the other is changed, but for poll.
Sets(f, ways, on, timeout) ==
  LET s == comm_setselect(Now, f, ways, IF on THEN fd_table[f].who ELSE NoOne, timeout)
  IN /\ IsOpen(f) /\ Same
     /\ SetTo([s EXCEPT !.owed = {x \in @ : x.fd # f \/ (x.way \notin ways /\ mechanism # "poll")}])
comm_settimeout(f, on, t) ==
  /\ IsOpen(f) /\ fd_table' = [fd_table EXCEPT ![f].timeout = [by |-> IF on THEN fd_table[f].who ELSE NoOne, at |-> seconds + t]]
  /\ UNCHANGED <<kernel, kq_fdlist, pollfds, sel>> /\ Same
comm_setflush(f, on, t) ==
  /\ IsOpen(f) /\ fd_table' = [fd_table EXCEPT ![f].flush = [by |-> IF on THEN fd_table[f].who ELSE NoOne, at |-> seconds + t]]
  /\ UNCHANGED <<kernel, kq_fdlist, pollfds, sel>> /\ Same

Move ==
  /\ sel.doing = "none" \/ sel.in # "none"
  /\ moves < MaxMoves /\ moves' = moves + 1 /\ UNCHANGED <<mechanism, seconds, checked>>
  /\ \/ fd_open
     \/ \E f \in Fd : \/ fd_close(f)
                      \/ \E ways \in (SUBSET Way) \ {{}}, on \in BOOLEAN : Sets(f, ways, on, 0)
                      \/ Sets(f, {"read"}, TRUE, 1)
                      \/ \E on \in BOOLEAN : comm_settimeout(f, on, 1) \/ comm_setflush(f, on, 1)

-----------------------------------------------------------------------------
(* A pass over what is ready. *)

\* What a kernel may say of each descriptor; one that failed is ready for all.
Reports(waits) ==
  {got \in [Fd -> SUBSET Way] : \A f \in Fd :
     \/ got[f] \subseteq waits[f]
     \/ waits[f] # {} /\ got[f] = Way /\ mechanism \in {"epoll", "poll"}}
Reported(got) ==
  LET fs == SetToSortSeq({f \in Fd : got[f] # {}}, <)
      Says(f, ways) == [fd |-> f, what |-> ways]
      Each_(f) == IF mechanism # "kqueue" THEN <<Says(f, got[f])>>
                  ELSE IF got[f] = Way THEN <<Says(f, {"read"}), Says(f, {"write"})>> ELSE <<Says(f, got[f])>>
  IN FlattenSeq([i \in DOMAIN fs |-> Each_(fs[i])])
InPoll(f) == IF fd_table[f].comm_index = 0 THEN {} ELSE pollfds[fd_table[f].comm_index].events

comm_select ==
  LET learnt  == Learnt(fd_table, kernel, kq_fdlist)
      waits == [f \in Fd |-> IF mechanism = "poll" THEN InPoll(f) ELSE learnt[f]]
  IN /\ sel.doing = "none"
     /\ seconds' \in {seconds, seconds + 1} \cap 0..MaxSeconds
     /\ \E got \in Reports(waits) :
          /\ sel' = [doing |-> "select", rest |-> Reported(got), at |-> 1, num |-> Cardinality({f \in Fd : got[f] # {}}),
                     fd |-> 0, what |-> {}, in |-> "none",
                     owed |-> {x \in [fd : Fd, way : Way] : x.way \in got[x.fd] \cap Wants(fd_table[x.fd])}]
          /\ pollfds' = [i \in DOMAIN pollfds |-> [pollfds[i] EXCEPT !.revents = got[pollfds[i].fd]]]
     /\ kernel' = learnt /\ kq_fdlist' = <<>>
     /\ UNCHANGED <<mechanism, fd_table, highest_fd, number_fd, checked, opened, moves>>

Quiet_ == UNCHANGED <<mechanism, highest_fd, number_fd, seconds, checked, opened, moves>>
MoreLeft == IF mechanism = "poll" THEN sel.at <= Len(pollfds) /\ sel.num > 0 ELSE sel.rest # <<>>
Between == sel.doing = "select" /\ sel.in = "none" /\ sel.fd = 0

\* The next that is reported of a descriptor still open.
Take ==
  /\ Between /\ MoreLeft
  /\ IF mechanism = "poll"
     THEN LET e == pollfds[sel.at] IN
          sel' = [sel EXCEPT !.at = @ + 1, !.num = IF e.revents = {} THEN @ ELSE @ - 1,
                             !.fd = IF e.revents = {} THEN 0 ELSE e.fd, !.what = e.revents]
     ELSE LET e == Head(sel.rest) IN
          sel' = [sel EXCEPT !.rest = Tail(@), !.fd = IF IsOpen(e.fd) THEN e.fd ELSE 0, !.what = e.what]
  /\ Quiet_ /\ UNCHANGED <<fd_table, kernel, kq_fdlist, pollfds>>

\* The handler is taken off before it is called: reading first.
Call(way) ==
  LET f == sel.fd IN
  /\ sel.doing = "select" /\ f # 0 /\ sel.in = "none" /\ IsOpen(f)
  /\ way \in sel.what /\ (way = "write" => "read" \notin sel.what)
  /\ LET set == fd_table[f][way] # NoOne
     IN /\ fd_table' = [fd_table EXCEPT ![f][way] = NoOne]
        /\ sel' = [sel EXCEPT !.what = @ \ {way}, !.in = IF set THEN way ELSE "none",
                              !.owed = @ \ {[fd |-> f, way |-> way]}]
  /\ Quiet_ /\ UNCHANGED <<kernel, kq_fdlist, pollfds>>
Returns == /\ sel.in # "none" /\ sel' = [sel EXCEPT !.in = "none"]
           /\ Quiet_ /\ UNCHANGED <<fd_table, kernel, kq_fdlist, pollfds>>
\* What the handlers left is told to the kernel.
Leave ==
  /\ sel.doing = "select" /\ sel.fd # 0 /\ sel.in = "none"
  /\ IF ~IsOpen(sel.fd) THEN sel' = [sel EXCEPT !.fd = 0] /\ UNCHANGED <<fd_table, kernel, kq_fdlist, pollfds>>
     ELSE LET s == comm_setselect(Now, sel.fd, {}, NoOne, 0) IN
          /\ sel.what = {} /\ fd_table' = s.table /\ kernel' = s.kernel /\ kq_fdlist' = s.changes /\ pollfds' = s.polls
          /\ sel' = [sel EXCEPT !.fd = 0, !.owed = s.owed]
  /\ Quiet_
SelectEnds == /\ Between /\ ~MoreLeft /\ sel' = NoPass /\ Quiet_ /\ UNCHANGED <<fd_table, kernel, kq_fdlist, pollfds>>

-----------------------------------------------------------------------------
(* Timers, an event of every second. *)

Timers == {"flush", "timeout"}
comm_checktimeouts ==
  /\ sel.doing = "none" /\ checked < seconds /\ checked' = seconds
  /\ sel' = [NoPass EXCEPT !.doing = "timers", !.fd = 1, !.what = Timers]
  /\ UNCHANGED <<mechanism, fd_table, kernel, kq_fdlist, pollfds, highest_fd, number_fd, seconds, opened, moves>>

\* A timer is taken off before its handler is called: flush first.
Due(e, timer) == e[timer].by # NoOne /\ e[timer].at > 0 /\ e[timer].at < seconds
TimerStep ==
  /\ sel.doing = "timers" /\ sel.in = "none" /\ Quiet_ /\ UNCHANGED <<kernel, kq_fdlist, pollfds>>
  /\ IF sel.fd > highest_fd THEN sel' = NoPass /\ UNCHANGED fd_table
     ELSE IF sel.what = {} \/ (sel.what = Timers /\ ~IsOpen(sel.fd))
     THEN sel' = [sel EXCEPT !.fd = @ + 1, !.what = Timers] /\ UNCHANGED fd_table
     ELSE LET timer == IF "flush" \in sel.what THEN "flush" ELSE "timeout"
              due == Due(fd_table[sel.fd], timer)
          IN /\ sel' = [sel EXCEPT !.what = @ \ {timer}, !.in = IF due THEN timer ELSE "none"]
             /\ fd_table' = IF due THEN [fd_table EXCEPT ![sel.fd][timer] = [by |-> NoOne, at |-> seconds]] ELSE fd_table

\* Some descriptors, of listeners and the resolver, are open before the loop begins.
LoopInit(n) ==
  /\ mechanism \in {"epoll", "poll", "kqueue", "devpoll"}
  /\ fd_table = [f \in Fd |-> IF f <= n THEN [ClosedFd EXCEPT !.open = TRUE, !.who = f] ELSE ClosedFd]
  /\ kernel = [f \in Fd |-> {}] /\ kq_fdlist = <<>> /\ pollfds = <<>>
  /\ highest_fd = n /\ number_fd = n /\ sel = NoPass /\ seconds = 0 /\ checked = 0 /\ opened = n /\ moves = 0
LoopNext == \/ Move \/ comm_select \/ Take \/ (\E way \in Way : Call(way)) \/ Returns \/ Leave \/ SelectEnds
            \/ comm_checktimeouts \/ TimerStep
LoopSpec == (\E n \in 0..Fds : LoopInit(n)) /\ [][LoopNext]_loopVars

-----------------------------------------------------------------------------
(* Properties *)

\* What the kernel waits for, or will once told, is what there are handlers for, whichever
\* the mechanism; of the descriptor being served that is made good when its handlers return.
KernelKnows ==
  LET learnt == Learnt(fd_table, kernel, kq_fdlist) IN
  /\ \A f \in Fd : (sel.doing = "select" => f # sel.fd) =>
       Wants(fd_table[f]) = IF mechanism = "poll" THEN InPoll(f) ELSE learnt[f]
  /\ \A i \in DOMAIN pollfds : fd_table[pollfds[i].fd].comm_index = i

\* A handler or timer is for whom the descriptor is open now, never for one who had the
\* number before (fdlist.c:129).
OwnHandlers ==
  \A f \in Fd : LET e == fd_table[f] IN
    {e.read, e.write, e.timeout.by, e.flush.by} \subseteq {NoOne} \cup IF e.open THEN {e.who} ELSE {}

\* What was reported is acted on in the same pass, unless its handler was changed meanwhile
\* (or, with poll, the entry moved before the place the pass has come to); and no timer is
\* overdue once timers have been looked at (fdlist.c:76 keeps how far that looks).
Attended ==
  /\ (Between /\ ~MoreLeft) => sel.owed = {}
  /\ sel.doing = "none" /\ checked = seconds => \A f \in Fd, timer \in Timers : ~Due(fd_table[f], timer)
FdsCounted == /\ number_fd = Cardinality({f \in Fd : IsOpen(f)})
              /\ highest_fd = Max({0} \cup {f \in Fd : IsOpen(f)})

\* Descriptors are served by the loop however handlers open, close and change them in its
\* middle (s_bsd_epoll.c:176, s_bsd_poll.c:104, s_bsd_kqueue.c:64, s_bsd.c:339).
FdsServed == KernelKnows /\ OwnHandlers /\ Attended /\ FdsCounted
=============================================================================
