------------------------------- MODULE Buffers -------------------------------
(***************************************************************************)
(* Output and input of one server's connections: blocks of bytes counted by *)
(* reference and shared by the output queues they are put on, writes that   *)
(* take a part, SendQ and RecvQ, the functions of send.c that choose who is *)
(* sent a message, what is sent when one leaves and the last write to it,   *)
(* and reading: bytes into blocks, blocks into lines, lines parsed as far   *)
(* as flood control allows, the rest each second.                           *)
(***************************************************************************)
EXTENDS Integers, FiniteSets, SequencesExt

CONSTANTS
  Client,        \* connections
  Server,        \* those to servers
  Opers,         \* oper_list
  Users,         \* users in the order of lists
  Channels,      \* members of the channels, in the order they are listed
  Servers,       \* global_server_list, this server left out
  From,          \* ->from of users and servers: the connection they are behind, their own if local
  Timed,         \* connections the flush timer is set for: those accepted
  CanFlood,      \* users not subject to flood control
  Texts,         \* what users say, numbered
  BlockSize, SendQ, RecvQ, LineSize, MaxFlood, FloodBurst,
  MaxBlocks, MaxBytes    \* bounds: blocks, and what one connection says

Block == 1..MaxBlocks
\* Messages: what users say, answers, and what is said of one who leaves; the notice about one
\* is to operators.  Each has its text and the form that local users or servers get.
Leaving == {"exiting", "SQUIT", "ERROR", "QUIT", "lost", "connected", "split"}
Text == (Texts \X {"text", "answer"}) \cup ((DOMAIN From) \X Leaving)
Message == Text \X {"local", "remote", "notice"}

VARIABLE net
buffersVars == <<net>>

NoQueue == [blocks |-> <<>>, total |-> 0, pos |-> 0]
NoConn == [is |-> "unknown", dead |-> FALSE, closing |-> FALSE, gone |-> FALSE, blocked |-> FALSE, done |-> FALSE,
           sent_parsed |-> 0, timer |-> FALSE, serial |-> 0, wrote |-> <<>>, received |-> <<>>,
           lines |-> <<>>, since |-> [n |-> 0, ticks |-> 0]]

-----------------------------------------------------------------------------
(* Blocks and queues. *)

dbuf_alloc(s) == CHOOSE b \in Block : s.mem[b].refs = 0 /\ \A d \in Block : s.mem[d].refs = 0 => b <= d
dbuf_ref_free(s, b) ==
  [s EXCEPT !.mem[b] = IF @.refs > 1 THEN [@ EXCEPT !.refs = @ - 1] ELSE [refs |-> 0, data |-> <<>>]]
dbuf_add(s, c, b) ==
  [s EXCEPT !.mem[b].refs = @ + 1,
            !.sendq[c].blocks = Append(@, b), !.sendq[c].total = @ + Len(s.mem[b].data)]

RECURSIVE dbuf_delete(_, _, _, _)
dbuf_delete(s, q, c, count) ==
  IF count = 0 \/ s[q][c].total = 0 THEN s
  ELSE LET b     == Head(s[q][c].blocks)
           avail == Len(s.mem[b].data) - s[q][c].pos
       IN IF count >= avail
          THEN dbuf_delete(dbuf_ref_free([s EXCEPT ![q][c] = [blocks |-> Tail(@.blocks), total |-> @.total - avail, pos |-> 0]], b),
                           q, c, count - avail)
          ELSE [s EXCEPT ![q][c].pos = @ + count, ![q][c].total = @ - count]
\* Mutation: the references of what is dropped are not given back.
dbuf_clear_only(s, q, c) == [s EXCEPT ![q][c] = NoQueue]
dbuf_clear(s, q, c) == dbuf_delete(s, q, c, s[q][c].total)

\* What is received fills the last block before another is taken.
RECURSIVE dbuf_put(_, _, _)
dbuf_put(s, c, data) ==
  LET q    == s.recvq[c]
      full == q.total = 0 \/ Len(s.mem[Last(q.blocks)].data) = BlockSize
      b    == IF full THEN dbuf_alloc(s) ELSE Last(q.blocks)
      t    == IF full THEN [s EXCEPT !.mem[b].refs = 1, !.recvq[c].blocks = Append(@, b)] ELSE s
      n    == IF Len(data) < BlockSize - Len(t.mem[b].data) THEN Len(data) ELSE BlockSize - Len(t.mem[b].data)
  IN IF data = <<>> THEN s
     ELSE dbuf_put([t EXCEPT !.mem[b].data = @ \o SubSeq(data, 1, n), !.recvq[c].total = @ + n],
                   c, SubSeq(data, n + 1, Len(data)))

\* The bytes of a queue.
Contents(s, q, c) ==
  LET all == FlattenSeq([i \in DOMAIN s[q][c].blocks |-> s.mem[s[q][c].blocks[i]].data])
  IN SubSeq(all, s[q][c].pos + 1, Len(all))

-----------------------------------------------------------------------------
(* Writing. *)

IsDead(s, c)  == s.conn[c].dead
Defunct(s, c) == s.conn[c].dead \/ s.conn[c].closing

\* One that dies is rid of its queues at once, and of the rest by exit_aborted_clients.
dead_link_on_write(s, c) ==
  LET t == dbuf_clear(dbuf_clear(s, "recvq", c), "sendq", c)
  IN IF Defunct(s, c) THEN s ELSE [t EXCEPT !.conn[c].dead = TRUE, !.abort_list = Append(@, c)]

\* The sockets take so many bytes, and then block, fail or want to read first; a socket
\* takes no more of a call than is left of the first block.
RECURSIVE send_queued_write(_, _, _)
send_queued_write(s, c, sock) ==
  LET first == s.mem[Head(s.sendq[c].blocks)].data
      rest  == SubSeq(first, s.sendq[c].pos + 1, Len(first))
      n     == IF sock[c].takes < Len(rest) THEN sock[c].takes ELSE Len(rest)
      took  == dbuf_delete([s EXCEPT !.conn[c].wrote = @ \o SubSeq(rest, 1, n)], "sendq", c, n)
  IN IF s.conn[c].dead \/ s.conn[c].blocked \/ s.sendq[c].total = 0 THEN s
     ELSE IF n > 0 THEN send_queued_write(took, c, [sock EXCEPT ![c].takes = @ - n])
     ELSE CASE sock[c].then = "blocks" -> [s EXCEPT !.conn[c].blocked = TRUE]
            [] sock[c].then = "fails"  -> dead_link_on_write(s, c)
            [] sock[c].then = "reads"  -> s

Queued(s, c, b, sock) == send_queued_write(dbuf_add(s, c, b), c, sock)
Exceeds(s, c, b) == s.sendq[c].total + Len(s.mem[b].data) > SendQ

\* A new block with the text, the sends of it, and the reference given back.
NewBlock(s, b, m) == [s EXCEPT !.mem[b] = [refs |-> 1, data |-> <<[of |-> m, part |-> 1], [of |-> m, part |-> 2]>>]]
Formatted(s, m, Send(_, _)) == LET b == dbuf_alloc(s) IN dbuf_ref_free(Send(NewBlock(s, b, m), b), b)

\* Who leaves is first taken off the lists of operators and of servers.
Left(s, c) == s.conn[c].closing

\* Operators are told when a server's SendQ is exceeded.
RECURSIVE send_message(_, _, _, _)
sendto_realops_flags(s, skip, m, sock) ==
  Formatted(s, m, LAMBDA t, b : FoldLeft(LAMBDA u, c : IF c \in skip \/ IsDead(u, c) \/ Left(u, c) THEN u ELSE send_message(u, c, b, sock), t, Opers))

Noticed(s, b, sock) == sendto_realops_flags(s, {}, <<s.mem[b].data[1].of[1], "notice">>, sock)
send_message(s, c, b, sock) ==
  IF Exceeds(s, c, b) THEN dead_link_on_write(IF s.conn[c].is = "server" THEN Noticed(s, b, sock) ELSE s, c)
  ELSE Queued(s, c, b, sock)

\* Nothing is sent back to where it comes from.
send_message_remote(s, c, from, b, sock) ==
  IF c = From[from] THEN Noticed(s, b, sock) ELSE send_message(s, c, b, sock)

Walk(s, list, Visit(_, _)) == FoldLeft(Visit, s, list)
Marked(s, c) == [s EXCEPT !.conn[c].serial = s.current]
Fresh(s) == [s EXCEPT !.current = @ + 1]
Local(u) == From[u] \notin Server

\* skip are those a message is not for: deaf, without the status, the capability or the
\* mask that is asked for.  one is where it came from, or no one.
\* Mutation: a server is not remembered to have been sent the message.
sendto_channel_butone_twice(s, one, from, members, skip, m, sock) ==
  Formatted(Fresh(s), <<m, "local">>, LAMBDA s1, lb : Formatted(s1, <<m, "remote">>, LAMBDA s2, rb :
    Walk(s2, members, LAMBDA t, u :
      LET c == From[u] IN
      IF IsDead(t, c) \/ c = one \/ u \in skip THEN t
      ELSE IF Local(u) THEN send_message(t, c, lb, sock) ELSE send_message_remote(t, c, from, rb, sock))))
sendto_channel_butone(s, one, from, members, skip, m, sock) ==
  Formatted(Fresh(s), <<m, "local">>, LAMBDA s1, lb : Formatted(s1, <<m, "remote">>, LAMBDA s2, rb :
    Walk(s2, members, LAMBDA t, u :
      LET c == From[u] IN
      IF IsDead(t, c) \/ c = one \/ u \in skip THEN t
      ELSE Marked(IF Local(u) THEN send_message(t, c, lb, sock)
                  ELSE IF t.conn[c].serial # t.current THEN send_message_remote(t, c, from, rb, sock) ELSE t, c))))

sendto_server(s, one, skip, m, sock) ==
  Formatted(s, <<m, "remote">>, LAMBDA s1, b :
    Walk(s1, SetToSeq(Server), LAMBDA t, c :
      IF IsDead(t, c) \/ Left(t, c) \/ c = one \/ c \in skip THEN t ELSE send_message(t, c, b, sock)))

\* Those who share a channel with the user hear of it once.
sendto_common_channels_local(s, user, touser, skip, m, sock) ==
  LET rooms == SelectSeq(Channels, LAMBDA ms : user \in ToSet(ms))
      Visit(t, u, b) ==
        LET c == From[u] IN
        IF IsDead(t, c) \/ u = user \/ t.conn[c].serial = t.current \/ u \in skip THEN t
        ELSE send_message(Marked(t, c), c, b, sock)
      Locals == SelectSeq(FlattenSeq(rooms), Local)
  IN Formatted(Fresh(s), <<m, "local">>, LAMBDA s1, b :
       LET t == Walk(s1, Locals, LAMBDA u, x : Visit(u, x, b))
       IN IF touser /\ Local(user) /\ ~IsDead(t, From[user]) /\ user \notin skip
          THEN send_message(t, From[user], b, sock) ELSE t)

sendto_channel_local(s, one, members, skip, m, sock) ==
  Formatted(s, <<m, "local">>, LAMBDA s1, b :
    Walk(s1, SelectSeq(members, Local), LAMBDA t, u :
      LET c == From[u] IN
      IF IsDead(t, c) \/ c = one \/ u \in skip THEN t ELSE send_message(t, c, b, sock)))

\* To users of a host or server mask: to every server, whether or not it has one.
sendto_match_butone(s, one, from, skip, m, sock) ==
  Formatted(s, <<m, "local">>, LAMBDA s1, lb : Formatted(s1, <<m, "remote">>, LAMBDA s2, rb :
    LET t == Walk(s2, SelectSeq(Users, Local), LAMBDA v, u :
               IF IsDead(v, From[u]) \/ From[u] = one \/ u \in skip THEN v ELSE send_message(v, From[u], lb, sock))
    IN Walk(t, SetToSeq(Server), LAMBDA v, c :
         IF IsDead(v, c) \/ c = one THEN v ELSE send_message_remote(v, c, from, rb, sock))))

\* To the servers of a mask, once by each way there.
sendto_match_servs(s, from, skip, m, sock) ==
  Formatted(Fresh(s), <<m, "remote">>, LAMBDA s1, b :
    Walk(s1, Servers, LAMBDA t, v :
      LET c == From[v] IN
      IF IsDead(t, c) \/ c = From[from] \/ t.conn[c].serial = t.current \/ v \in skip THEN t
      ELSE send_message_remote(Marked(t, c), c, from, b, sock)))

sendto_one(s, u, m, sock) ==
  IF IsDead(s, From[u]) THEN s
  ELSE Formatted(s, <<m, IF Local(u) THEN "local" ELSE "remote">>, LAMBDA t, b : send_message(t, From[u], b, sock))
sendto_anywhere(s, u, from, m, sock) ==
  IF IsDead(s, From[u]) THEN s
  ELSE Formatted(s, <<m, IF Local(u) THEN "local" ELSE "remote">>, LAMBDA t, b :
         IF Local(u) THEN send_message(t, From[u], b, sock) ELSE send_message_remote(t, From[u], from, b, sock))

sendq_unblocked(c, sock) ==
  /\ ~net.conn[c].closing /\ net.conn[c].blocked
  /\ net' = send_queued_write([net EXCEPT !.conn[c].blocked = FALSE], c, sock)

-----------------------------------------------------------------------------
(* Leaving. *)

\* What is still queued is tried once more, blocked or not.
LastFlush(s, c, sock) == IF IsDead(s, c) THEN s ELSE send_queued_write([s EXCEPT !.conn[c].blocked = FALSE], c, sock)
client_close_connection(s, c, sock) ==
  dbuf_clear(dbuf_clear([LastFlush(s, c, sock) EXCEPT !.conn[c].timer = FALSE], "sendq", c), "recvq", c)

\* Those behind a server that leaves go before it, and operators hear of both.
UserGone(s, u, sock)  == sendto_common_channels_local(s, u, FALSE, {}, <<u, "QUIT">>, sock)
ServerGone(s, v, sock) == sendto_realops_flags(s, {}, <<<<v, "split">>, "local">>, sock)
recurse_remove_clients(s, c, sock) ==
  LET Behind(x) == From[x] = c /\ x # c
  IN Walk(Walk(s, SelectSeq(Users, Behind), LAMBDA u, x : UserGone(u, x, sock)),
          SelectSeq(Servers, Behind), LAMBDA u, x : ServerGone(u, x, sock))

\* What it is sent, and operators are told, before its connection is closed.
\* squit: the SQUIT was sent by who asked for it.
ExitTold(s, c, squit, sock) ==
  CASE s.conn[c].is = "client" -> sendto_realops_flags(s, {}, <<<<c, "exiting">>, "local">>, sock)
    [] s.conn[c].is = "server" /\ ~squit -> sendto_one(s, c, <<c, "SQUIT">>, sock)
    [] OTHER -> s

\* What others hear of it.
ExitSpreads(s, c, squit, sock) ==
  LET Others(t) == IF squit THEN t ELSE sendto_server(t, c, {}, <<c, "QUIT">>, sock)
      Connected(t) == sendto_realops_flags(t, {}, <<<<c, "connected">>, "local">>, sock)
  IN CASE s.conn[c].is = "client" -> UserGone(Others(s), c, sock)
       [] s.conn[c].is = "server" -> ServerGone(Connected(recurse_remove_clients(Others(s), c, sock)), c, sock)
       [] OTHER -> s

\* From the first step on a write that fails, or finds the queue full, does not kill any more.
exit_client(s, c, squit, sock) ==
  LET LastWords(t) == sendto_one(ExitTold(t, c, squit, sock), c, <<c, "ERROR">>, sock)
      Shut(t) == client_close_connection(LastWords(t), c, sock)
  IN IF s.conn[c].closing THEN s
     ELSE [ExitSpreads(Shut([s EXCEPT !.conn[c].closing = TRUE]), c, squit, sock) EXCEPT !.conn[c].dead = TRUE]

dead_link_on_read(s, c, sock) ==
  LET t == dbuf_clear(dbuf_clear([s EXCEPT !.conn[c].gone = TRUE], "recvq", c), "sendq", c)
      u == sendto_realops_flags(t, {}, <<<<c, "lost">>, "local">>, sock)
  IN exit_client(IF s.conn[c].is = "server" THEN u ELSE t, c, FALSE, sock)

\* At the end of the pass of io_loop, those included who die of what the others leave.
RECURSIVE ExitAborted(_, _)
ExitAborted(s, sock) ==
  IF s.abort_list = <<>> THEN s
  ELSE ExitAborted(exit_client([s EXCEPT !.abort_list = Tail(@)], Head(s.abort_list), FALSE, sock), sock)
exit_aborted_clients(sock) == net.abort_list # <<>> /\ net' = ExitAborted(net, sock)

-----------------------------------------------------------------------------
(* Reading. *)

Eol == "n"
Least(m, n) == IF m < n THEN m ELSE n

\* A line ends at the first end of line; one more end of line after it goes with it.
extract_one_line(s, c) ==
  LET text == Contents(s, "recvq", c)
      end  == SelectInSeq(text, LAMBDA x : x = Eol)
      two  == end < Len(text) /\ text[end + 1] = Eol
  IN IF end = 0 THEN [line |-> <<>>, s |-> s]
     ELSE [line |-> SubSeq(text, 1, Least(end - 1, LineSize)),
           s |-> dbuf_delete(s, "recvq", c, IF two THEN end + 1 ELSE end)]

flood_endgrace(s, c) ==
  IF s.conn[c].done THEN s
  ELSE [s EXCEPT !.conn[c].done = TRUE, !.conn[c].sent_parsed = 0, !.conn[c].since = [n |-> 0, ticks |-> 0]]

\* What a line does is told by its first letter: register as a user or as a server, end
\* the time of grace (JOIN, messages), be answered, leave (a server by
\* SQUIT, sent back to it), or nothing that matters here.
client_dopacket(s, c, line, sock) ==
  LET t == [s EXCEPT !.conn[c].lines = Append(@, line), !.conn[c].since.n = @ + 1]
      k == Head(line)
  IN CASE k = "r" /\ s.conn[c].is = "unknown" -> [t EXCEPT !.conn[c].is = "client", !.conn[c].since.n = 0]
       [] k = "s" /\ s.conn[c].is = "unknown" -> [t EXCEPT !.conn[c].is = "server"]
       [] k = "g" /\ s.conn[c].is = "client" ->
            [flood_endgrace(s, c) EXCEPT !.conn[c].lines = Append(@, line), !.conn[c].since.n = @ + 1]
       [] k = "a" -> sendto_one(t, c, <<Len(t.conn[c].lines), "answer">>, sock)
       [] k = "q" -> LET server == s.conn[c].is = "server"
                     IN exit_client(IF server THEN sendto_one(t, c, <<c, "SQUIT">>, sock) ELSE t, c, server, sock)
       [] OTHER -> t

\* A server's lines are all parsed, one to register has MaxFlood each time, a user what
\* the limit leaves; who registers goes on as what it is by then.
Spent(s, c) == c \notin CanFlood /\ s.conn[c].sent_parsed >= (IF s.conn[c].done THEN MaxFlood ELSE FloodBurst)
Parses(s, c, i) ==
  /\ ~Defunct(s, c)
  /\ s.conn[c].is = "unknown" => i < MaxFlood
  /\ s.conn[c].is = "client" => ~Spent(s, c)
Counted(s, c, is) == [s EXCEPT !.conn[c].sent_parsed = IF is = "client" THEN @ + 1 ELSE @]

RECURSIVE ParseLines(_, _, _, _)
ParseLines(s, c, i, sock) ==
  LET x == extract_one_line(s, c)
  IN IF ~Parses(s, c, i) THEN s
     ELSE IF x.line = <<>> THEN x.s
     ELSE ParseLines(Counted(client_dopacket(x.s, c, x.line, sock), c, s.conn[c].is), c, i + 1, sock)
parse_client_queued(s, c, sock) == ParseLines(s, c, 0, sock)

\* Mutation: the timer does not parse what is left.
flood_recalc_only(c, sock) ==
  LET k == net.conn[c].sent_parsed IN
  /\ net.conn[c].timer
  /\ net' = [net EXCEPT !.conn[c].sent_parsed = IF ~net.conn[c].done \/ k < 2 THEN 0 ELSE k - 2]
\* Every second: two lines more, or as many as the grace has, and what is left is parsed.
flood_recalc(c, sock) ==
  LET k == net.conn[c].sent_parsed
      n == IF ~net.conn[c].done \/ k < 2 THEN 0 ELSE k - 2
      since == net.conn[c].since
      s == [net EXCEPT !.conn[c].sent_parsed = n,
                       !.conn[c].since = IF net.conn[c].done THEN [since EXCEPT !.ticks = Least(@ + 1, MaxBytes)]
                                                             ELSE [since EXCEPT !.n = 0]]
  IN /\ net.conn[c].timer
     /\ \E t \in {parse_client_queued(s, c, sock)} : net' = [t EXCEPT !.conn[c].timer = ~IsDead(t, c)]

\* What is read is parsed at once; nothing read means that the other side has ended.
read_packet(c, data, sock) ==
  /\ ~Defunct(net, c) /\ Len(net.conn[c].received) + Len(data) <= MaxBytes
  /\ \E t \in {parse_client_queued(dbuf_put([net EXCEPT !.conn[c].received = @ \o data], c, data), c, sock)} :
       LET excess == t.conn[c].is \in {"unknown", "client"} /\ t.recvq[c].total > RecvQ
       IN net' = IF data = <<>> THEN dead_link_on_read(net, c, sock)
                 ELSE IF ~Defunct(t, c) /\ excess THEN exit_client(t, c, FALSE, sock) ELSE t

BuffersInit(is) ==
  net = [conn  |-> [c \in Client |-> [NoConn EXCEPT !.is = is[c], !.timer = c \in Timed]],
         sendq |-> [c \in Client |-> NoQueue], recvq |-> [c \in Client |-> NoQueue],
         mem   |-> [b \in Block |-> [refs |-> 0, data |-> <<>>]], current |-> 0, abort_list |-> <<>>]

-----------------------------------------------------------------------------
(* Properties *)

Whose(s, q) == [b \in Block |-> Cardinality({c \in Client : b \in ToSet(s[q][c].blocks)})]

\* Every connection is sent whole messages, at most once each, in the order they were
\* formatted and none of another's bytes, whatever parts the sockets take, whoever dies
\* of its SendQ or a failed write in the middle of a message to many and however blocks are
\* shared; one that leaves gets what waits and its ERROR as far as its socket takes them,
\* cut anywhere but with nothing left out before, unless its other side has ended first;
\* one that died gets and holds nothing more; and what is said is acted on line by line as
\* it would be if it came in one piece, up to where the connection dies or leaves
\* (dbuf.c:57 and 65, send.c:83, 168 and 312, packet.c:81, client.c:571, 819, 884 and 911).
Queues == INSTANCE Streams WITH
  open     <- [c \in Client |-> ~Defunct(net, c)],
  gone     <- [c \in Client |-> net.conn[c].gone],
  accepted <- [c \in Client |-> net.conn[c].wrote \o Contents(net, "sendq", c)],
  wrote    <- [c \in Client |-> net.conn[c].wrote],
  received <- [c \in Client |-> net.conn[c].received],
  lines    <- [c \in Client |-> net.conn[c].lines]
StreamsKept == Queues!StreamsSpec

\* Blocks are counted by the queues that hold them, also when one dies and drops its queues
\* in the middle of a message to many; the totals are of what the queues hold, and no
\* output is queued past SendQ, the last words of who leaves included; a user past the
\* grace has had no more lines parsed than the limit and two for each second since, and no
\* more than the grace allows in a second before (dbuf.c:49 and 65, client.c:892, send.c:89, packet.c:216, 255).
Metered ==
  /\ \A b \in Block : net.mem[b].refs = Whose(net, "sendq")[b] + Whose(net, "recvq")[b]
  /\ \A c \in Client : /\ net.sendq[c].total = Len(Contents(net, "sendq", c)) /\ net.sendq[c].total <= SendQ
                       /\ net.recvq[c].total = Len(Contents(net, "recvq", c))
  /\ \A c \in Client \ CanFlood : net.conn[c].is = "client" =>
       LET x == net.conn[c].since
       IN x.n <= IF net.conn[c].done THEN MaxFlood + 2 * x.ticks ELSE FloodBurst

\* What a connection that was accepted says is acted on to the last whole line, though a
\* line may be left at first by flood control or by an empty line before it
\* (packet.c:153 and 216, flood_recalc at 255).
LinesParsed ==
  \A c \in Timed : []<>(Defunct(net, c) \/ net.conn[c].lines = Queues!LinesOf(net.conn[c].received))
=============================================================================
