# ircd-hybrid 8.2.31: specification and verification

This directory holds TLA+ models of ircd-hybrid, the TLC configurations that
check them on small networks, and proofs, checked by TLAPS, of what holds for
networks of any size. Source paths below are relative to
`src/ircd-hybrid-8.2.31/`.

## 1. The system

ircd-hybrid is a single-threaded, event-driven server. Servers are linked by
TCP connections into a tree and each keeps a complete copy of the network's
state: servers, users, channels. There is no coordinator and no
acknowledgement: a server applies a command, passes it on to its other links,
and conflicts are settled by timestamps. Everything hard about the program
comes from that.

| Component | State | Operations | Model |
|---|---|---|---|
| Server network (`modules/core/m_server.c`, `m_squit.c`, `src/server.c`) | `struct Client` of every server: `servptr`, `from`, status; `global_server_list` | connect, SERVER, SID, burst, SQUIT, loss of a link | `IrcNet` |
| Users and nicknames (`m_nick.c`, `m_kill.c`, `m_quit.c`, `src/user.c`, `src/hash.c`) | name, `tsinfo`, UID, registration; client and UID hash tables; user modes and counts | NICK, USER, UID, collisions, QUIT, KILL, MODE, OPER, SVSMODE, SVSNICK | `IrcNet` (network), `Users` (one server) |
| Channels (`src/channel.c`, `m_sjoin.c`, `m_join.c`, `m_tmode.c`, `m_bmask.c`, `m_part.c`, `m_kick.c`) | creation time, members and status, modes, bans | JOIN, SJOIN, PART, KICK, MODE/TMODE, BMASK | `Channel` |
| Speech and bans of channels (`channel_mode.c`, `extban*.c`, `m_message.c`) | ban lists, remembered silences, flood counters | add and remove bans, can_send, PRIVMSG, NOTICE | `Speech` |
| Queries (`m_who.c`, `m_whois.c`, `m_names.c`, `m_list.c`, `m_topic.c`) | marks, LIST tasks | who is told of whom | `Speech` |
| Client life cycle (`src/client.c`) | local lists, `abort_list`, `dead_list`, flags | exit_client, dead links, pings | `Connection` |
| Handshake, registration, resolver (`src/server.c`, `src/auth.c`, `src/res.c`, `m_cap.c`, `m_user.c`, ...) | lookups, timers, flags, ping cookie, connect attempts | ident, DNS, CAP, register, try_connections, SERVER, SVINFO | `Connection` |
| Limits (`src/ipcache.c`, `conf_class.c`, `listener.c`) | reference counts, tries of prefixes | attach, detach, rehash | `Connection`, `Patricia` |
| Queues (`src/send.c`, `src/dbuf.c`, `src/packet.c`) | blocks, SendQ, RecvQ, parse allowance | the sendto functions, partial writes, deaths, leaving, reading, flood control | `Buffers` |
| Nick history, WATCH, invitations (`src/whowas.c`, `src/watch.c`, `channel_invite.c`) | lists shared by two owners | add, forget, trim, expire, tell | `Users` |
| Bans of the server and their database (`src/hostmask.c`, `src/conf_db.c`, K/D/X-lines, RESV) | ban lists with expiry, four files | set, lift, expire, enforce, save, load | `Bans` |
| Configuration, modules, message of the day (`conf_parser.y`, `src/conf.c`, `src/modules.c`, `src/motd.c`) | settings, lists, classes, listeners, modules, commands | start, rehash, load, unload, reload | `Config` |
| Events, tries (`src/event.c`, `src/patricia.c`) | event list; nodes | run, add, delete | `Events`, `Patricia` |
| Descriptors and polling (`src/fdlist.c`, `src/s_bsd*.c`) | `fd_table`, what the kernel was told | open, close, comm_setselect, comm_select, timers | `Loop` |
| Parsing, matching, identifiers (`src/parse.c`, `src/match.c`, `src/id.c`) | last UID | prefix, parameters, masks, next UID | `Parsing`, `IrcNet` |

### What is hard, and what makes each part correct

* **Server network.** Introductions cross; a cycle of connects must end as a
  tree; a lost link takes its side of the network away on every server; a SQUIT
  must reach both halves; late messages of an old link meet a new one.
  Correct: every pointer chain leads to something alive; linked servers agree
  on who is there and in which direction; masks bind whatever lies behind a
  link; the exchange ends.
* **Users.** A name may be taken at two places at once, and each server decides
  the collision in its own order of arrival. Correct: one holder per name on
  every server, the same users, names and timestamps on linked servers once
  nothing is under way, and no kill of a user the rules protect.
* **Channels.** Two versions of a channel with different timestamps merge while
  modes are being changed. Correct: convergence of timestamp, status and bans.
* **Connections.** Lookups answer, time out or outlive who asked; writes fail in
  the middle of another's command; the configuration is read again while its blocks
  are in use. Correct: taken apart once, released once, counted right, never forgotten.
* **Queues.** One message shared by many queues, sockets that take a part, input in
  pieces. Correct: whole messages, once, in order; every line acted on.
* **Bans and configuration.** They change while connections are at every stage, and
  survive restarts. Correct: whoever is on is allowed to be; the database is always one
  that was completely saved; a rehash means what a fresh start would.
* **What is remembered twice.** Modes and counts, watched names, history, invitations,
  silences, prefix counts. Correct: both sides say the same after every path.
* **The loop.** Handlers change what is being walked: descriptors, events, timers.
  Correct: nobody's event goes to another or is lost.

`PROJECT.json` lists these as hazards at the lines where they bite.

## 2. Modules

| Module | Role |
|---|---|
| `IrcNet` | the network: tables, links, commands, properties |
| `MCIrcNet`, `IrcNetProofs` | IrcNet with budgets and initial states for TLC; theorems |
| `Channel` | one channel on a tree of servers that splits and links again |
| `MCChannel`, `ChannelProofs` | Channel for TLC; theorems |
| `Connection` | the connections of one server, from accept or connect to freed memory |
| `MCConnection` | Connection for TLC |
| `ConnectionLemmas`, `ConnectionProofs` | its inductive invariant and the lemmas about its operators; theorems |
| `Lists`, `ListLemmas` | lists some elements of which are deleted; lemmas about any list |
| `Users`, `UsersProofs` | what one server keeps of its users; theorems |
| `Bans` | bans of the server and their database |
| `BansProofs` | theorems about Bans |
| `Config` | configuration, modules, messages of the day |
| `Speech` | messages, bans of channels, queries |
| `Loop` | descriptors, timers, four ways of polling |
| `LoopProofs` | theorems about Loop and Events |
| `Parsing` | masks, parameters, identifiers |
| `MCPolicies` | Users, Bans, Config, Speech, Loop and Parsing, each in worlds of its own, for TLC |
| `Streams` | what queues promise: abstract |
| `Buffers` | the queues; implements Streams |
| `PrefixCounts` | what a trie of counts promises: abstract |
| `Patricia` | the trie; implements PrefixCounts |
| `Events` | timed events |
| `MCStructures` | Buffers, Patricia and Events for TLC |

IrcNet, Channel and Connection are about the same servers at three distances: all
servers, one channel on all servers, one server. What a distance does not show is one
step there: an exit is one step in IrcNet and several in Connection, a link is a FIFO in
IrcNet because Buffers implements Streams.

### IrcNet

One record `srv[s]` per server and one FIFO `chan[a][b]` per direction of a
connection:

| Model | Code |
|---|---|
| `srv[s].user[u].reg` | `none`: no client structure; `nick`/`user`: an unregistered local connection that has sent only NICK or only USER (`STAT_UNKNOWN`); `client`: `STAT_CLIENT` |
| `srv[s].user[u].nick`, `.ts` | `name`, `tsinfo` |
| `srv[s].path[x]` | the servers met when following `servptr` from x up to `me`, x included; empty when the SID hash does not know x |
| `srv[s].from[x]` | `from`: the local connection x is reached through |
| `srv[s].link[t]` | the local connection to t: none, `STAT_UNKNOWN` (accepted), `STAT_HANDSHAKE` (connected out, SERVER sent), `STAT_SERVER` |
| `chan[a][b]` | what a has sent and b has not parsed: a's SendQ, the socket buffers and b's RecvQ |
| `born` | the UIDs handed out by `uid_get` |

A handler is one action: the program is single-threaded and handlers do not
wait. `Step(s, read, L, out)` is what all have in common: s consumes the first
message of the links in `read`, its tables become `L`, messages go to the links,
data to or from a connection that is closed is lost. A closed connection is
noticed by the other side at some later time (`Closed`), after it has parsed
some, all or none of what had arrived.

Handlers keep their source's names: `mr_server`, `server_estab` (with
`server_burst`, in any order the hash tables may give that puts a server before
those behind it), `ms_sid`, `mo_squit`, `ms_squit`, `mr_nick`, `m_nick`,
`ms_nick`, `ms_uid`, `mo_kill`, `ms_kill`, `ms_quit`, `parse_drop`
(`parse_remove_unknown` and fake direction). The rules of
`perform_uid_introduction_collides` and `perform_nick_change_collides` are
`Verdict`. `exit_local` is `exit_client` of a local user for whatever reason,
`lose_link` that of a server by read or write error, ping timeout or SendQ.

Left out of the data: texts, hop counts, user modes, hosts (`Ident` says which
users share user@host), services, encryption, capabilities. Names that
`check_clean_nick` or RESV would refuse are never asked for. Timestamps are
read from `Clock[s]`, so clocks of servers differ and need not advance.
Two connections between the same two servers at the same time are not possible
in this module (see the plan).

Two points of the code the model takes as they are although a reader may
stumble: when `hub_mask` does not allow a server, `ms_sid` exits the server that
introduced it (`source_p`), not the link, unlike the neighbouring checks; and
a collision found by a server is passed on by KILL to all links, including
those where the user has never been seen.

### Channel

What IrcNet is about (names, collisions, routes, cycles) is fixed here: the
links that may exist form a tree (`Side`), users keep their home, and a server
is known by the links that lead to it. What is left of every server:

| Model | Code |
|---|---|
| `srv[s].link` | the connections that are `STAT_SERVER` |
| `srv[s].users` | the users in the UID hash |
| `srv[s].ch` | `struct Channel`: `creation_time` (`ts`), `members` and those with `CHFL_CHANOP` (`ops`), `mode.mode` (`modes`), `mode.limit`, `banlist` (`bans`); `NoChannel` when `hash_find_channel` finds none |
| `wire[a][b]` | what a has sent and b has not parsed; it starts with `SERVER` while b waits for the answer to its own |
| `earned` | history, read by a property only: who was given status on which version |

| Action | Code |
|---|---|
| `channel_do_join`, `m_part`, `m_kick`, `m_mode`, `exit_local`, `mo_kill` | the commands of users of this server |
| `ms_uid`, `ms_gone` (QUIT and KILL) | users that come and go elsewhere |
| `ms_sjoin`, `ms_join`, `ms_part`, `ms_kick`, `ms_tmode`, `ms_bmask` | the commands of servers |
| `parse_drop` | a prefix that is not known |
| `server_estab`, `mr_server` | the side that answers and the side that asked: both send their `Burst` |
| `lose_link`, `ms_squit` | a link lost, and the word of it |

One UID message stands for those of all users of a burst: the code sends them in
a row and nothing is between them. An SJOIN is one message however many lines
the code needs, and so are the BMASKs of a burst and the changes of one MODE: a
MODE command has one change here.
`Sjoined` and `Relayed` are what `ms_sjoin` does to the channel and what it
passes on; an SJOIN that has lost all its users merges but is not passed on, since
the line the code builds then lacks its last parameter.

Left out: the topic with TOPIC and TBURST; keys; exemptions and invite
exemptions, which are lists like that of bans; half-operators and voice, which
are statuses like that of operators but for who may give them; invites; flood
limits on joins; the maximal number of bans; halting of a burst by SendQ.

### Connection

The state of the process is one record `ircd`, and functions of the source are
operators from such a state and their arguments to the state they leave, composed as
the source calls them; an action is one callback, run to its end. `phase` separates
what `io_loop` does in turn: events of descriptors, then `exit_aborted_clients` and
`free_exited_clients`. Timers may run out whenever they are set.

| Model | Code |
|---|---|
| `client[c]` | `struct Client` and `struct Connection`: status, the list it is on, flags (dead, closing, ping sent, counted in the IP cache, ...), what registration still needs, pending lookups, descriptor, attached blocks |
| `conf`, `class`, `listener`, `ip` | blocks, classes, the listener and addresses, each with its reference count and whether it is still configured |
| `query` | the resolver's requests, those whose client is gone included |
| `abort`, `dead` | `abort_list`, `dead_list` |
| `fds` | `number_fd` |
| `misuse` | an operation on something already given back, wherever it happens |

Actions: accepting (`listener_accept_connection` with the IP cache's verdict), the TLS
handshake, ident and DNS with failures, late answers and timeouts (`res.c`, `auth.c`),
commands of registration (NICK, USER, CAP END, PONG) with a write that may fail in any of
them, `attach_iline` and its limits, WEBIRC, servers connecting and being connected to
(`try_connections`, CONNECT, SERVER, SVINFO), pings, QUIT, CLOSE, KILL, bans, and
`Rehash` with new blocks, classes dropped and lookups under way.

### Users, Bans, Config, Speech

One server each. `Users`: `users[c]` holds user modes, watched names, history and
invitations as seen from the client (the history's
records as a set: nothing depends on their order there), `count`, `oper_list`, `watchTable`, `whowas` and
`chans` the other side; `told` is history: what a watcher was last told of a name.
`Bans`: what a ban is compared with (address, host, real name, nick) is one value of `Who`,
a mask the set of values it matches; `bans` holds all tables, earliest first, `file` and
`temp` the database files, `job` the save under way, which is written record by record and may fail
or be cut off by `Crash` at any of them. `Config`: `Files` are sequences of
blocks of items; reading one runs what `conf_parser.y` does at each item and at the end
of each block, in both passes; each kind of setting (bounded number, text, set of flags,
once only) is represented by one or two. `PROJECT.json` maps these to `conf_parser.c`, which is
what is compiled; its `#line` directives name the lines of `conf_parser.y`. `Boot` is the order of `main`. `Speech`: users
are known by values that masks match, `links[r][c]` holds status and remembered
verdicts; `said` and `shown` are what the last message and query did. LIST is without
arguments: its filters (members, topic, age, masks) and channels named in it, one of them twice
included, are left out.

### Buffers, Patricia, Events, Loop, Parsing

`Buffers`: blocks of bytes with reference counts, shared by queues; the functions of
`send.c` that choose who is sent a message, with the sockets' behaviour as an argument (how
much each takes of a call, then blocks, fails or goes on); reading, `extract_one_line`, the
allowance. A message is two bytes, so that a part may be taken. `dead_link_on_write` drops
both queues where it is called, in the middle of a message to many as it may be, and puts the
client on `abort_list`, which `exit_aborted_clients` walks to its end, those included who die
meanwhile. `exit_client` is all it sends: the notices to operators, SQUIT and ERROR to who
leaves, the last write of `client_close_connection`, blocked or not, QUIT and SQUIT to
others, and what is said of those behind a server; once `closing` is set a failed write or a
full queue kills no more. What users and channels there are is constant: who has left is skipped, as the
functions of `send.c` do for a dead connection, and the lists that `exit_client` takes him off
first are those tested with `Left`. Lines are what they do to their connection: register,
end the grace, be answered, leave. Several calls of `send` in one step find a socket in
the same mood, and every operator asks for every notice. `Patricia`: nodes,
parents, glue nodes and prefixes as the C code links them, addresses of three bits.
`Events`: the list in order of `next`, `event_run` step by step, handlers that add and delete.
`Loop`: `fd_table` with handlers, timers, `evcache`; `kernel`, `kq_fdlist`, `pollfds` are what each
mechanism has told the kernel; a pass is walked entry by entry and a handler may do anything
(`Move`) before it returns. `owed` is history: what was reported and is to be served in this pass.
`Parsing`: `match`, `collapse`, the parameter loop of `parse`, `add_one_to_uid`, character by
character, compared with what they are to mean.

## 3. Properties

| Property | Says | Why it could fail |
|---|---|---|
| `TypeOK` (both modules) | types | |
| `NickUnique` | no server has two clients, registered or not, whose names compare equal | names are taken by six paths, each with its own treatment of unregistered holders |
| `Routes` | `servptr` chains and `from` lead through known servers to an established link; remote users hang on known servers | exits remove subtrees, introductions add leaves |
| `Masked` | what is reached through a link is allowed by its `hub_mask` and not denied by its `leaf_mask` | checked only when a server is introduced, by three early returns |
| `RoutingTree` | at rest, linked servers know the same servers, each on one side of each link | crossing introductions, SQUIT, losses |
| `UserAgreement` | at rest, linked servers have the same users, names and timestamps | collisions decided separately |
| `RightfulOwners` | only the user the timestamp rules condemn is killed | the rules depend on what each server happens to know |
| `Settles` | when the environment stops, the network comes to rest | answers that provoke answers |
| `UserExitsSpread`, `NoGhostServers` | an exit reaches the rest of the network | they are what comments and documents promise, and do not hold (section 5) |
| `MembersSound` | members are known users, operators members, an empty channel is freed | five ways to leave, any of them the last |
| `OpsEarned` | an operator became one on this version of the channel or an older one | MODEs and bursts cross the merge that invalidates them |
| `TsFalls` | the timestamp of a channel that lives on does not grow | three handlers set it |
| `LostBansGo` | a server that takes over an older timestamp removes its bans | two handlers do; holds of merges by SJOIN, not by JOIN (section 5) |
| `MembersAgree`, `VersionAgree`, `StatusAgree`, `ModesAgree`, `BansAgree` | at rest, linked servers have the same members, timestamp, operators, modes and limit, bans | each server merges in its own order of arrival; a message refused here may have been applied there |
| `CountsHold` | every reference count is the number of those who refer; class, address and descriptor limits bound those let in | a dozen paths attach, each error path must detach |
| `NoDangling` | a pending answer has someone waiting; blocks and classes in use exist; a client is on the list of its state and on dead_list from its exit | answers after exits, rehash during lookups, exits inside exits |
| `WatchedOver` | who is not registered has a timer or an answer coming | the lookups release in any order, some inside others |
| `ExitedOnce` | after its exit nothing happens to a client until it is freed | read and write errors, pings, KILL in the same pass |
| `AbortedFirst` | the assertion of `client.c:875` | does not hold (section 5) |
| `BansEnforced` | no one is on whom a ban in force matches and nothing exempts | bans, rehash, expiry, registration in any order; each kind checked elsewhere |
| `DatabaseKept` | a start finds exactly the bans of the last save that ended well | failures at every write, crash anywhere |
| `UsersAgree` | counts, operator list and modes agree | four commands and bursts change them, each counting by itself |
| `Remembered` | watchers were told the truth; watch, history and invitation lists agree on both sides and stay within bounds | renames and exits on many paths |
| `ConfigStands` | after any rehashes the configuration means what a fresh start on the same file would; classes and listeners in use stay and are counted; every command has an owner | settings not reset, blocks kept in use |
| `Conversation` | a message is passed on exactly when its sender may speak as things stand, remembered verdicts notwithstanding; floods are bounded; queries tell of secret channels and invisible users only whom they may, WHO tells of everyone once, LIST of every channel there was all the time | verdicts are cached and must be forgotten; LIST is interrupted |
| `FdsServed` | the kernel waits for what there are handlers for; a handler is of whom the descriptor is open for; what was reported is served in the pass; timers are not overdue; counts are right | handlers change the table being walked; numbers are used again |
| `TextsRead` | masks match what they mean and collapsing keeps that; parameters lose nothing; identifiers are not repeated before the others were given | backtracking to the last star only; carries |
| `Metered`, `StreamsKept`, `LinesParsed` | blocks are counted, queues bounded; connections get whole messages once and in order, ERROR and the last write included, and nothing once dead, refinement of `Streams`; everything said is acted on in the end | partial writes, deaths in mid-broadcast that release shared blocks, leaving with output queued, input in pieces |
| `PrefixesCounted` | the trie counts like a table of prefixes, refinement of `PrefixCounts` | glue nodes come and go |
| `EventsRun` | the list stays in order without doubles; after a pass nothing is overdue | handlers change the list |

*At rest* (`Quiet`) means every message parsed and both ends of every
connection in agreement. Safety of the merged state can only be asked there:
before, servers differ by design.

## 4. Runs

A run starts from each of a set of worlds, named in its cfg and defined in the
record `World` of the MC module: which servers may connect, which are linked
and who is online at first, and the budget `left`: how often the environment may
connect, lose a link, take a name, join and so on. Handlers are never bounded:
whatever is in flight is parsed. Linked worlds start at rest from a state that connects
and bursts reach. `CHECK_DEADLOCK FALSE` everywhere: a network whose environment
has used its budget comes to rest, that is what `Settles` asks.

| Run | Worlds | Question |
|---|---|---|
| `NetAgrees` | `kin`, `strangers`: two servers that burst, split and burst again, 4 names, with and without the same user@host; `star`: three in a row, 4 names of which two differ in case, a KILL; `rivals`: three users of fixed ages want two names; `squit`: 2 SQUITs, names, an exit; `triangle`: 3 servers all of which connect to all, 4 connects, 2 losses; `masks`: 4 servers with hub and leaf masks, a loss and a connect | do servers agree once at rest, and do pointers, names and masks hold all the way? |
| `NetSettles` | `triangle`, `kin`, and `relink`: KILL, SQUIT, registration, reconnection | does the exchange end? |
| `NetKillLost`, `NetSquitEcho` | `killed`, `relink` | section 5 |
| `ChanAgrees` | `pair`: two versions merge, split and merge again, 2 joins, 2 changes; `line`: three versions of ages 1, 2, 3 merge along a line, 2 changes; `linked`: operators at both ends of a line make 2 changes of any kind, and kick | same version, statuses, modes, bans |
| `ChanSplits` | `splits`, `kicks`: from nothing, two servers, 3 joins, part or kick, 2 changes of status, 2 connects, a loss; `members`, `relink`: three servers, joins, parts, exits, KILL, with and without a link lost and made | members; status is never carried to an older version |
| `ChanJoinBans`, `ChanKillBurst` | `rejoin`, `killed` | section 5 |
| `ConnLife` | `clients`: up to the limits of a class and an address; `lookups`: two connections with TLS, ident, DNS, cookie, a failed write; `server`: connecting out and in, a client killed, a failed write; `rehash`: blocks and classes replaced twice while in use | is everything counted, released and freed once, and no one forgotten? |
| `ConnAbort` | `clients` | section 5 |
| `Policies` | `enforce`, `database` (Bans); `modes`, `watch`, `history`, `invites` (Users); `config`; `talk`, `flood`, `ask` (Speech); `loop`; `texts`, `ids` (Parsing) | the properties of these modules |
| `Structures` | `send`: three messages to many, or a QUIT, a SQUIT or an end of connection in place of one, while sockets take parts, block and fail, and `exit_aborted_clients` at any time; `said`, `flood`: input in pieces, answers that fail; `trie`: four additions, two removals; `events`: three events, three touches | do queues and trie implement their abstractions, do events run? |

Two servers are enough for a burst and for collisions on one link; three in a row
for a message that is passed on and for one that is overtaken by another along a
second link; a triangle is the smallest cycle; four servers are needed for a
server behind a server behind a link. Two users make a collision, a third
one an operator or a rival with another age. Three versions of a channel are the
most that differ pairwise on three servers; two times per clock let two channels be
equally old or not. One mode that a channel has from the start, one that keeps users
out, one ban mask that matches a user of another server and one limit, below the
number of users, are enough for each branch of `can_join` and of the merge. Each
property of a passing run has a mutant of the code, listed in `PROJECT.json`,
that breaks it under the same bounds: the interesting case does occur.

Three connections fill a class of two and leave one refused; two addresses tell limits of
an address from those of a class; two blocks of a kind allow a rehash that replaces one in
use. Two descriptors make a table whose numbers are used again and a `pollfds` whose
last entry moves; three pending changes overflow kqueue's list of them. Masks of up to four or
five characters contain two stars with text between, which backtracking needs;
identifiers of two places over four characters carry and wrap. `Parsing` leaves out of `MasksRead` masks that
end in a backslash or have an escape right behind a wildcard (section 5). A read that
comes in pieces of two characters cuts every line end. Two files and an include show every block set,
changed, dropped and added.

The agreement properties are not true of everything the environment may do (section
5). In the worlds of `ChanAgrees` the members of each server's own channel `stay`
once they are on it, so that no version disappears in the middle of a merge and no
operator while his change is under way.

**Fairness.** In `MCStructures`: the timer `flood_recalc` of a connection runs again and
again as long as it is set (an event of every second); nothing is assumed of who speaks.
`MCFairness` (of IrcNet) is weak fairness of parsing what has
arrived and of noticing a closed connection, per link: `io_loop` polls all
descriptors in each turn, `read_packet` parses all complete lines for a server
(the flood limits exempt servers), and a closed socket is readable. Nothing is
assumed of the environment. Channel has no liveness property of its own: each
message makes at most one per link further away, so that it comes to rest as
soon as IrcNet does.

## 5. What does not hold

Five runs end in a counterexample to a sentence of the documentation or a comment:

* `NetKillLost`: a KILL is dropped where its sender has already been collided
  away; the victim stays there. `src/client.c:745`: "the rest of IRC network is
  notified of the exit"; `doc/technical/ts6.txt:38`: UIDs are there so that a
  message "will always reach the intended destination".
* `NetSquitEcho`: the SQUIT that answers an unknown server arrives after that server
  has linked again, and only one side takes it off. `src/parse.c:110`: it is sent
  "because it means there is a ghost user on the other server".
* `ChanJoinBans`: a JOIN with the older timestamp takes the modes and statuses
  of the newer version away but leaves its bans. `doc/technical/ts6.txt:252`: "A
  server receiving a JOIN must apply normal channel TS rules to the JOIN."
* `ChanKillBurst`: an SJOIN whose only user is no longer known lowers the timestamp and
  takes statuses away on the server it reaches and is not passed on. `ts6.txt:236`
  says of SJOIN what it says of JOIN.

* `ConnAbort`: a client whose write failed is exited by a command of another in the same
  pass, while still on `abort_list`. `src/client.c:875` asserts it is not. Nothing worse
  follows without assertions: it is taken off before it is freed (`NoDangling`).

The first four need a reconnection, a collision or a KILL within one round trip, and the next
split of the links concerned repairs them. Other limits of the protocol came up
while the worlds were chosen. No sentence of the repository promises otherwise,
so no run shows them; the budgets of the agreement properties stay clear of them:

* a SQUIT whose sender has been killed is dropped like the KILL of `NetKillLost`;
* a KILL exits the user without QUIT; if it is lost with a link, the next burst
  brings the user back where its server no longer has it, or keeps it;
* a KICK that crosses a PART and a new JOIN of its victim, on a line, removes the
  member on some servers only; so does a +o that crosses them, of its status;
* the last member, or the last operator, who leaves while bursts cross can leave
  two servers with different versions;
* a TMODE of an operator killed meanwhile is dropped on some servers and applied on
  others; a KILL sent over a link now lost may meet the user brought back by the
  next;
* modes and statuses taken away during a burst between equally old versions come
  back on one side; three toggles of one mode from two ends may end differently.

Other behaviour of one server that a reader may not expect, met while modelling; the
models follow the code:

* UNKLINE and UNDLINE of a mask narrower than a recorded one find the wider record,
  announce its removal and remove nothing (`delete_one_address_conf` looks in the bucket
  of the mask given). An expired ban not yet swept still refuses a new one.
* `check_conf_klines` stops at the first kind of ban a client meets, exempt or not.
* `m_xline.c` passes the mask where `cluster_distribute` expects the duration.
* SVSMODE -o takes operator-only modes off without counting invisible users down when
  one of them is the mode for invisible; user modes for administrators may stay.
* Saving and loading a database reverses the order of its entries; when `fclose` fails the
  temporary file stays.
* A rehash keeps what an earlier `class { name = "default"; }` made of the default class,
  the period of the links event when the setting is dropped, `me.info` when no
  description is given, and forgets AUTOCONN set by SET. Changing only
  `number_per_cidr` does not rebuild the counts.
* RELOAD * with a core module that is also named in modules {} ends the server, and so does
  a core module no longer found. A pseudo command shadows a module's of the same name, and
  unloading the module removes the pseudo's.
* An empty line ends a round of parsing though whole lines follow; accepted connections
  go on at the next timer, connections made to servers at their next input.
* epoll, kqueue and /dev/poll may call the new owner of a descriptor closed and opened
  again within a pass, without need; poll skips, for one pass, an entry moved before its
  place; /dev/poll takes no notice of errors.
* In `match` an escape right behind `*` is forgotten when the search goes back to that
  star, and one right behind `?` is taken for a backslash; the comment at `match.c:30`
  knows no such exception. `TextsRead` leaves these masks out.
* The remembered silence of a member is not forgotten when its account, user modes, class,
  certificate or other channels change; extended bans on these are late. An invalid
  extended ban of another server is kept and matches nothing.
* The limit of WHO is no limit any more once reached inside a channel, and a WHO cut off
  there leaves invisible users marked, whom the next WHO skips. WHO of a private channel
  lists its visible members to outsiders though NAMES and WHOIS do not.
* KILL finds connections that have sent NICK but are not registered, whose `servptr` is
  not set yet; IrcNet's KILL is of registered users only.

## 6. Proofs

`IrcNetProofs` proves, for any finite sets of servers and users, any
nicknames, masks, hubs and clocks, under the named assumptions of `IrcNet`:

| Theorem | States |
|---|---|
| `TypeCorrect` | `Spec => []TypeOK` |
| `NamesUnique` | `Spec => []NickUnique` |
| `RoutesLead` | `Spec => []Routes` |
| `MasksBind` | `Spec => []Masked` |

The inductive invariant is `Inv == TypeOK /\ NickUnique /\ Routes /\ Masked`.
The four need each other: that a refused or exited server leaves no
dangling pointer uses that chains are closed (`Routes`), an introduced server
lands behind its link by the same fact, a user introduced with its server's
prefix finds its server known, and the types make the tables functions.
All four speak of one server's tables and a step changes one server's tables (a
new connection changes the link state of two), so the proof is in two layers:
operations on tables (`DropUser`, `DropServer`, `AddServer`, ...) keep `TableInv`;
each action is a `Step` whose new tables come from those operations and
whose messages are well-typed. `Routes` was first stated with the chain as a set
of servers that is closed downwards: `servptr` is then determined by it, and no
induction along the chain is needed.

`ChannelProofs` proves, for any servers and links, any users, modes, masks, limits
and clocks, under the assumptions of `Channel` (types only; that `Side` is a tree
is not needed):

| Theorem | States |
|---|---|
| `TypeCorrect` | `Spec => []TypeOK` |
| `MembersAreSound` | `Spec => []MembersSound` |
| `StatusEarned` | `Spec => []OpsEarned` |
| `TimestampFalls` | `Spec => TsFalls` |

`OpsEarned` speaks of tables, but status comes out of messages: an SJOIN or a +o
that was sent before a merge arrives after it, or after the next. The inductive
invariant therefore says of messages what it says of tables (`GoodMessage`):
whoever an SJOIN names as operator, or a TMODE makes one, has earned it at the
message's timestamp or before. What is earned at a time is earned at any later one
(`HadLasts`), and that is all the merge needs: `ms_sjoin` gives status only if the
message is not newer than the channel, in which case the result has the message's
timestamp; `ms_tmode` only if it is not newer, in which case the channel's
timestamp covers it. What is passed on bears the result's timestamp. One lemma per
operation on a channel (`LeaveGood`, `ChangedGood`, `SjoinedGood`, `JoinedGood`,
`BurstGood`) and one per action; `StepKept` puts the tables and messages of a
`Step` into the invariant of the whole. `TsFalls` comes from the same lemmas: they
conclude `Falls` for the one channel that changes.

`LoopProofs` proves, for any number of descriptors, any length of kqueue's list and any
bounds:

| Theorem | States |
|---|---|
| `InvariantHolds` | `LoopSpec => []LoopInv` |
| `HandlersOwned` | `LoopSpec => []OwnHandlers` |
| `DescriptorsCounted` | `LoopSpec => []FdsCounted` |

The one assumption is that the number of descriptors is natural. `OwnHandlers` and
`FdsCounted` are parts of `FdsServed`, which the run `Policies` checks. `LoopInv` is the
two and the types: `fd_open` takes the lowest number that is closed, and that there is
one follows from the count (`number_fd < Fds`); that the new owner inherits nothing
follows from `OwnHandlers` of the closed entry. `SetselectTable` is the lemma the steps
rest on: whichever of the four ways the kernel is told, `comm_setselect` sets the
handlers named of one descriptor and nothing else but the places in `pollfds`, of which
no type is needed (`IsTable` leaves their set open). `Least` and `MaxOf` give `Min` and
`Max` their meaning, from the library's theorem that < is well founded on the naturals.

`ConnectionProofs` proves, for any number of connections, addresses, blocks and
classes, any limits and any configuration files, under `ConnAssumption` (the sets are
finite, connections and blocks are different things, limits are natural numbers):

| Theorem | States |
|---|---|
| `Invariance` | `Spec => []Inv` |
| `CountsAlwaysHold` | `Spec => []CountsHold` |
| `NothingDangles` | `Spec => []NoDangling` |
| `NobodyForgotten` | `Spec => []WatchedOver` |
| `ExitedOnceHolds` | `Spec => ExitedOnce` |

The inductive invariant (`ConnectionLemmas`) says that each connection is a free slot
(`Absent`), exited (`Closed`: on `dead_list`, and nothing refers to it) or `Live` and
`Settled`; that each count is the cardinality of what it counts (`Refs`); that blocks
and classes outlive those that use them (`Blocks`); and that the limits hold. The parts
need each other. A block is freed in `conf_detach` when its count falls to zero, and
that nobody is left who holds it follows from the count being a cardinality. That a
connection is never read while it is looked up is `Live`: lookups under way, a TLS handshake and
being read exclude each other. That admission keeps a limit follows from the count,
since those admitted are among those counted.

What makes it long is that a handler calls `exit_client` in the middle of its work and
goes on. Between the calls of a handler the connection it works on is not settled (it
is read, holds no block, and has no lookup), so the lemmas speak of `GoodBut(s, E)`: s is
good but for the connections E, which need not be `Settled`; each handler has to end with
E empty. One lemma per handler concludes that the state it leaves is good and that
connections exited before are untouched (`Follows`), and a handler that calls several
in a row composes them. `ExitGood` is the lemma the others rest on: in whatever state a
connection is, `exit_client` leaves it `Closed`, and calling it again changes nothing,
which is also all that `ExitedOnce` needs. Where the code exits many in a row (CLOSE, a
rehash that finds bans, the end of a pass), the model folds over a set; that the fold
keeps the invariant is induction over the set, done with a set of least size for which
it fails (`Least`, from the library's theorem that < is well founded), since the rule of
induction itself cannot be instantiated. TLC checked `Inv` on every world of
`MCConnection` before it was proved. `AbortedFirst` is refuted by a run (section 5).

`LoopProofs` also proves of `Events`, for any set of events, any periods and any clock, and whatever
handlers add and delete:

| Theorem | States |
|---|---|
| `EventsInvariance` | `EventsSpec => []EventsInv` |
| `EventsRunAlways` | `EventsSpec => []EventsRun` |

Its assumption is `WhenAssumption`: periods are at least a second. The code justifies it: every
`.when` of a `struct event` is a positive constant, but for that of the links event, which is
deleted, or not added, when its period is zero (`conf_parser.c:6350`, `ircd.c:487`). A pass of
`event_run` ends when the first event is not due, and since the list is sorted none is then; or it
ends with the number of runs it allowed itself, and the invariant says that there are never more
events due than runs left (`PassInv`). That needs the period: an event which has run is placed
behind the present, so each run leaves one event less that is due. It also needs the list to stay
sorted and without doubles whatever is deleted and placed in the middle of a pass (`RemoveAt`,
`Placed`).

`UsersProofs` proves, for any users, names, channels and memory for the history, any limits, any
`oper_umodes` and `oper_only_umodes`, and any set `Changes` of sequences of letters that a MODE or
SVSMODE may spell:

| Theorem | States |
|---|---|
| `UsersInvariance` | `UsersSpec(Changes) => []UsersInv` |
| `UsersAgreeAlways` | `UsersSpec(Changes) => []UsersAgree`, if `"i" \notin OperOnly` |
| `RememberedAlways` | `UsersSpec(Changes) => []Remembered` |

The named assumptions of `Users` are that slots and memory are finite and there is some memory,
that modes are modes, and that limits are natural numbers. `UsersAgreeAlways` has one hypothesis
more, and it is needed: SVSMODE -o takes `oper_only_umodes` from the user (`m_svsmode.c:129`) and,
unlike MODE, counts a change of `i` only at that letter. If invisible were one of
`oper_only_umodes`, an invisible operator that services depose would stay counted in
`Count.invisi`.

`UsersInv` is `Good` of the state between two commands. `Good` has eight parts: the state is
a record of its fields (`Formed`); operators and their list, count and blocks (`Operators`); the
count of invisible users (`Hidden`); no name is used twice (`OneName`); watched names are the same
on both sides (`Linked`); who watches knows who is on (`Known`); the history (`Past`); invitations
(`Invited`). What is stronger than the properties is `OneName`, without which a user who leaves a
name would make it look off while another has it; that a slot which is not a user of this server watches
nothing and is invited to nothing, and that one which is no user at all has no record of the history,
so that whoever takes the slot next starts clean; that no record is on the history twice, so
that the oldest can be taken from its end; and what makes the counts cardinalities.
The parts were checked by TLC on the worlds of `Policies` (whose steps about users are steps of
`UsersNext(Changes)`) before they were proved.

A handler makes several calls, and between them the sides disagree: a name is
said to be off before the user has another, a user is counted out before it is gone. So there is
no lemma that a call keeps `Good`; there is one for each part and call that can disturb
it, and `Only`, `AllBut` and the `Same...` definitions say what a call leaves alone, from which the
other parts follow (`ModesFrame`, `NamesFrame`, `PastFrame`, ...). `Known` is stated of a set of names
that are on, so that `Tells` can say what watchers know while a name changes. `Exits` and
`Renames` compose the calls of `exit_client` and of the ways to change a name. That any sequence of letters keeps the modes
as they are counted (`Spells`) is induction along the sequence: the fold has a solution on
the prefixes (`SpellingExists`), and a shortest prefix that breaks it is refuted (`Least`).

`ListLemmas` has what these proofs and those of bans and events need of lists: what is left of one
when the elements at some places are deleted (`PickedAre`, from `Ranks`, which numbers a set of
places in their order), when it is cut, and when one element is pushed, put in or removed.

`BansProofs` proves, for any connections, masks, clock and bounds:

| Theorem | States |
|---|---|
| `BansInvariance` | `BansSpec(Conf) => []BansInv` |
| `BansAreEnforced` | `BansSpec(Conf) => []BansEnforced` |
| `DatabasesAreKept` | `BansSpec(Conf) => DatabaseKept` |

`Conf` is any set of sequences of blocks that are not marked as stored in a database: the
mark is set by what reads a database and by the commands that set bans, never by the
grammar. `BansInv` has two halves. `Enforced` is `BansEnforced` said of the set of records:
a connection is spared or no record in force hits it. What operations do to the table is that it
`Thins` (it loses records, but no exempt block, and that is why lifting needs the
mark), gains a record that is then tried on everyone (`CheckedSafe`), or is replaced by
a rehash that tries everything (`Rechecked`); that `matches` and `list_find` find a
record exactly when there is one is proved of the lists themselves (`Matches`, `ListFound`). That a rehash may stop at the first kind of ban a client meets is harmless for
the same reason: the client either goes or is spared from all. `FileSound` and
`Writing` are the other half: a database file holds what it announces and what the last save to
end well had; the temporary file and what is left to write are together what is to be
saved, so that the rename publishes the whole. `Started` reads the four files into a
table that stores nothing yet: each adds its kind and leaves the others (`Loaded`).

Left to TLC:

* `ConfigStands` and `Conversation` (sequences of items and of members folded over states, for which
  each fold needs an induction of its own), and `FdsServed` but for the two parts above:
  `KernelKnows` depends on the places in `pollfds`, and `Attended` on what is left of a pass.
* Buffers, Patricia and Parsing, which use RECURSIVE operators: `Metered`, `TextsRead`, and the
  refinements of `Streams` and `PrefixCounts`.
* The agreement properties of `IrcNet` (`UserAgreement`, `RoutingTree`) and `Channel` (`MembersAgree`,
  `StatusAgree`, `ModesAgree`, `BansAgree`, `VersionAgree`): they are about quiet states, depend on
  everything that is in flight on all links at once, and hold under the budgets of
  section 4 only.
* `LostBansGo` (holds of runs without the JOIN of section 5 only), and `RightfulOwners`.
* `Settles` and `LinesParsed`, which are liveness under fairness and out of the prover's reach.

## 7. Plan

What would come next, most useful first:

1. In `Channel`: topics (a second timestamp with its own merge), keys, and the abstract
   merge (the oldest version wins, equal ones unite) as a refinement.
2. In `Connection`: two attempts between the same two servers that cross.
3. In `IrcNet`: SVSNICK, and ENCAP.
4. Proofs: `KernelKnows` of `Loop` (where the places in `pollfds` matter), and what a rehash keeps
   in `Config`.

## 8. Not modelled

TLS libraries, signals, logs, restarts, the random generator (library glue); `reslib.c`
(reading of DNS packets), the scanner and the tables of the grammar (generated);
queries that only format what they read (STATS, TRACE, VERSION, ...); texts of
numerics; allocation; vendored code (`libltdl`). TBURST, keys and join flood limits
of channels; parsing of mode strings; distribution of bans to a cluster; SVSJOIN,
SVSPART and SVSKILL, which call what is modelled elsewhere. Abstractions of Speech: the pace limits of WHO
are "the command does not happen", `opers_bypass_callerid` is on, WHO with no mask,
special targets (`$$`, `user@server`) and the warning of spambots are left out; the invitations, keys and
limits of channels are in Users and Channel.
