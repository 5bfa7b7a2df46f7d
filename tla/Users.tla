------------------------------- MODULE Users --------------------------------
(***************************************************************************)
(* What one server keeps about the users it sees: their user modes and the  *)
(* counts made of them, who is an operator, the names watched and what the  *)
(* watchers were told, the nick history, and invitations to channels.  Each *)
(* of these is kept on two sides (a flag and a counter, a client's list and *)
(* a table's list), by handlers of several modules.                         *)
(***************************************************************************)
EXTENDS Lists, SequencesExt

CONSTANTS
  User,          \* slots for clients, local and of other servers
  Nick,          \* names
  Channel,       \* channels that are invited to
  Cell,          \* memory for the nick history
  OperOnly,      \* oper_only_umodes
  OperModes,     \* oper_umodes, or those of the operator block
  MaxWatch,      \* max_watch
  MaxInvites,    \* max_invites
  InviteExpire,  \* invite_expire_time, 0 when invitations do not expire
  PaceCount, PaceTime,   \* how many commands of a kind in how long a time
  MaxTime        \* bound of the clock

Umode == {"o", "i", "r", "a", "w"}

ASSUME SlotsAssumption == IsFiniteSet(User) /\ "none" \notin User /\ IsFiniteSet(Cell) /\ Cell # {}
ASSUME ModesAssumption == OperOnly \subseteq Umode /\ OperModes \subseteq Umode
ASSUME LimitsAssumption == MaxWatch \in Nat /\ MaxInvites \in Nat

VARIABLES
  users, count, oper_list,
  watchTable, told,          \* who watches a name, and which names were last said to be on
  whowas, cells, history,    \* whowas_list newest first, the records, whowas_history_length
  chans, time
usersVars == <<users, count, oper_list, watchTable, told, whowas, cells, history, chans, time>>

Paced == {"nick", "away", "invite", "knock"}
NoUser == [is |-> "none", local |-> FALSE, name |-> "", umodes |-> {}, oflag |-> FALSE, conf |-> FALSE,
           tags |-> {}, account |-> "", away |-> FALSE, watches |-> {}, whowas_list |-> {}, invited |-> <<>>,
           acceptlist |-> {}, pace |-> [k \in Paced |-> [last |-> 0, count |-> 0]]]

Named(us, n) == {c \in User : us[c].is # "none" /\ us[c].name = n}
Person(c) == users[c].is = "client"
find_person(us, n) == {c \in Named(us, n) : us[c].is = "client"}

\* The whole state, for handlers made of several calls.
State == [users |-> users, count |-> count, oper_list |-> oper_list, watchTable |-> watchTable,
          told |-> told, whowas |-> whowas, cells |-> cells, history |-> history, chans |-> chans]
Becomes(s) == /\ users' = s.users /\ count' = s.count /\ oper_list' = s.oper_list
              /\ watchTable' = s.watchTable /\ told' = s.told /\ whowas' = s.whowas
              /\ cells' = s.cells /\ history' = s.history /\ chans' = s.chans /\ UNCHANGED time

-----------------------------------------------------------------------------
(* Watching names. *)

\* Those who watch the name of c are told that it is on, or off.
watch_check_hash(s, c, on) ==
  LET n == s.users[c].name
  IN [s EXCEPT !.told = [w \in User |-> IF w \notin s.watchTable[n] THEN @[w]
                                        ELSE IF on THEN @[w] \cup {n} ELSE @[w] \ {n}]]

watch_add_to_hash_table(s, n, c) ==
  [s EXCEPT !.watchTable[n] = @ \cup {c}, !.users[c].watches = @ \cup {n}]
watch_del_from_hash_table(s, n, c) ==
  [s EXCEPT !.watchTable[n] = @ \ {c}, !.users[c].watches = @ \ {n}]
watch_del_watch_list(s, c) ==
  [s EXCEPT !.watchTable = [n \in Nick |-> IF n \in s.users[c].watches THEN @[n] \ {c} ELSE @[n]],
            !.users[c].watches = {}]

show_watch(s, c, n) ==
  [s EXCEPT !.told[c] = IF find_person(s.users, n) # {} THEN @ \cup {n} ELSE @ \ {n}]

\* WATCH +n, -n and C.
m_watch(c, n, what) ==
  /\ Person(c) /\ users[c].local /\ what \in {"+", "-", "C"}
  /\ CASE what = "+" -> /\ Cardinality(users[c].watches) < MaxWatch
                        /\ Becomes(show_watch(watch_add_to_hash_table(State, n, c), c, n))
       [] what = "-" -> Becomes(watch_del_from_hash_table(State, n, c))
       [] what = "C" -> Becomes(watch_del_watch_list(State, c))

-----------------------------------------------------------------------------
(* The nick history. *)

\* The oldest record leaves its lists.
whowas_unlink(s) ==
  LET w  == Last(s.whowas)
      on == s.cells[w].online
      t  == [s EXCEPT !.whowas = Front(@)]
  IN IF on \in User THEN [t EXCEPT !.users[on].whowas_list = @ \ {w}] ELSE t

\* The record for a new entry: at the limit the oldest one's.
whowas_make(s) ==
  IF s.whowas # <<>> /\ Len(s.whowas) >= s.history
  THEN [cell |-> Last(s.whowas), s |-> whowas_unlink(s)]
  ELSE [cell |-> CHOOSE w \in Cell : w \notin ToSet(s.whowas), s |-> s]

whowas_add_history(s, c, online) ==
  LET m == whowas_make(s)
      t == [m.s EXCEPT !.whowas = <<m.cell>> \o @,
                       !.cells[m.cell] = [name |-> s.users[c].name, online |-> IF online THEN c ELSE "none"]]
  IN IF online THEN [t EXCEPT !.users[c].whowas_list = @ \cup {m.cell}] ELSE t

whowas_off_history(s, c) ==
  [s EXCEPT !.cells = [w \in Cell |-> IF w \in s.users[c].whowas_list
                                      THEN [s.cells[w] EXCEPT !.online = "none"] ELSE s.cells[w]],
            !.users[c].whowas_list = {}]

\* A rehash with another whowas_history_length frees the oldest ones, down to one less.
whowas_trim(s, length) ==
  LET n    == Len(s.whowas)
      keep == IF n < length THEN n ELSE IF length = 0 THEN 0 ELSE length - 1
      gone == ToSet(SubSeq(s.whowas, keep + 1, n))
  IN [s EXCEPT !.whowas = SubSeq(@, 1, keep), !.history = length,
               !.users = [c \in User |-> [s.users[c] EXCEPT !.whowas_list = {w \in @ : w \notin gone \/ s.cells[w].online # c}]]]

Rehash(length) == /\ Becomes(whowas_trim(State, length))

\* The user a KILL or a message for an old name still reaches.
whowas_get_history(s, n) ==
  LET of == SelectSeq(s.whowas, LAMBDA w : s.cells[w].name = n)
  IN IF of = <<>> THEN "none" ELSE s.cells[Head(of)].online

-----------------------------------------------------------------------------
(* Invitations. *)

\* Invitations <<client, channel>> are deleted from both lists.
invite_del(s, gone) ==
  LET mine(c) == s.users[c].invited
      its(ch) == s.chans[ch].invites
  IN [s EXCEPT !.users = [c \in User |-> [s.users[c] EXCEPT
                           !.invited = Picked(@, {i \in DOMAIN mine(c) : <<c, mine(c)[i].channel>> \notin gone})]],
               !.chans = [ch \in Channel |-> [s.chans[ch] EXCEPT
                           !.invites = Picked(@, {i \in DOMAIN its(ch) : <<its(ch)[i].client, ch>> \notin gone})]]]
invite_clear(s, ch) == invite_del(s, {<<x.client, ch>> : x \in ToSet(s.chans[ch].invites)})
invite_clear_user(s, c) == invite_del(s, {<<c, x.channel>> : x \in ToSet(s.users[c].invited)})

Over(x) == InviteExpire # 0 /\ InviteExpire + x.when < time

\* Walks the shorter list, the channel's when they are alike, deleting what has expired
\* before it gets to the invitation.
invite_find(s, ch, c) ==
  LET mine == s.users[c].invited
      its  == s.chans[ch].invites
      walk == IF Len(mine) < Len(its)
              THEN [i \in DOMAIN mine |-> [client |-> c, channel |-> mine[i].channel, when |-> mine[i].when]]
              ELSE [i \in DOMAIN its |-> [client |-> its[i].client, channel |-> ch, when |-> its[i].when]]
      hits == {i \in DOMAIN walk : walk[i].client = c /\ walk[i].channel = ch /\ ~Over(walk[i])}
      upto == IF hits = {} THEN Len(walk) ELSE CHOOSE i \in hits : \A j \in hits : i <= j
      old  == {<<walk[i].client, walk[i].channel>> : i \in {j \in 1..upto : Over(walk[j])}}
  IN [found |-> hits # {}, s |-> invite_del(s, old)]

invite_add(s, ch, c) ==
  LET f == invite_find(s, ch, c)
      t == IF f.found THEN invite_del(f.s, {<<c, ch>>}) ELSE f.s
      mine == t.users[c].invited
      u == invite_del(t, {<<c, mine[i].channel>> : i \in {j \in DOMAIN mine : j >= MaxInvites}})
  IN [u EXCEPT !.users[c].invited = <<[channel |-> ch, when |-> time]>> \o @,
               !.chans[ch].invites = <<[client |-> c, when |-> time]>> \o @]

\* A command of kind k is refused after more than PaceCount of them; the count begins
\* again when the last one is more than PaceTime ago.
Pace(u, k) ==
  LET p == u.pace[k]
      n == IF p.last + PaceTime < time THEN 0 ELSE p.count
  IN [refused |-> n > PaceCount, to |-> [last |-> time, count |-> n + 1],
      reset |-> [p EXCEPT !.count = n]]

\* The inviter is an operator of the channel; the channel is invite-only or not.
m_invite(c, d, ch, only) ==
  LET p == Pace(users[c], "invite")
      s == [State EXCEPT !.users[c].pace["invite"] = p.to, !.chans[ch].last = time]
  IN /\ Person(c) /\ users[c].local /\ Person(d) /\ chans[ch].there
     /\ IF p.refused THEN Becomes([State EXCEPT !.users[c].pace["invite"] = p.reset])
        ELSE Becomes(IF users[d].local /\ only THEN invite_add(s, ch, d) ELSE s)

ms_invite(d, ch, only) ==
  LET s == [State EXCEPT !.chans[ch].last = time]
  IN /\ Person(d) /\ chans[ch].there
     /\ Becomes(IF users[d].local /\ only THEN invite_add(s, ch, d) ELSE s)

m_knock(c, ch) ==
  LET p == Pace(users[c], "knock")
  IN /\ Person(c) /\ chans[ch].there
     /\ Becomes(IF ~users[c].local THEN State
                ELSE [State EXCEPT !.users[c].pace["knock"] = IF p.refused THEN p.reset ELSE p.to])

\* A local user joins: an invitation is looked for, and used up.
channel_do_join(c, ch) ==
  LET f == invite_find([State EXCEPT !.chans[ch].there = TRUE], ch, c)
  IN /\ Person(c) /\ users[c].local
     /\ Becomes(IF f.found THEN invite_del(f.s, {<<c, ch>>}) ELSE f.s)

\* The channel is freed, or merged with an older one of another server.
channel_free(ch) == /\ chans[ch].there
                    /\ Becomes([invite_clear(State, ch) EXCEPT !.chans[ch].there = FALSE])
ms_sjoin(ch) == chans[ch].there /\ Becomes(invite_clear(State, ch))

-----------------------------------------------------------------------------
(* User modes. *)

Deopered(s, c) ==
  LET u   == s.users[c]
      off == [u EXCEPT !.umodes = @ \ {"o"}]
  IN [s EXCEPT !.users[c] = IF ~u.local THEN off
                            ELSE [off EXCEPT !.umodes = @ \ OperOnly, !.tags = @ \ {"oper"}, !.conf = FALSE, !.oflag = FALSE],
               !.count.oper = @ - 1,
               !.oper_list = IF u.local THEN @ \ {c} ELSE @]

Counted(s, c, before) ==
  LET now == s.users[c].umodes
  IN [s EXCEPT !.count.invisi = IF "i" \in now \ before THEN @ + 1
                                ELSE IF "i" \in before \ now THEN @ - 1 ELSE @]

Put(s, c, m, add) == [s EXCEPT !.users[c].umodes = IF add THEN @ \cup {m} ELSE @ \ {m}]

\* One letter of MODE on oneself; m is refused to who is no operator, or is not known.
UserMode(s, c, m, add) ==
  LET u == s.users[c] IN
  CASE m = "o" /\ add -> IF u.local \/ "o" \in u.umodes THEN s
                         ELSE [Put(s, c, "o", TRUE) EXCEPT !.count.oper = @ + 1]
    [] m = "o" /\ ~add -> IF "o" \in u.umodes THEN Deopered(s, c) ELSE s
    [] m = "r" -> s
    [] OTHER -> IF u.local /\ "o" \notin u.umodes /\ m \in OperOnly THEN s ELSE Put(s, c, m, add)

\* Mutation: the mode i is a mode like others.
ServiceModeUncounted(s, c, m, add) ==
  IF m = "o" THEN IF ~add /\ "o" \in s.users[c].umodes THEN Deopered(s, c) ELSE s
  ELSE Put(s, c, m, add)
ServiceMode(s, c, m, add) ==
  CASE m = "o" -> IF ~add /\ "o" \in s.users[c].umodes THEN Deopered(s, c) ELSE s
    [] m = "i" -> Counted(Put(s, c, "i", add), c, s.users[c].umodes)
    [] OTHER -> Put(s, c, m, add)

\* The letters of a command, one after the other.
Spelled(s, c, changes, service) ==
  FoldLeft(LAMBDA t, x : IF service THEN ServiceMode(t, c, x.m, x.add) ELSE UserMode(t, c, x.m, x.add), s, changes)

set_user_mode(c, changes) ==
  LET done == Spelled(State, c, changes, FALSE)
      u    == done.users[c]
      kept == IF u.local /\ "a" \in u.umodes /\ ~u.oflag THEN Put(done, c, "a", FALSE) ELSE done
  IN Person(c) /\ Becomes(Counted(kept, c, users[c].umodes))

\* OPER with the right name and password: the handler is that of users not operators yet.
Opered(s, c, admin) ==
  LET u == s.users[c]
  IN [s EXCEPT !.users[c] = [u EXCEPT !.conf = TRUE, !.oflag = admin, !.umodes = @ \cup {"o"} \cup OperModes],
               !.count.oper = @ + 1,
               !.oper_list = @ \cup {c}]
oper_up(c, admin, tagged) ==
  LET s == Counted(Opered(State, c, admin), c, users[c].umodes)
      t == IF admin THEN Put(s, c, "a", TRUE) ELSE s
  IN /\ Person(c) /\ users[c].local /\ "o" \notin users[c].umodes
     /\ Becomes(IF tagged THEN [t EXCEPT !.users[c].tags = @ \cup {"oper"}] ELSE t)

ms_svsmode(c, changes) ==
  Person(c) /\ Becomes(Spelled(State, c, changes, TRUE))

ms_svstag(c, clear) ==
  Person(c) /\ Becomes([State EXCEPT !.users[c].tags = IF clear THEN {} ELSE @ \cup {"tag"}])

\* AWAY with a message, or without.
do_away(c, message) ==
  LET p == Pace(users[c], "away") IN
  /\ Person(c)
  /\ IF ~message THEN Becomes([State EXCEPT !.users[c].away = FALSE])
     ELSE IF ~users[c].local THEN Becomes([State EXCEPT !.users[c].away = TRUE])
     ELSE IF p.refused THEN Becomes([State EXCEPT !.users[c].pace["away"] = p.reset])
     ELSE Becomes([State EXCEPT !.users[c].pace["away"] = p.to, !.users[c].away = TRUE])

m_accept(c, n, add) ==
  /\ Person(c) /\ users[c].local
  /\ Becomes([State EXCEPT !.users[c].acceptlist = IF add THEN @ \cup {n} ELSE @ \ {n}])

-----------------------------------------------------------------------------
(* Coming, changing names and leaving. *)

exit_client(s, c) ==
  LET u == s.users[c]
      mine == IF ~u.local THEN s ELSE [invite_clear_user(s, c) EXCEPT !.oper_list = @ \ {c}]
      off  == IF u.local THEN watch_del_watch_list(mine, c) ELSE mine
      uncounted == [off EXCEPT !.count.oper = IF "o" \in u.umodes THEN @ - 1 ELSE @,
                               !.count.invisi = IF "i" \in u.umodes THEN @ - 1 ELSE @]
      past == whowas_off_history(whowas_add_history(uncounted, c, FALSE), c)
      gone == IF u.is # "client" THEN s ELSE watch_check_hash(past, c, FALSE)
  IN [gone EXCEPT !.users[c] = NoUser, !.told[c] = {}]

Quit(c) == users[c].is # "none" /\ Becomes(exit_client(State, c))

\* A connection takes a nick no one has, and later registers.
mr_nick(c, n) == /\ users[c].is = "none" /\ Named(users, n) = {}
                 /\ Becomes([State EXCEPT !.users[c] = [NoUser EXCEPT !.is = "unknown", !.local = TRUE, !.name = n]])

register_local_user(c, invisible) ==
  LET s == [State EXCEPT !.users[c] = [@ EXCEPT !.is = "client", !.umodes = IF invisible THEN {"i"} ELSE {}],
                         !.count.invisi = IF invisible THEN @ + 1 ELSE @]
  IN users[c].is = "unknown" /\ Becomes(watch_check_hash(s, c, TRUE))

\* A user of another server, once the holder of the name is out of the way.
Freed(s, n) == LET unknown == {d \in Named(s.users, n) : s.users[d].is = "unknown"}
               IN IF unknown = {} THEN s ELSE exit_client(s, CHOOSE d \in unknown : TRUE)
uid_from_server(c, n, modes) ==
  LET s == [Freed(State, n) EXCEPT !.users[c] = [NoUser EXCEPT !.is = "client", !.name = n, !.umodes = modes],
                                   !.count.oper = IF "o" \in modes THEN @ + 1 ELSE @,
                                   !.count.invisi = IF "i" \in modes THEN @ + 1 ELSE @]
  IN /\ users[c].is = "none" /\ find_person(users, n) = {}
     /\ Becomes(watch_check_hash(s, c, TRUE))

\* A name that is the same but for the case of letters tells the watchers nothing.
Renamed(s, c, n) ==
  LET same  == s.users[c].name = n
      off   == IF same THEN s ELSE watch_check_hash([s EXCEPT !.users[c].umodes = @ \ {"r"}], c, FALSE)
      named == [whowas_add_history(off, c, TRUE) EXCEPT !.users[c].name = n]
  IN IF same THEN named ELSE watch_check_hash(named, c, TRUE)

change_local_nick(c, n, oper) ==
  LET p == Pace(users[c], "nick")
      paced == [State EXCEPT !.users[c].pace["nick"] = p.to]
  IN /\ Person(c) /\ users[c].local /\ Named(users, n) \subseteq {c}
     /\ oper = ("o" \in users[c].umodes)
     /\ IF p.refused /\ ~oper THEN Becomes([State EXCEPT !.users[c].pace["nick"] = p.reset])
        ELSE Becomes(Renamed(paced, c, n))

change_remote_nick(c, n) ==
  /\ Person(c) /\ ~users[c].local /\ find_person(users, n) \subseteq {c}
  /\ Becomes(Renamed(Freed(State, n), c, n))

\* Mutation: no one is told that the old name is free.
ms_svsnick_silent(c, n) ==
  /\ Person(c) /\ users[c].local /\ Named(users, n) = {}
  /\ Becomes(watch_check_hash([whowas_add_history(State, c, TRUE) EXCEPT !.users[c].name = n], c, TRUE))

\* A service renames a local user: an unknown holder of the name goes, for a user the
\* renamed one does.
ms_svsnick(c, n) ==
  LET s == Freed(State, n)
      off == watch_check_hash(s, c, FALSE)
      named == [whowas_add_history([off EXCEPT !.users[c].umodes = @ \ {"r"}], c, TRUE) EXCEPT !.users[c].name = n]
  IN /\ Person(c) /\ users[c].local
     /\ IF find_person(users, n) \ {c} # {} THEN Becomes(exit_client(State, c))
        ELSE Becomes(watch_check_hash(named, c, TRUE))

UsersTick == time < MaxTime /\ time' = time + 1
             /\ UNCHANGED <<users, count, oper_list, watchTable, told, whowas, cells, history, chans>>

UsersInit ==
  /\ users = [c \in User |-> NoUser] /\ count = [oper |-> 0, invisi |-> 0] /\ oper_list = {}
  /\ watchTable = [n \in Nick |-> {}] /\ told = [c \in User |-> {}]
  /\ whowas = <<>> /\ cells = [w \in Cell |-> [name |-> "", online |-> "none"]]
  /\ history \in 0..Cardinality(Cell)
  /\ chans = [ch \in Channel |-> [there |-> FALSE, last |-> 0, invites |-> <<>>]] /\ time = 0

Watching == \E c \in User, n \in Nick, what \in {"+", "-", "C"} : m_watch(c, n, what)
Inviting ==
  \E c, d \in User, ch \in Channel, only \in BOOLEAN :
    \/ m_invite(c, d, ch, only) \/ ms_invite(d, ch, only) \/ m_knock(c, ch)
    \/ channel_do_join(c, ch) \/ channel_free(ch) \/ ms_sjoin(ch)
ModeCommands(Changes) ==
  \E c \in User, n \in Nick, x, y \in BOOLEAN :
    \/ \E changes \in Changes : set_user_mode(c, changes) \/ ms_svsmode(c, changes)
    \/ oper_up(c, x, y) \/ ms_svstag(c, x) \/ do_away(c, x) \/ m_accept(c, n, x)
Naming ==
  \E c \in User, n \in Nick, x \in BOOLEAN, modes \in SUBSET Umode :
    \/ Quit(c) \/ mr_nick(c, n) \/ register_local_user(c, x) \/ uid_from_server(c, n, modes)
    \/ change_local_nick(c, n, x) \/ change_remote_nick(c, n) \/ ms_svsnick(c, n)

\* Changes: the sequences of letters a MODE or SVSMODE may spell.
UsersNext(Changes) ==
  \/ Watching \/ Inviting \/ ModeCommands(Changes) \/ Naming \/ UsersTick
  \/ \E length \in 0..Cardinality(Cell) : Rehash(length)
UsersSpec(Changes) == UsersInit /\ [][UsersNext(Changes)]_usersVars

-----------------------------------------------------------------------------
(* Properties *)

\* Who has a mode is who was counted and listed for it, whichever of MODE, OPER, SVSMODE,
\* UID, registration and exit changed it; an operator of this server has a block attached
\* and no one else has its flags (m_mode.c:171, m_oper.c:61, m_svsmode.c:129, client.c:653).
UsersAgree ==
  LET with(m) == {c \in User : Person(c) /\ m \in users[c].umodes}
  IN /\ count.oper = Cardinality(with("o")) /\ count.invisi = Cardinality(with("i"))
     /\ oper_list = {c \in with("o") : users[c].local}
     /\ \A c \in User : users[c].local => /\ users[c].conf = (c \in oper_list)
                                          /\ users[c].oflag => c \in oper_list

\* A watcher was last told of each name it watches what is so: on when a user has it,
\* off when no one does (watch.c:72, m_watch.c:48; user.c:209, m_nick.c:227 and 290,
\* m_svsnick.c:124, client.c:679).
WatchersKnow ==
  \A c \in User : \A n \in users[c].watches : n \in told[c] <=> find_person(users, n) # {}

\* What is kept on two sides is the same on both: watched names, the history of users who
\* are on, and invitations; none is of a client that is gone, and each list is within its
\* limit (watch.c:116, whowas.c:57, channel_invite.c:72, client.c:787).
CrossLinked ==
  /\ \A c \in User, n \in Nick : n \in users[c].watches <=> c \in watchTable[n]
  /\ \A c \in User : Cardinality(users[c].watches) <= MaxWatch
  /\ \A c \in User, w \in Cell :
       w \in users[c].whowas_list <=> w \in ToSet(whowas) /\ cells[w].online = c
  /\ Len(whowas) <= (IF history = 0 THEN 1 ELSE history)
  /\ \A c \in User, ch \in Channel :
       {x.when : x \in {y \in ToSet(users[c].invited) : y.channel = ch}}
         = {x.when : x \in {y \in ToSet(chans[ch].invites) : y.client = c}}
  /\ \A c \in User : Len(users[c].invited) <= MaxInvites \/ Len(users[c].invited) = 1

\* Who is to be remembered, on whatever list, is, on both its sides and only while it is there.
Remembered == WatchersKnow /\ CrossLinked
=============================================================================
