----------------------------- MODULE MCPolicies -----------------------------
(***************************************************************************)
(* What a server keeps towards its own clients, and what serves them, each in *)
(* worlds of its own, for TLC; what a world does not use stays as it began. *)
(***************************************************************************)
EXTENDS Bans, Users, Config, Speech, Loop, Parsing, TLC

CONSTANTS s1, s2, w1, w2, u1, u2, u3, n1, n2, k1, k2, h1, h2, r1, r2, t1, t2, t3, q1, q2, Worlds

VARIABLES world, left
mcvars == <<bansVars, usersVars, configVars, speechVars, loopVars, parsingVars, world, left>>

\* Masks: each value, and both; w2 alone is a name.
Addresses == {{w1}, {w1, w2}}
TooWide == {{w1, w2}}

Item(k, m, exempt) == [kind |-> k, mask |-> m, until |-> 0, db |-> FALSE, exempt |-> exempt]
Auth(m, exempt) == Item("auth", m, exempt)
Block(k, m) == Item(k, m, {})
All == {w1, w2}
Conf == [
  enforce  |-> {<<Auth(All, {})>>,
                <<Auth({w1}, {"kline"}), Auth({w2}, {"xline"}), Block("kline", All)>>,
                <<Block("exempt", {w1}), Auth(All, {}), Block("dline", {w1}), Block("xline", {w2})>>},
  database |-> {<<Block("shared", {}), Block("kline", {w1}), Auth(All, {})>>}]

\* Changes of user modes: one letter or two.
Change == [m : {"o", "i", "a", "w"}, add : BOOLEAN]
Changes == {<<x>> : x \in Change} \cup {<<x, y>> : x, y \in {z \in Change : z.m # "w"}}

\* Configurations: the second changes, drops and adds to what the first says.
On(b, items) == [block |-> b, items |-> items]
Is(k, v) == [k |-> k, v |-> v]
Include(f) == [block |-> "include", file |-> f]
ConfFiles == [
  first |-> <<
    On("serverinfo", <<Is("name", "A"), Is("description", "here"), Is("network_name", "net"), Is("max_nick_length", 9)>>),
    Include("classes"),
    On("general", <<Is("max_targets", 5), Is("oper_umodes", {"b"})>>), On("admin", <<Is("email", "x")>>),
    On("listen", <<Is("flags", {"server"}), Is("port", 1), Is("addr", "lo"), Is("port", 2)>>),
    On("operator", <<Is("name", "o"), Is("rpass", "p"), Is("class", "gone"), Is("modes", {"b"}), Is("privs", {"kill"}), Is("mask", "h"), Is("mask", "g")>>),
    On("connect", <<Is("name", "B"), Is("addr", "b"), Is("rpass", "p"), Is("spass", "p"), Is("flags", {"autoconn"})>>),
    On("file", <<Is("type", <<"user">>), Is("path", "log1")>>),
    On("pseudo", <<Is("command", "C1"), Is("name", "c"), Is("target", "t")>>),
    On("motd", <<Is("mask", "c1"), Is("path", "other")>>),
    On("modules", <<Is("path", "auto"), Is("module", "m1")>>),
    On("resv", <<Is("name", "q"), Is("exempt", "x")>>), On("kill", <<Is("user", "u")>>),
    On("serverhide", <<Is("flatten_links_delay", 1)>>)>>,
  classes |-> <<
    On("class", <<Is("class", "c1"), Is("max_total", 2), Is("cidr", 1), Is("min_idle", 1), Is("max_idle", 2)>>),
    On("auth", <<Is("mask", "h"), Is("class", "c1"), Is("spoof", "s"), Is("flags", {"exceed"})>>),
    Include("classes")>>,
  second |-> <<
    On("serverinfo", <<Is("name", "Z"), Is("max_nick_length", 99)>>),
    On("class", <<Is("class", "c1"), Is("max_total", 1), Is("cidr", 9), Is("max_recvq", 0)>>),
    On("class", <<Is("class", "c2")>>),
    On("auth", <<Is("class", "c2"), Is("mask", "h")>>),
    On("listen", <<Is("addr", "lo"), Is("flags", {"defer"}), Is("port", 2), Is("addr", ""), Is("port", 3)>>),
    On("file", <<Is("path", "log2"), Is("type", <<"user", "oper">>)>>),
    On("modules", <<Is("path", "core")>>),
    On("pseudo", <<Is("command", "C2"), Is("name", "c"), Is("target", "t")>>),
    On("motd", <<Is("mask", "c1"), Is("mask", "c2"), Is("path", "motd")>>),
    On("shared", <<Is("type", {"kline"})>>), On("cluster", <<>>), On("service", <<Is("name", "S")>>),
    On("exempt", <<Is("ip", "i")>>), On("deny", <<Is("addr", "d"), Is("rpass", "r")>>), On("gecos", <<Is("name", "g")>>)>>]
ConfDefaults == [max_targets |-> 4, max_nick_length |-> 9, network_name |-> "debian", flatten_links_delay |-> 0,
  oper_umodes |-> {"a", "b"}, oper_only_umodes |-> {"b"}]
ConfBounds == [max_nick_length |-> <<9, 30>>, max_recvq |-> <<1, 3>>, cidr |-> <<0, 2>>]
ConfCore == <<"m2">>
ConfAdds == [m \in Module |-> CASE m = "m1" -> "C1" [] m = "m2" -> "C2" [] OTHER -> "C3"]

\* People in channels: who they are, what is said of them, what they may say.
SpeechOrder == <<t1, t2, t3>>
RoomTable == <<<<q1>>, <<q2>>>>
Talk(local, modes) == [local |-> local, modes |-> modes, ident |-> "x", real |-> "y", gecos |-> "g", certfp |-> "none",
                       account |-> "none", class |-> "c", accepts |-> {"z"}, count |-> 0, first |-> 0]
Ban(kind, arg, act) == [kind |-> kind, arg |-> arg, act |-> act]
SomeBans == {Ban("ident", {"x"}, ""), Ban("ident", {"x"}, "mute"), Ban("account", {"A"}, ""), Ban("server", TRUE, "nick"),
             Ban("channel", [room |-> q1, status |-> {}], "join")}
Spelt(b) == (IF b.act = "" THEN <<>> ELSE <<b.act>>) \o IF b.kind = "ident" THEN <<>> ELSE <<b.kind>>
TwoActs == <<"mute", "join">>
ListLimit == [x \in BOOLEAN |-> IF x THEN 9 ELSE 2]
Targets == {<<[to |-> q1, type |-> ""]>>, <<[to |-> q1, type |-> "@"], [to |-> t3, type |-> ""], [to |-> q1, type |-> ""]>>}

\* Texts of few characters.
Cases == "A" :> "a" @@ "a" :> "a"
SomeMasks == SeqOf({"a", "b", "*", "?", "\\"}, 4) \cup SeqOf({"A", "b", "*"}, 5)
SomeNames == SeqOf({"a", "b"}, 4) \cup SeqOf({"A", "*", "b"}, 3)
SomeLines == SeqOf({"x", " ", ":"}, 6)
AtoZ == <<"A", "B">>
Zero9 == <<"0", "1">>

World == [
  loop     |-> [x |-> 0],
  texts    |-> [reads |-> 1],
  ids      |-> [x |-> 0],
  talk     |-> [change |-> 3, say |-> 3],
  flood    |-> [change |-> 0, say |-> 5],
  ask      |-> [change |-> 1, ask |-> 2],
  config   |-> [read |-> 2, change |-> 1],
  modes    |-> [come |-> 2, do |-> 2],
  watch    |-> [come |-> 4, do |-> 4],
  history  |-> [come |-> 3, do |-> 3],
  invites  |-> [come |-> 2, do |-> 3],
  enforce  |-> [who |-> All, ban |-> 2, start |-> 2, fails |-> 0],
  database |-> [who |-> {}, ban |-> 3, start |-> 3, fails |-> 1]]

Spend(k) == left[k] > 0 /\ left' = [left EXCEPT ![k] = @ - 1]

BansWorld ==
  LET w == World[world] IN
  \/ /\ UNCHANGED left
     /\ \/ \E s \in Slot : Register(s) \/ \E x \in w.who : Accept(s, x)
        \/ world = "enforce" /\ (Tick \/ cleanup_tklines)
        \/ \E x \in w.who : TryNick(x)
  \/ Spend("ban") /\ IF world = "enforce" THEN Commands
                     ELSE \E q \in {{w1}, {w2}} : mo_kline(q, 0) \/ mo_resv(q, 0) \/ mo_unkline(q) \/ mo_unresv(q)
  \/ Spend("start") /\ \E c \in Conf[world] : Start(c) \/ conf_rehash(c)
  \/ /\ world = "database" /\ UNCHANGED left
     /\ \/ save_all_databases(FALSE) \/ save_all_databases(TRUE) \/ Crash
        \/ open_db_write(FALSE) \/ write_record(FALSE) \/ close_db("done")
  \/ Spend("fails") /\ (open_db_write(TRUE) \/ write_record(TRUE) \/ close_db("fclose") \/ close_db("rename"))

\* Users come, change names and go.
People ==
  \/ /\ Spend("come")
     /\ \E c \in User, n \in Nick : \/ mr_nick(c, n)
                                   \/ uid_from_server(c, n, IF world = "modes" THEN {"o", "i"} ELSE {})
  \/ /\ UNCHANGED left
     /\ \E c \in User : \/ register_local_user(c, world = "modes")
                        \/ (world # "invites" /\ Quit(c))
  \/ /\ Spend("do") /\ world \in {"watch", "history"}
     /\ \E c \in User, n \in Nick, oper \in BOOLEAN :
          change_local_nick(c, n, oper) \/ change_remote_nick(c, n) \/ ms_svsnick(c, n)

UsersWorld ==
  \/ People
  \/ /\ world = "modes" /\ Spend("do")
     /\ \E c \in User : \/ \E x \in Changes : set_user_mode(c, x) \/ ms_svsmode(c, x)
                        \/ \E admin, tagged \in BOOLEAN : oper_up(c, admin, tagged)
                        \/ \E clear \in BOOLEAN : ms_svstag(c, clear)
  \/ /\ world = "watch" /\ Spend("do")
     /\ \E c \in User, n \in Nick, what \in {"+", "-", "C"} : m_watch(c, n, what)
  \/ /\ world = "history" /\ Spend("do") /\ \E length \in 0..2 : Rehash(length)
  \/ /\ world = "invites" /\ Spend("do")
     /\ \/ \E c, d \in User, ch \in Channel, only \in BOOLEAN : m_invite(c, d, ch, only) \/ ms_invite(d, ch, only)
        \/ \E c \in User, ch \in Channel : m_knock(c, ch) \/ channel_do_join(c, ch)
        \/ \E ch \in Channel : channel_free(ch) \/ ms_sjoin(ch)
        \/ \E message \in BOOLEAN : do_away(u1, message)
        \/ \E add \in BOOLEAN : m_accept(u1, n2, add)
        \/ \E c \in User : Quit(c)
  \/ world = "invites" /\ UsersTick /\ UNCHANGED left

ConfigWorld ==
  \/ /\ UNCHANGED left
     /\ \E c \in Holder : \/ conf_detach(c) \/ motd_send(c)
                          \/ \E i \in DOMAIN conf.lists["auth"], k \in DOMAIN conf.listeners : conf_attach(c, i, k)
  \/ Spend("read") /\ (rehash_motd \/ \E f \in {"first", "second", "none"} : rehash(f))
  \/ /\ Spend("change")
     /\ \/ \E m \in Module : module_load(m) \/ module_unload(m) \/ module_reload(m)
        \/ ReloadAll
        \/ \E i \in 1..1, on \in BOOLEAN : quote_autoconn(i, on)
        \/ \E p \in {"motd", "other"}, text \in 0..1 : Edit([disk EXCEPT !.motd[p] = text])
        \/ \E x \in disk.modules : Edit([disk EXCEPT !.modules = @ \ {x}])

SpeechWorld ==
  \/ /\ world = "talk" /\ Spend("change")
     /\ \/ \E b \in SomeBans : add_id(TRUE, q1, "ban", Spelt(b), b.arg) \/ del_id(q1, "ban", b)
        \/ add_id(TRUE, q1, "except", <<"gecos">>, {"g"}) \/ add_id(FALSE, q1, "ban", TwoActs, {"x"})
        \/ LowerTS(q1)
        \/ \E i \in {"x", "z"} : rename(t1, i) \/ user_set_hostmask(t1, i)
        \/ \E on \in BOOLEAN : set_status(t1, q1, "voice", on) \/ set_mode(q1, "m", on)
        \/ set_account(t1, "A")
        \/ \E r \in Room : remove_user_from_channel(t1, r) \/ enter(t1, r)
  \/ /\ world \in {"talk", "flood"} /\ Spend("say")
     /\ \/ world = "talk" /\ \E list \in Targets, text \in {"plain", "ctcp"} : m_message(t1, list, text, FALSE)
        \/ world = "flood" /\ \E c \in {t1, t2, t3}, x \in {q1, t1}, notice \in BOOLEAN :
                                m_message(c, <<[to |-> x, type |-> ""]>>, "plain", notice)
  \/ world = "flood" /\ UNCHANGED left /\ SpeechTick
  \/ /\ world = "ask" /\ Spend("change")
     /\ \/ \E c \in {t1, t3}, r \in Room : remove_user_from_channel(c, r) \/ enter(c, r)
        \/ \E r \in Room, on \in BOOLEAN : set_mode(r, "s", on)
        \/ \E on \in BOOLEAN : set_umode(t3, "i", on)
  \/ world = "ask" /\ UNCHANGED left /\ \E s \in {t1, t2} : ListOn(s)
  \/ /\ world = "ask" /\ Spend("ask")
     /\ \E s \in {t1, t2} :
          \/ m_list(s)
          \/ \E opers \in BOOLEAN, mask \in {{}, {"y"}} : who_global(s, mask, opers)
          \/ \E r \in Room : m_names(s, r) \/ m_topic(s, r) \/ \E opers \in BOOLEAN : who_channel(s, r, opers)
          \/ \E c \in {t2, t3} : who_person(s, c) \/ whois_person(s, c)

ParsingWorld ==
  \/ world = "texts" /\ Spend("reads") /\ \E s \in Masks \cup Lines : Reads(s)
  \/ world = "ids" /\ UNCHANGED left /\ (Comes \/ \E u \in uids : Goes(u))

\* Modes users may have at first, and channels they are in.
SpeechBegins ==
  /\ SpeechInit
  /\ CASE world \in {"talk", "flood"} ->
            /\ talkers = (t1 :> Talk(TRUE, {}) @@ t2 :> Talk(FALSE, IF world = "flood" THEN {} ELSE {"o"}) @@ t3 :> Talk(TRUE, {"g"}))
            /\ world = "flood" => links = [r \in Room |-> IF r = q1 THEN (t1 :> {} @@ t2 :> {} @@ t3 :> {"op"}) ELSE <<>>]
            /\ world = "talk" => links = [r \in Room |-> IF r = q1 THEN (t1 :> {} @@ t3 :> {"op"}) ELSE (t1 :> {})]
       [] world = "ask" ->
            /\ \E n \in {{}, {"o", "a"}}, h \in {{"i", "o", "H"}, {"p"}} :
                 talkers = (t1 :> Talk(TRUE, {}) @@ t2 :> Talk(TRUE, n) @@ t3 :> Talk(FALSE, h))
            /\ \E a \in {{t1, t3}, {t2, t3}}, b \in {{t1, t3}, {t2}} :
                 links = [r \in Room |-> [c \in IF r = q1 THEN a ELSE b |-> {}]]
       [] OTHER -> talkers = <<>> /\ links = [r \in Room |-> <<>>]

MCInit == /\ BansInit /\ UsersInit /\ ParsingInit /\ world \in Worlds /\ left = World[world]
          /\ SpeechBegins /\ LoopInit(IF world = "loop" THEN 1 ELSE 0) /\ (world # "loop" => mechanism = "epoll")
          /\ (world # "history" => history = 1)
          /\ ConfigInit(IF world = "config" THEN "first" ELSE "none", world = "config")
Served == <<loopVars, parsingVars>>
MCNext ==
  /\ CASE world \in {"enforce", "database"} -> BansWorld /\ UNCHANGED <<usersVars, configVars, speechVars, Served>>
       [] world = "config" -> ConfigWorld /\ UNCHANGED <<bansVars, usersVars, speechVars, Served>>
       [] world \in {"talk", "flood", "ask"} -> SpeechWorld /\ UNCHANGED <<bansVars, usersVars, configVars, Served>>
       [] world = "loop" -> LoopNext /\ UNCHANGED <<bansVars, usersVars, configVars, speechVars, parsingVars, left>>
       [] world \in {"texts", "ids"} -> ParsingWorld /\ UNCHANGED <<bansVars, usersVars, configVars, speechVars, loopVars>>
       [] OTHER -> UsersWorld /\ UNCHANGED <<bansVars, configVars, speechVars, Served>>
  /\ UNCHANGED world
MCSpec == MCInit /\ [][MCNext]_mcvars
=============================================================================
