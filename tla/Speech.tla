------------------------------- MODULE Speech --------------------------------
(***************************************************************************)
(* Who is heard and what is told: messages to channels and users, with the  *)
(* bans, the silences remembered with a member, and the limits on floods;   *)
(* and the queries NAMES, WHO, WHOIS, LIST and TOPIC, which tell who is in  *)
(* which channel.  One server, with users of its own and of others.         *)
(*                                                                         *)
(* A user is known by ident (its name, user name and host, as everyone sees *)
(* them), real (its real host), gecos, certfp and account, values that     *)
(* masks, sets of values, match.                                            *)
(***************************************************************************)
EXTENDS Integers, FiniteSets, SequencesExt, TLC

CONSTANTS
  Order,        \* the users, in the order of global_client_list
  Room,         \* channels
  Buckets,      \* what channelTable holds, bucket by bucket
  BanLimit,     \* max_bans, and with +L max_bans_large
  Reserved,     \* channels reserved to operators
  Burst, Window,   \* floodcount and floodtime
  MaxTargets,   \* max_targets
  WhoLimit,     \* WHO_MAX_REPLIES
  Ends          \* bound of the clock

Talker == ToSet(Order)
Privileged == {"op", "half", "voice"}
Cache == {"checked", "silenced", "mutechecked"}

VARIABLES
  talkers,      \* users
  rooms,        \* channels: modes, lists of bans, exceptions and invitations, floods
  links,        \* links[r][c]: the status of each member of a channel, and what is remembered of it
  marks,        \* users marked by a WHO
  said,         \* the targets of the last message, in order, and what came of each
  heard,        \* how often each channel and user was spoken to by those a flood is counted of
  shown,        \* what the last query has told
  tasks,        \* LISTs that go on as output drains
  clock
speechVars == <<talkers, rooms, links, marks, said, heard, shown, tasks, clock>>

Members(r) == DOMAIN links[r]
IsMember(c, r) == c \in Members(r)
Has(c, mode) == mode \in talkers[c].modes
SecretChannel(r)  == "s" \in rooms[r].modes
PubChannel(r)     == rooms[r].modes \cap {"s", "p"} = {}
Nothing == [kind |-> "none", by |-> "none", told |-> <<>>, full |-> FALSE]

-----------------------------------------------------------------------------
(* Bans: what each matches (kind, arg) and what it forbids (act). *)

\* Of a channel, or of those with a status in it, unless it may not be known.
extban_channel_matches(c, r, b) ==
  /\ PubChannel(b.arg.room) \/ b.arg.room = r
  /\ IsMember(c, b.arg.room)
  /\ b.arg.status = {} \/ links[b.arg.room][c] \cap b.arg.status # {}
extban_usermode_matches(c, b)  == b.arg.add \subseteq talkers[c].modes /\ b.arg.del \cap talkers[c].modes = {}
extban_operclass_matches(c, b) == talkers[c].local /\ Has(c, "o") /\ talkers[c].class \in b.arg
ban_matches(c, r, b) ==
  CASE b.kind \in {"ident", "account", "gecos", "certfp"} -> talkers[c][b.kind] \in b.arg
    [] b.kind = "channel"   -> extban_channel_matches(c, r, b)
    [] b.kind = "usermode"  -> extban_usermode_matches(c, b)
    [] b.kind = "operclass" -> extban_operclass_matches(c, b)
    [] b.kind = "server"    -> b.arg
find_bmask(c, r, list, act) == \E b \in rooms[r][list] : b.act = act /\ ban_matches(c, r, b)
Forbidden(c, r, act) == find_bmask(c, r, "ban", act) /\ ~find_bmask(c, r, "except", act)
is_banned(c, r) == Forbidden(c, r, "")

\* What is remembered of the members of a channel, or of one user in every channel.
clear_ban_cache_list(r) == [c \in Members(r) |-> IF talkers[c].local THEN links[r][c] \ Cache ELSE links[r][c]]
Forget(c) == [r \in Room |-> [d \in Members(r) |-> IF d = c THEN links[r][d] \ Cache ELSE links[r][d]]]

Rest(vs) == UNCHANGED vs /\ said' = <<>> /\ shown' = Nothing

\* The letters before a mask: what is forbidden, then what is matched.  Two that forbid make no
\* sense; a server's is kept nevertheless, and then matches nothing.
Acting == {"join", "mute", "nick"}
extban_parse(letters) ==
  LET is(valid, kind, act) == [valid |-> valid, kind |-> kind, act |-> act]
  IN IF letters = <<>> THEN is(TRUE, "ident", "")
     ELSE IF letters[1] \notin Acting THEN is(TRUE, letters[1], "")
     ELSE IF Len(letters) = 1 THEN is(TRUE, "ident", letters[1])
     ELSE is(letters[2] \notin Acting, IF letters[2] \in Acting THEN "ident" ELSE letters[2], letters[1])
Types(letter) == CASE letter \in Acting   -> {"ban", "except"}
                   [] letter = "server" -> {"ban", "invex"}
                   [] OTHER             -> {"ban", "except", "invex"}
add_id(local, r, list, letters, arg) ==
  LET e == extban_parse(letters)
      b == [kind |-> e.kind, act |-> e.act, arg |-> IF e.valid THEN arg ELSE {}]
      all == Cardinality(rooms[r].ban) + Cardinality(rooms[r].except) + Cardinality(rooms[r].invex)
  IN
  /\ local => /\ all < BanLimit["L" \in rooms[r].modes] /\ e.valid
              /\ \A i \in DOMAIN letters : list \in Types(letters[i])
  /\ Members(r) # {} /\ b \notin rooms[r][list]
  /\ rooms' = [rooms EXCEPT ![r][list] = @ \cup {b}] /\ links' = [links EXCEPT ![r] = clear_ban_cache_list(r)]
  /\ Rest(<<talkers, marks, heard, tasks, clock>>)
del_id(r, list, b) ==
  /\ b \in rooms[r][list]
  /\ rooms' = [rooms EXCEPT ![r][list] = @ \ {b}] /\ links' = [links EXCEPT ![r] = clear_ban_cache_list(r)]
  /\ Rest(<<talkers, marks, heard, tasks, clock>>)
\* A server's older channel takes the lists away, and those who were something here are it no more.
LowerTS(r) ==
  /\ Members(r) # {}
  /\ rooms' = [rooms EXCEPT ![r] = [@ EXCEPT !.modes = {}, !.ban = {}, !.except = {}, !.invex = {}, !.topic = FALSE]]
  /\ links' = [links EXCEPT ![r] = [c \in Members(r) |-> clear_ban_cache_list(r)[c] \ Privileged]]
  /\ Rest(<<talkers, marks, heard, tasks, clock>>)

\* A name may not be changed in a channel that forbids it, to those without status in it.
CanRename(c) == \A r \in Room : IsMember(c, r) /\ links[r][c] \cap Privileged = {} =>
                                  "N" \notin rooms[r].modes /\ ~Forbidden(c, r, "nick")
\* A new name, by command or by services, or a new host.
\* Mutation: what is remembered is not forgotten.
NewIdentKept(c, i) == links' = links
NewIdent(c, i) == links' = IF talkers[c].local THEN Forget(c) ELSE links
rename(c, i) ==
  /\ talkers[c].ident # i /\ CanRename(c) /\ NewIdent(c, i)
  /\ talkers' = [talkers EXCEPT ![c].ident = i, ![c].modes = @ \ {"r"}]
  /\ Rest(<<rooms, marks, heard, tasks, clock>>)
user_set_hostmask(c, i) ==
  /\ talkers[c].ident # i /\ NewIdent(c, i) /\ talkers' = [talkers EXCEPT ![c].ident = i]
  /\ Rest(<<rooms, marks, heard, tasks, clock>>)

-----------------------------------------------------------------------------
(* Joining and leaving.  Invitations, keys and limits are in Users and Channel. *)

can_enter(c, r) ==
  /\ "S" \in rooms[r].modes => Has(c, "secure")
  /\ "R" \in rooms[r].modes => Has(c, "r")
  /\ "O" \in rooms[r].modes => Has(c, "o")
  /\ "i" \in rooms[r].modes => find_bmask(c, r, "invex", "")
  /\ ~is_banned(c, r) /\ ~Forbidden(c, r, "join")

enter(c, r) ==
  /\ ~IsMember(c, r) /\ (talkers[c].local /\ r \in Reserved => Has(c, "o"))
  /\ IF Members(r) = {}
     THEN /\ links' = [links EXCEPT ![r] = (c :> {"op"})]
          /\ rooms' = [rooms EXCEPT ![r] = [modes |-> {"n", "t"}, ban |-> {}, except |-> {}, invex |-> {}, topic |-> FALSE,
                                            count |-> 0, first |-> 0]]
     ELSE /\ talkers[c].local => can_enter(c, r)
          /\ links' = [links EXCEPT ![r] = (c :> {}) @@ @] /\ UNCHANGED rooms
  /\ heard' = [heard EXCEPT ![r] = IF Members(r) = {} THEN [t \in 0..Ends |-> 0] ELSE @]
  /\ Rest(<<talkers, marks, tasks, clock>>)

\* A channel goes with its last member.
remove_user_from_channel(c, r) ==
  /\ IsMember(c, r) /\ links' = [links EXCEPT ![r] = Restrict(@, Members(r) \ {c})]
  /\ tasks' = [d \in DOMAIN tasks |-> [tasks[d] EXCEPT !.since =
                 IF Members(r) = {c} \/ (d = c /\ SecretChannel(r)) THEN @ \ {r} ELSE @]]
  /\ Rest(<<talkers, rooms, marks, heard, clock>>)

set_status(c, r, flag, on) ==
  /\ IsMember(c, r) /\ links' = [links EXCEPT ![r][c] = IF on THEN @ \cup {flag} ELSE @ \ {flag}]
  /\ Rest(<<talkers, rooms, marks, heard, tasks, clock>>)
set_mode(r, m, on) ==
  /\ Members(r) # {} /\ rooms' = [rooms EXCEPT ![r].modes = IF on THEN @ \cup {m} ELSE @ \ {m}]
  /\ tasks' = [d \in DOMAIN tasks |-> [tasks[d] EXCEPT !.since = IF m = "s" THEN @ \ {r} ELSE @]]
  /\ Rest(<<talkers, links, marks, heard, clock>>)
set_umode(c, m, on) ==
  /\ talkers' = [talkers EXCEPT ![c].modes = IF on THEN @ \cup {m} ELSE @ \ {m}]
  /\ Rest(<<rooms, links, marks, heard, tasks, clock>>)
set_account(c, a) == talkers' = [talkers EXCEPT ![c].account = a] /\ Rest(<<rooms, links, marks, heard, tasks, clock>>)

-----------------------------------------------------------------------------
(* Speaking.  w is what a message may change: members, floods, who heard. *)

\* Of a member it is found out once, and remembered until bans or its name change.
Silence(w, c, r) ==
  LET f == IF c \in DOMAIN w.links[r] THEN w.links[r][c] ELSE {}
      g == f \cup {"checked"}
      Says(no, flags) == [no |-> no, flags |-> flags]
  IN IF ~talkers[c].local THEN Says(FALSE, f)
     ELSE IF c \notin DOMAIN w.links[r] THEN Says(is_banned(c, r) \/ Forbidden(c, r, "mute"), f)
     ELSE IF "silenced" \in f THEN Says(TRUE, f)
     ELSE IF "checked" \notin f /\ is_banned(c, r) THEN Says(TRUE, g \cup {"silenced"})
     ELSE IF "mutechecked" \in f THEN Says(FALSE, g)
     ELSE Says(Forbidden(c, r, "mute"), g \cup {"mutechecked"} \cup IF Forbidden(c, r, "mute") THEN {"silenced"} ELSE {})

Barred(c, r, text, notice) ==
  \/ r \in Reserved /\ talkers[c].local /\ ~Has(c, "o")
  \/ "c" \in rooms[r].modes /\ text = "ctrl"
  \/ "C" \in rooms[r].modes /\ text = "ctcp"
Quieted(c, r, notice) ==
  \/ "n" \in rooms[r].modes /\ ~IsMember(c, r)
  \/ "m" \in rooms[r].modes
  \/ "M" \in rooms[r].modes /\ ~Has(c, "r")
  \/ "T" \in rooms[r].modes /\ notice
can_send(w, c, r, text, notice) ==
  LET f == IF c \in DOMAIN w.links[r] THEN w.links[r][c] ELSE {}
      is(a) == [answer |-> a, flags |-> f]
      s == Silence(w, c, r)
  IN IF Has(c, "service") THEN is("opv")
     ELSE IF Barred(c, r, text, notice) THEN is("no")
     ELSE IF f \cap Privileged # {} THEN is("opv")
     ELSE IF Quieted(c, r, notice) THEN is("no")
     ELSE [answer |-> IF s.no THEN "no" ELSE "nonop", flags |-> s.flags]

\* Windows of messages: the first after the last one ends begins another.
InWindow(q) == IF q.first + Window < clock THEN [q EXCEPT !.count = 0, !.first = clock] ELSE q
NoFlood(c) == Has(c, "o") \/ Has(c, "service")
More(q) == [q EXCEPT !.count = @ + 1]
flood_attack_channel(w, c, r) ==
  LET q == InWindow(w.rooms[r]) full == q.count >= Burst
  IN IF NoFlood(c) THEN [attack |-> FALSE, w |-> w]
     ELSE [attack |-> full /\ talkers[c].local, w |-> [w EXCEPT !.rooms[r] = IF full /\ talkers[c].local THEN q ELSE More(q)]]
flood_attack_client(w, c, d) ==
  LET q == InWindow(w.talkers[d]) full == q.count >= Burst
  IN IF NoFlood(c) THEN [attack |-> FALSE, w |-> w]
     ELSE [attack |-> full, w |-> [w EXCEPT !.talkers[d] = IF full THEN q ELSE More(q)]]

Came(w, to, from, what, ok) == [w EXCEPT !.said = Append(@, [to |-> to, from |-> from, what |-> what, ok |-> ok])]
Heard(w, to) == [w EXCEPT !.heard[to][clock] = @ + 1]

\* Types: to all members, or to those of a status and above.
Least(type) == CASE type = "+" -> Privileged [] type = "%" -> {"op", "half"} [] type = "@" -> {"op"} [] OTHER -> {}
msg_channel(w, c, x, text, notice) ==
  LET r == x.to
      a == can_send(w, c, r, text, notice)
      v == IF IsMember(c, r) THEN [w EXCEPT !.links[r][c] = a.flags] ELSE w
      f == flood_attack_channel(v, c, r)
      what == [answer |-> a.answer, text |-> text, notice |-> notice,
               hear |-> {d \in Members(r) \ {c} : (x.type # "" => links[r][d] \cap Least(x.type) # {}) /\ ~Has(d, "D")}]
  IN CASE a.answer = "no"  -> Came(v, r, c, what, FALSE)
       [] a.answer = "opv" -> Came(v, r, c, what, TRUE)
       [] OTHER -> IF f.attack THEN f.w
                   ELSE Came(IF NoFlood(c) \/ ~talkers[c].local THEN f.w ELSE Heard(f.w, r), r, c, what, TRUE)

Together(c, d) == \E r \in Room : IsMember(c, r) /\ IsMember(d, r)
accept_message(c, d) ==
  \/ Has(c, "service") \/ Has(c, "o") \/ c = d \/ talkers[c].ident \in talkers[d].accepts
  \/ ~Has(d, "g") /\ Has(d, "G") /\ Together(c, d)
msg_client(w, c, d, text, notice) ==
  LET f == flood_attack_client(w, c, d)
      what == [answer |-> "person", text |-> text, notice |-> notice, hear |-> {d}]
  IN IF talkers[c].local /\ Has(d, "R") /\ d # c /\ ~Has(c, "r") /\ ~Has(c, "o") THEN w
     ELSE IF ~talkers[d].local THEN Came(w, d, c, what, TRUE)
     ELSE IF (Has(d, "g") \/ Has(d, "G")) /\ ~accept_message(c, d) THEN f.w
     ELSE IF f.attack THEN f.w
     ELSE Came(IF NoFlood(c) THEN f.w ELSE Heard(f.w, d), d, c, what, TRUE)

\* Those named, each but once, up to the limit; a status only by those who have one.
build_target_list(c, list) ==
  LET Named_(x) == CASE x.to \in Talker -> TRUE
                     [] Members(x.to) = {} -> FALSE
                     [] x.type = "" -> TRUE
                     [] OTHER -> Has(c, "service") \/ (IsMember(c, x.to) /\ links[x.to][c] \cap Privileged # {})
      one == FoldLeft(LAMBDA found, x : IF \E i \in DOMAIN found : found[i].to = x.to THEN found ELSE Append(found, x),
                      <<>>, SelectSeq(list, Named_))
  IN SubSeq(one, 1, IF Len(one) < MaxTargets THEN Len(one) ELSE MaxTargets)

m_message(c, list, text, notice) ==
  LET w0 == [talkers |-> talkers, rooms |-> rooms, links |-> links, heard |-> heard, said |-> <<>>]
      w  == FoldLeft(LAMBDA v, x : IF x.to \in Talker THEN msg_client(v, c, x.to, text, notice)
                                   ELSE msg_channel(v, c, x, text, notice), w0, build_target_list(c, list))
  IN /\ talkers' = w.talkers /\ rooms' = w.rooms /\ links' = w.links /\ heard' = w.heard /\ said' = w.said
     /\ shown' = Nothing /\ UNCHANGED <<marks, tasks, clock>>

SpeechTick == clock < Ends /\ clock' = clock + 1 /\ Rest(<<talkers, rooms, links, marks, heard, tasks>>)

-----------------------------------------------------------------------------
(* Queries.  What is told is a sequence of users, each with a channel it is in or none. *)

Asks(kind, s, told, full) == shown' = [kind |-> kind, by |-> s, told |-> told, full |-> full]
                             /\ said' = <<>> /\ UNCHANGED <<talkers, rooms, links, heard, clock>>
In(c, r) == [c |-> c, r |-> r]
List(S) == SelectSeq(Order, LAMBDA c : c \in S)
Each(cs, r) == [i \in DOMAIN cs |-> In(cs[i], r)]
Invisible(c) == Has(c, "i")

m_names(s, r) ==
  /\ Asks("names", s, IF PubChannel(r) \/ IsMember(s, r)
                      THEN Each(List({c \in Members(r) : IsMember(s, r) \/ ~Invisible(c)}), r) ELSE <<>>, TRUE)
  /\ UNCHANGED <<marks, tasks>>

\* WHO of a channel; opers alone if it says so.
OperShown(s, c, opers) == opers => Has(c, "o") /\ (Has(c, "H") => Has(s, "o"))
do_who_on_channel(s, r, member, opers) ==
  Each(List({c \in Members(r) : (member \/ ~Invisible(c)) /\ OperShown(s, c, opers)}), r)
who_channel(s, r, opers) ==
  LET inside == Has(s, "a") \/ IsMember(s, r)
  IN /\ Asks("channel", s, IF inside \/ ~SecretChannel(r) THEN do_who_on_channel(s, r, inside, opers) ELSE <<>>, TRUE)
     /\ UNCHANGED <<marks, tasks>>
\* WHO of a name: the user, with one channel of it that may be known.
who_person(s, c) ==
  LET known == {r \in Room : IsMember(c, r) /\ (PubChannel(r) \/ IsMember(s, r))}
  IN /\ \/ known = {} /\ Asks("person", s, <<In(c, "none")>>, TRUE)
        \/ \E r \in known : Asks("person", s, <<In(c, r)>>, TRUE)
     /\ UNCHANGED <<marks, tasks>>

who_matches(s, c, mask) ==
  \/ mask = {}
  \/ talkers[c].ident \in mask \/ talkers[c].gecos \in mask
  \/ Has(s, "o") /\ talkers[c].real \in mask

\* Whom a WHO has told of; at its limit it stops, and the limit is one no more.
Tell(a, c) ==
  [a EXCEPT !.told = Append(@, In(c, "none")), !.left = IF @ > 0 THEN @ - 1 ELSE @, !.stop = a.left = 1, !.cut = @ \/ a.left = 1]
\* Invisible users of channels in common are marked, lest another such channel tells of them again.
who_common_channel(s, a, r, mask, opers) ==
  FoldLeft(LAMBDA b, c :
    IF b.stop \/ ~IsMember(c, r) \/ ~Invisible(c) \/ c \in b.marks \/ ~OperShown(s, c, opers) THEN b
    ELSE LET m == [b EXCEPT !.marks = @ \cup {c}] IN IF who_matches(s, c, mask) THEN Tell(m, c) ELSE m,
    [a EXCEPT !.stop = FALSE], Order)
\* Then those who are visible, and the marks are taken off the others on the way.
who_visible(s, a, mask, opers) ==
  FoldLeft(LAMBDA b, c :
    IF b.stop THEN b
    ELSE IF Invisible(c) THEN [b EXCEPT !.marks = @ \ {c}]
    ELSE IF OperShown(s, c, opers) /\ who_matches(s, c, mask) THEN Tell(b, c) ELSE b,
    [a EXCEPT !.stop = FALSE], Order)
who_global(s, mask, opers) ==
  LET mine == SetToSeq({r \in Room : IsMember(s, r)})
      none == [told |-> <<>>, marks |-> marks, left |-> WhoLimit, stop |-> FALSE, cut |-> FALSE]
      all  == who_visible(s, FoldLeft(LAMBDA a, r : who_common_channel(s, a, r, mask, opers), none, mine), mask, opers)
  IN /\ Asks(IF mask = {} /\ ~opers THEN "everyone" ELSE "global", s, all.told, marks = {} /\ ~all.cut)
     /\ marks' = all.marks /\ UNCHANGED tasks

whois_can_see_channels(r, s, c) ==
  \/ PubChannel(r) /\ ~Has(c, "p")
  \/ s = c \/ IsMember(s, r) \/ Has(s, "o")
whois_person(s, c) ==
  /\ Asks("whois", s, LET rs == SetToSeq({r \in Room : IsMember(c, r) /\ whois_can_see_channels(r, s, c)})
                      IN [i \in DOMAIN rs |-> In(c, rs[i])], TRUE)
  /\ UNCHANGED <<marks, tasks>>
m_topic(s, r) ==
  /\ Members(r) # {}
  /\ \/ Asks("topic", s, IF ~SecretChannel(r) \/ IsMember(s, r) THEN <<In("topic", r)>> ELSE <<>>, TRUE)
        /\ UNCHANGED <<marks, tasks>>
     \/ /\ IsMember(s, r) /\ ("t" \in rooms[r].modes => links[r][s] \cap {"op", "half"} # {})
        /\ rooms' = [rooms EXCEPT ![r].topic = TRUE] /\ Rest(<<talkers, links, marks, heard, tasks, clock>>)

\* LIST: bucket after bucket, until output fills; on with the next when it has drained.
list_one_channel(s, r) == Members(r) # {} /\ (SecretChannel(r) => Has(s, "a") \/ IsMember(s, r))
safe_list_channels(s, task, full) ==
  LET last == IF full = 0 THEN Len(Buckets) ELSE full - 1
      told == task.told \o SelectSeq(FlattenSeq(SubSeq(Buckets, task.at, last)), LAMBDA r : list_one_channel(s, r))
  IN IF full = 0
     THEN /\ tasks' = [tasks EXCEPT ![s] = [at |-> 0, told |-> <<>>, since |-> {}]]
          /\ Asks("list", s, [i \in DOMAIN told |-> In("topic", told[i])],
                  \A r \in task.since : (SecretChannel(r) => Has(s, "a") \/ IsMember(s, r)) => r \in ToSet(told))
     ELSE tasks' = [tasks EXCEPT ![s] = [task EXCEPT !.at = full, !.told = told]] /\ Asks("none", "none", <<>>, FALSE)
Stops(at) == {0} \cup at..Len(Buckets)
m_list(s) ==
  /\ IF tasks[s].at > 0
     THEN tasks' = [tasks EXCEPT ![s] = [at |-> 0, told |-> <<>>, since |-> {}]] /\ Asks("none", "none", <<>>, FALSE)
     ELSE \E full \in Stops(1) :
            safe_list_channels(s, [at |-> 1, told |-> <<>>, since |-> {r \in Room : Members(r) # {}}], full)
  /\ UNCHANGED marks
ListOn(s) == tasks[s].at > 0 /\ (\E full \in Stops(tasks[s].at) : safe_list_channels(s, tasks[s], full)) /\ UNCHANGED marks

\* Who is in a channel already, and in what mode, varies.
SpeechInit ==
  /\ rooms = [r \in Room |-> [modes |-> {}, ban |-> {}, except |-> {}, invex |-> {}, topic |-> FALSE, count |-> 0, first |-> 0]]
  /\ marks = {} /\ said = <<>> /\ shown = Nothing /\ clock = 0
  /\ heard = [x \in Room \cup Talker |-> [t \in 0..Ends |-> 0]]
  /\ tasks = [c \in Talker |-> [at |-> 0, told |-> <<>>, since |-> {}]]

-----------------------------------------------------------------------------
(* Properties *)

\* Bans whose answer may change while it is remembered: nothing that changes an account, a
\* mode, a class or what channels a user is in makes a channel forget (channel_mode.c:337).
Volatile(r) == \E b \in rooms[r].ban \cup rooms[r].except : b.kind \notin {"ident", "gecos", "server"}
MaySpeak(c, r, text, notice) ==
  \/ Has(c, "service")
  \/ /\ ~Barred(c, r, text, notice)
     /\ \/ IsMember(c, r) /\ links[r][c] \cap Privileged # {}
        \/ ~Quieted(c, r, notice) /\ (talkers[c].local => ~is_banned(c, r) /\ ~Forbidden(c, r, "mute"))

\* A message to a channel is passed on when, as things stand at that moment, its sender may
\* speak there, whatever was found and remembered before (channel.c:773, extban_mute.c:44,
\* channel_mode.c:219 and 257, user.c:713); no target of it is spoken to twice
\* (m_message.c:442); and no channel or user is spoken to oftener than twice the flood limit
\* in any time as long as its window (m_message.c:110 and 161).
HeardRight ==
  /\ \A i \in DOMAIN said :
       LET x == said[i] IN x.to \in Room /\ ~Volatile(x.to) =>
                             (x.ok <=> MaySpeak(x.from, x.to, x.what.text, x.what.notice))
  /\ IsInjective([i \in DOMAIN said |-> said[i].to]) /\ Len(said) <= MaxTargets
  /\ \A to \in Room \cup Talker, t \in 0..clock :
       MapThenSumSet(LAMBDA u : heard[to][u], (t..t + Window) \cap (0..Ends)) <= 2 * Burst

\* Who is in a secret channel is told to its members, to the user itself and to operators
\* only, whichever query it is; an invisible user is found in no list but those of its own
\* channels; WHO tells of everyone it should, and of no one twice, unless a WHO was cut off
\* at its limit, now or before (m_who.c:146 and 213); and a LIST that goes on while channels
\* come and go tells once of each channel there was, not secret, all the time (hash.c:553, channel.c:433,
\* m_whois.c:51).
ToldRight ==
  LET s == shown.by
      told == ToSet(shown.told)
  IN shown.kind # "none" =>
     /\ IsInjective(shown.told)
     /\ shown.kind # "list" => \A x \in told : x.r # "none" /\ SecretChannel(x.r) =>
                         IsMember(s, x.r) \/ x.c = s \/ Has(s, "o") \/ Has(s, "a")
     /\ \A x \in told : x.c # "topic" /\ Invisible(x.c) /\ shown.kind \in {"names", "channel", "everyone", "global"} =>
                         Together(s, x.c) \/ Has(s, "a")
     /\ shown.kind = "everyone" /\ shown.full =>
          /\ {x.c : x \in told} = {c \in Talker : ~Invisible(c) \/ Together(s, c)}
          /\ marks = {}
     /\ shown.kind = "list" => shown.full

Conversation == HeardRight /\ ToldRight
=============================================================================
