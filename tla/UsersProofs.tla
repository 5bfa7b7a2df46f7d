----------------------------- MODULE UsersProofs -----------------------------
(***************************************************************************)
(* What holds of Users for any users, names, channels, limits and lists of  *)
(* modes.                                                                   *)
(*                                                                          *)
(* A handler is made of several calls, and what is kept on two sides need   *)
(* not agree between them: a user's name is said to be off before it has    *)
(* another.  The parts of the invariant are therefore stated of a state     *)
(* record s, each of the fields it is about, and lemmas say of each call    *)
(* which fields it leaves alone and what it does to the others.             *)
(***************************************************************************)
EXTENDS Users, ListLemmas, Integers, TLAPS

-----------------------------------------------------------------------------
(* The invariant. *)

Fields == {"users", "count", "oper_list", "watchTable", "told", "whowas", "cells", "history", "chans"}
Tags   == {"is", "local", "name", "umodes", "oflag", "conf", "tags", "account", "away", "watches", "whowas_list",
           "invited", "acceptlist", "pace"}
Sides  == {"there", "last", "invites"}

\* A state is a record of its fields, of users, channels and records with all of theirs.
Full(S, v)   == v = [x \in S |-> v[x]]
IsUsers(v)   == Full(User, v) /\ \A c \in User : Full(Tags, v[c])
IsChans(v)   == Full(Channel, v) /\ \A ch \in Channel : Full(Sides, v[ch])
IsCells(v)   == Full(Cell, v) /\ \A w \in Cell : Full({"name", "online"}, v[w])
IsCount(v)   == Full({"oper", "invisi"}, v)
Formed(s) == /\ Full(Fields, s) /\ IsUsers(s.users) /\ IsChans(s.chans) /\ IsCells(s.cells) /\ IsCount(s.count)
             /\ Full(Nick, s.watchTable) /\ Full(User, s.told)

\* Users of this server, who alone watch names and are invited.
Client(s, c) == s.users[c].is = "client"
Mine(s, c)   == Client(s, c) /\ s.users[c].local

\* Modes: who has one is who was counted and listed for it.  (Of invisible users only when the
\* mode is not taken from who ceases to be an operator, which SVSMODE does not count.)
With(s, m) == {c \in User : Client(s, c) /\ m \in s.users[c].umodes}
Block(u, oper) == IF oper THEN u.conf = TRUE ELSE u.conf = FALSE /\ ~u.oflag
Operators(s) ==
  /\ s.count.oper = Cardinality(With(s, "o"))
  /\ s.oper_list = {c \in With(s, "o") : s.users[c].local}
  /\ \A c \in User : s.users[c].local => Block(s.users[c], c \in s.oper_list)
Hidden(s) == "i" \notin OperOnly => s.count.invisi = Cardinality(With(s, "i"))

\* Names: each is of one user or connection at most.
OneName(s) ==
  /\ \A c \in User : s.users[c].is \in {"none", "unknown", "client"} /\ (s.users[c].is # "none" => s.users[c].name \in Nick)
  /\ \A c, d \in User : s.users[c].is # "none" /\ s.users[d].is # "none" /\ s.users[c].name = s.users[d].name => c = d
Used(s) == {n \in Nick : \E c \in User : Client(s, c) /\ s.users[c].name = n}

\* Watches: both sides agree, and those who watch know which of the names are in use.
Linked(s) ==
  \A c \in User : /\ s.users[c].watches \in SUBSET Nick /\ IsFiniteSet(s.users[c].watches)
                  /\ Cardinality(s.users[c].watches) <= MaxWatch
                  /\ \A n \in Nick : n \in s.users[c].watches <=> c \in s.watchTable[n]
                  /\ ~Mine(s, c) => s.users[c].watches = {}
Known(s, on) == \A c \in User : \A n \in s.users[c].watches : n \in s.told[c] <=> n \in on

\* The nick history: no record is on it twice, and those of a user who is on are on its list.
AtMost(length) == IF length = 0 THEN 1 ELSE length
Trail(s) ==
  /\ s.whowas \in Seq(Cell) /\ Once(s.whowas)
  /\ \A c \in User : s.users[c].whowas_list \subseteq Cell /\ (~Client(s, c) => s.users[c].whowas_list = {})
  /\ \A c \in User, w \in Cell : w \in s.users[c].whowas_list <=> w \in ToSet(s.whowas) /\ s.cells[w].online = c
Past(s) == Trail(s) /\ s.history \in 0..Cardinality(Cell) /\ Len(s.whowas) <= AtMost(s.history)

\* Invitations: a client's list and a channel's say the same of the two.
Invitation == [channel : Channel, when : Nat]
Guest      == [client : User, when : Nat]
OfClient(s, c, ch)  == {x.when : x \in {y \in ToSet(s.users[c].invited) : y.channel = ch}}
OfChannel(s, c, ch) == {x.when : x \in {y \in ToSet(s.chans[ch].invites) : y.client = c}}
Lists(s) == /\ \A c \in User : s.users[c].invited \in Seq(Invitation)
            /\ \A ch \in Channel : s.chans[ch].invites \in Seq(Guest)
Paired(s) == \A c \in User, ch \in Channel : OfClient(s, c, ch) = OfChannel(s, c, ch)
Few(s) == \A c \in User : /\ Len(s.users[c].invited) <= MaxInvites \/ Len(s.users[c].invited) = 1
                          /\ ~Mine(s, c) => s.users[c].invited = <<>>
Invited(s) == Lists(s) /\ Paired(s) /\ Few(s)

Good(s)  == Formed(s) /\ Operators(s) /\ Hidden(s) /\ OneName(s) /\ Linked(s) /\ Known(s, Used(s)) /\ Past(s) /\ Invited(s)
UsersInv == Good(State) /\ time \in Nat

-----------------------------------------------------------------------------
(* What a call leaves alone. *)

\* t differs from s in the fields F only; users in the tags G only; no user but c.
Only(F, s, t)   == Formed(t) /\ \A f \in Fields \ F : t[f] = s[f]
AllBut(G, s, t) == \A d \in User : \A g \in Tags \ G : t.users[d][g] = s.users[d][g]
Spared(s, t, c) == \A d \in User : d # c => t.users[d] = s.users[d]

SameNames(s, t)   == \A d \in User : \A g \in {"is", "local", "name"} : t.users[d][g] = s.users[d][g]
SameModes(s, t)   == /\ t.count = s.count /\ t.oper_list = s.oper_list
                     /\ \A d \in User : \A g \in {"umodes", "oflag", "conf"} : t.users[d][g] = s.users[d][g]
SameWatches(s, t) == t.watchTable = s.watchTable /\ \A d \in User : t.users[d].watches = s.users[d].watches
SamePast(s, t)    == /\ t.whowas = s.whowas /\ t.cells = s.cells /\ t.history = s.history
                     /\ \A d \in User : t.users[d].whowas_list = s.users[d].whowas_list
SameInvites(s, t) == /\ \A d \in User : t.users[d].invited = s.users[d].invited
                     /\ \A ch \in Channel : t.chans[ch].invites = s.chans[ch].invites

LEMMA OnlyThen ==
  ASSUME NEW s, NEW t, NEW u, NEW F, NEW G, Only(F, s, t), Only(G, t, u)
  PROVE  Only(F \cup G, s, u)
BY DEF Only

LEMMA AllButThen ==
  ASSUME NEW s, NEW t, NEW u, NEW F, NEW G, AllBut(F, s, t), AllBut(G, t, u)
  PROVE  AllBut(F \cup G, s, u)
BY DEF AllBut

LEMMA AllButNone ==
  ASSUME NEW s, NEW t, NEW G, t.users = s.users
  PROVE  AllBut(G, s, t)
BY DEF AllBut

LEMMA ModesFrame ==
  ASSUME NEW s, NEW t, SameNames(s, t), SameModes(s, t)
  PROVE  /\ \A m : With(t, m) = With(s, m)
         /\ Operators(s) => Operators(t)
         /\ Hidden(s) => Hidden(t)
<1>0. \A d \in User : /\ t.users[d].is = s.users[d].is /\ t.users[d].local = s.users[d].local
                      /\ t.users[d].umodes = s.users[d].umodes /\ t.users[d].oflag = s.users[d].oflag
                      /\ t.users[d].conf = s.users[d].conf
  BY DEF SameNames, SameModes
<1>1. \A m : With(t, m) = With(s, m)
  BY <1>0 DEF With, Client
<1>2. Operators(s) => Operators(t)
  <2>1. {c \in With(t, "o") : t.users[c].local} = {c \in With(s, "o") : s.users[c].local}
    BY <1>0, <1>1 DEF With
  <2> QED BY <1>0, <1>1, <2>1 DEF Operators, SameModes, Block
<1>3. Hidden(s) => Hidden(t)
  BY <1>1 DEF Hidden, SameModes
<1> QED BY <1>1, <1>2, <1>3

LEMMA NamesFrame ==
  ASSUME NEW s, NEW t, SameNames(s, t)
  PROVE  /\ Used(t) = Used(s) /\ \A c \in User : Mine(t, c) <=> Mine(s, c)
         /\ OneName(s) => OneName(t)
<1>1. \A c \in User : /\ Mine(t, c) <=> Mine(s, c)
                      /\ Client(t, c) <=> Client(s, c)
                      /\ t.users[c].is = s.users[c].is /\ t.users[c].name = s.users[c].name
  BY DEF SameNames, Mine, Client
<1>2. Used(t) = Used(s)
  BY <1>1 DEF Used
<1> QED BY <1>1, <1>2 DEF OneName

LEMMA WatchesFrame ==
  ASSUME NEW s, NEW t, SameNames(s, t), SameWatches(s, t)
  PROVE  /\ Linked(s) => Linked(t)
         /\ t.told = s.told => \A on : Known(s, on) => Known(t, on)
<1>1. \A c \in User : Mine(t, c) <=> Mine(s, c)
  BY NamesFrame
<1> QED BY <1>1 DEF SameWatches, Linked, Known

LEMMA PastFrame ==
  ASSUME NEW s, NEW t, SameNames(s, t), SamePast(s, t), Past(s)
  PROVE  Past(t)
BY DEF SameNames, SamePast, Past, Trail, Client

LEMMA InvitesFrame ==
  ASSUME NEW s, NEW t, SameNames(s, t), SameInvites(s, t), Invited(s)
  PROVE  Invited(t)
<1>1. \A c \in User : Mine(t, c) <=> Mine(s, c)
  BY NamesFrame
<1>2. Lists(t) /\ Few(t)
  BY <1>1 DEF SameInvites, Invited, Lists, Few
<1>3. Paired(t)
  <2>1. \A c \in User, ch \in Channel : OfClient(t, c, ch) = OfClient(s, c, ch) /\ OfChannel(t, c, ch) = OfChannel(s, c, ch)
    BY DEF SameInvites, OfClient, OfChannel
  <2> QED BY <2>1 DEF Invited, Paired
<1> QED BY <1>2, <1>3 DEF Invited

\* A call that changes one of these only.
LEMMA SameFields ==
  ASSUME NEW s, NEW t, NEW F, NEW G, Only(F, s, t), AllBut(G, s, t)
  PROVE  /\ G \cap {"is", "local", "name"} = {} => SameNames(s, t)
         /\ F \cap {"count", "oper_list"} = {} /\ G \cap {"umodes", "oflag", "conf"} = {} => SameModes(s, t)
         /\ "watchTable" \notin F /\ "watches" \notin G => SameWatches(s, t)
         /\ "told" \notin F => t.told = s.told
         /\ F \cap {"whowas", "cells", "history"} = {} /\ "whowas_list" \notin G => SamePast(s, t)
         /\ (\A ch \in Channel : t.chans[ch].invites = s.chans[ch].invites) /\ "invited" \notin G => SameInvites(s, t)
         /\ "chans" \notin F => t.chans = s.chans
<1>1. /\ \A f \in Fields : f \notin F => t[f] = s[f]
      /\ \A d \in User, g \in Tags : g \notin G => t.users[d][g] = s.users[d][g]
  BY DEF Only, AllBut
<1>2. G \cap {"is", "local", "name"} = {} => SameNames(s, t)
  BY <1>1 DEF SameNames, Tags
<1>3. F \cap {"count", "oper_list"} = {} /\ G \cap {"umodes", "oflag", "conf"} = {} => SameModes(s, t)
  BY <1>1 DEF SameModes, Tags, Fields
<1>4. "watchTable" \notin F /\ "watches" \notin G => SameWatches(s, t)
  BY <1>1 DEF SameWatches, Tags, Fields
<1>5. F \cap {"whowas", "cells", "history"} = {} /\ "whowas_list" \notin G => SamePast(s, t)
  BY <1>1 DEF SamePast, Tags, Fields
<1>6. (\A ch \in Channel : t.chans[ch].invites = s.chans[ch].invites) /\ "invited" \notin G => SameInvites(s, t)
  BY <1>1 DEF SameInvites, Tags
<1>7. ("told" \notin F => t.told = s.told) /\ ("chans" \notin F => t.chans = s.chans)
  BY <1>1 DEF Fields
<1> QED BY <1>2, <1>3, <1>4, <1>5, <1>6, <1>7

\* The state is good when each part is as it was, or holds.
LEMMA Whole ==
  ASSUME NEW s, Good(s), NEW t, Formed(t), SameNames(s, t),
         SameModes(s, t) \/ (Operators(t) /\ Hidden(t)),
         (SameWatches(s, t) /\ t.told = s.told) \/ (Linked(t) /\ Known(t, Used(s))),
         SamePast(s, t) \/ Past(t),
         SameInvites(s, t) \/ Invited(t)
  PROVE  Good(t)
<1>1. OneName(t) /\ Used(t) = Used(s)
  BY NamesFrame DEF Good
<1>2. Operators(t) /\ Hidden(t)
  BY ModesFrame DEF Good
<1>3. Linked(t) /\ Known(t, Used(t))
  BY <1>1, WatchesFrame DEF Good
<1>4. Past(t)
  BY PastFrame DEF Good
<1>5. Invited(t)
  BY InvitesFrame DEF Good
<1> QED BY <1>1, <1>2, <1>3, <1>4, <1>5 DEF Good

\* One part of it changed.
LEMMA WatchSide ==
  ASSUME NEW s, Good(s), NEW t, Only({"users", "watchTable", "told"}, s, t),
         AllBut({"watches"}, s, t), Linked(t), Known(t, Used(s))
  PROVE  Good(t)
<1>1. SameNames(s, t) /\ SameModes(s, t) /\ SamePast(s, t) /\ SameInvites(s, t)
  <2>1. t.chans = s.chans
    BY SameFields
  <2> QED BY <2>1, SameFields
<1>2. Formed(t)
  BY DEF Only
<1> QED BY <1>1, <1>2, Whole

LEMMA ModesSide ==
  ASSUME NEW s, Good(s), NEW t, Only({"users", "count", "oper_list"}, s, t),
         AllBut({"umodes", "oflag", "conf", "tags"}, s, t), Operators(t), Hidden(t)
  PROVE  Good(t)
<1>1. SameNames(s, t) /\ SameWatches(s, t) /\ t.told = s.told /\ SamePast(s, t) /\ SameInvites(s, t)
  <2>1. t.chans = s.chans
    BY SameFields
  <2> QED BY <2>1, SameFields
<1>2. Formed(t)
  BY DEF Only
<1> QED BY <1>1, <1>2, Whole

LEMMA PastSide ==
  ASSUME NEW s, Good(s), NEW t, Only({"users", "whowas", "cells", "history"}, s, t),
         AllBut({"whowas_list"}, s, t), Past(t)
  PROVE  Good(t)
<1>1. SameNames(s, t) /\ SameModes(s, t) /\ SameWatches(s, t) /\ t.told = s.told /\ SameInvites(s, t)
  <2>1. t.chans = s.chans
    BY SameFields
  <2> QED BY <2>1, SameFields
<1>2. Formed(t)
  BY DEF Only
<1> QED BY <1>1, <1>2, Whole

LEMMA InvitesSide ==
  ASSUME NEW s, Good(s), NEW t, Only({"users", "chans"}, s, t),
         AllBut({"invited"}, s, t), Invited(t)
  PROVE  Good(t)
<1>1. SameNames(s, t) /\ SameModes(s, t) /\ SameWatches(s, t) /\ t.told = s.told /\ SamePast(s, t)
  BY SameFields
<1>2. Formed(t)
  BY DEF Only
<1> QED BY <1>1, <1>2, Whole

\* What no part is about.
LEMMA NoSide ==
  ASSUME NEW s, Good(s), NEW t, Only({"users", "chans"}, s, t),
         AllBut({"tags", "account", "away", "acceptlist", "pace"}, s, t),
         \A ch \in Channel : t.chans[ch].invites = s.chans[ch].invites
  PROVE  Good(t)
<1>1. SameNames(s, t) /\ SameModes(s, t) /\ SameWatches(s, t) /\ t.told = s.told /\ SamePast(s, t) /\ SameInvites(s, t)
  BY SameFields
<1>2. Formed(t)
  BY DEF Only
<1> QED BY <1>1, <1>2, Whole

-----------------------------------------------------------------------------
(* What an assignment does. *)

\* A field of a state, the record of a user, and one tag of it set.
SetField(s, f, v)  == [s EXCEPT ![f] = v]
SetUser(s, c, r)   == SetField(s, "users", [s.users EXCEPT ![c] = r])
SetTag(s, c, g, v) == SetUser(s, c, [s.users[c] EXCEPT ![g] = v])

LEMMA FieldSet ==
  ASSUME NEW s, Full(Fields, s), NEW f \in Fields, NEW v, NEW t, t = SetField(s, f, v)
  PROVE  Full(Fields, t) /\ t[f] = v /\ \A g \in Fields : g # f => t[g] = s[g]
BY DEF Full, SetField

LEMMA SetUsers ==
  ASSUME NEW s, Formed(s), NEW v, IsUsers(v), NEW t, t = SetField(s, "users", v)
  PROVE  Only({"users"}, s, t) /\ t.users = v
<1>1. Full(Fields, t) /\ t.users = v /\ \A g \in Fields : g # "users" => t[g] = s[g]
  BY FieldSet DEF Formed, Fields
<1> QED BY <1>1 DEF Only, Formed, Fields

LEMMA SetChans ==
  ASSUME NEW s, Formed(s), NEW v, IsChans(v), NEW t, t = SetField(s, "chans", v)
  PROVE  Only({"chans"}, s, t) /\ t.chans = v
<1>1. Full(Fields, t) /\ t.chans = v /\ \A g \in Fields : g # "chans" => t[g] = s[g]
  BY FieldSet DEF Formed, Fields
<1> QED BY <1>1 DEF Only, Formed, Fields

LEMMA SetCells ==
  ASSUME NEW s, Formed(s), NEW v, IsCells(v), NEW t, t = SetField(s, "cells", v)
  PROVE  Only({"cells"}, s, t) /\ t.cells = v
<1>1. Full(Fields, t) /\ t.cells = v /\ \A g \in Fields : g # "cells" => t[g] = s[g]
  BY FieldSet DEF Formed, Fields
<1> QED BY <1>1 DEF Only, Formed, Fields

LEMMA SetCount ==
  ASSUME NEW s, Formed(s), NEW v, IsCount(v), NEW t, t = SetField(s, "count", v)
  PROVE  Only({"count"}, s, t) /\ t.count = v
<1>1. Full(Fields, t) /\ t.count = v /\ \A g \in Fields : g # "count" => t[g] = s[g]
  BY FieldSet DEF Formed, Fields
<1> QED BY <1>1 DEF Only, Formed, Fields

LEMMA SetWatchTable ==
  ASSUME NEW s, Formed(s), NEW v, Full(Nick, v), NEW t, t = SetField(s, "watchTable", v)
  PROVE  Only({"watchTable"}, s, t) /\ t.watchTable = v
<1>1. Full(Fields, t) /\ t.watchTable = v /\ \A g \in Fields : g # "watchTable" => t[g] = s[g]
  BY FieldSet DEF Formed, Fields
<1> QED BY <1>1 DEF Only, Formed, Fields

LEMMA SetTold ==
  ASSUME NEW s, Formed(s), NEW v, Full(User, v), NEW t, t = SetField(s, "told", v)
  PROVE  Only({"told"}, s, t) /\ t.told = v
<1>1. Full(Fields, t) /\ t.told = v /\ \A g \in Fields : g # "told" => t[g] = s[g]
  BY FieldSet DEF Formed, Fields
<1> QED BY <1>1 DEF Only, Formed, Fields

LEMMA SetOperList ==
  ASSUME NEW s, Formed(s), NEW v, NEW t, t = SetField(s, "oper_list", v)
  PROVE  Only({"oper_list"}, s, t) /\ t.oper_list = v
<1>1. Full(Fields, t) /\ t.oper_list = v /\ \A g \in Fields : g # "oper_list" => t[g] = s[g]
  BY FieldSet DEF Formed, Fields
<1> QED BY <1>1 DEF Only, Formed, Fields

LEMMA SetWhowas ==
  ASSUME NEW s, Formed(s), NEW v, NEW t, t = SetField(s, "whowas", v)
  PROVE  Only({"whowas"}, s, t) /\ t.whowas = v
<1>1. Full(Fields, t) /\ t.whowas = v /\ \A g \in Fields : g # "whowas" => t[g] = s[g]
  BY FieldSet DEF Formed, Fields
<1> QED BY <1>1 DEF Only, Formed, Fields

LEMMA SetHistory ==
  ASSUME NEW s, Formed(s), NEW v, NEW t, t = SetField(s, "history", v)
  PROVE  Only({"history"}, s, t) /\ t.history = v
<1>1. Full(Fields, t) /\ t.history = v /\ \A g \in Fields : g # "history" => t[g] = s[g]
  BY FieldSet DEF Formed, Fields
<1> QED BY <1>1 DEF Only, Formed, Fields

\* The record of one user put.
LEMMA PutUser ==
  ASSUME NEW s, Formed(s), NEW c \in User, NEW r, Full(Tags, r), NEW t, t = SetUser(s, c, r)
  PROVE  Only({"users"}, s, t) /\ Spared(s, t, c) /\ t.users[c] = r
<1> DEFINE us == [s.users EXCEPT ![c] = r]
<1>1. t = SetField(s, "users", us)
  BY DEF SetUser
<1>2. Full(User, us) /\ us[c] = r /\ \A d \in User : d # c => us[d] = s.users[d]
  <2>1. Full(User, s.users)
    BY DEF Formed, IsUsers
  <2> QED BY <2>1 DEF Full
<1> HIDE DEF us
<1>3. IsUsers(us)
  BY <1>2 DEF Formed, IsUsers
<1>4. Only({"users"}, s, t) /\ t.users = us
  BY <1>1, <1>3, SetUsers
<1> QED BY <1>2, <1>4 DEF Spared

\* One tag of one user put.
LEMMA PutTag ==
  ASSUME NEW s, Formed(s), NEW c \in User, NEW g \in Tags, NEW v, NEW t, t = SetTag(s, c, g, v)
  PROVE  /\ Only({"users"}, s, t) /\ Spared(s, t, c) /\ AllBut({g}, s, t)
         /\ t.users[c][g] = v
<1> DEFINE r == [s.users[c] EXCEPT ![g] = v]
<1>1. Full(Tags, r) /\ r[g] = v /\ \A h \in Tags : h # g => r[h] = s.users[c][h]
  <2>1. Full(Tags, s.users[c])
    BY DEF Formed, IsUsers
  <2> QED BY <2>1 DEF Full
<1> HIDE DEF r
<1>2. Only({"users"}, s, t) /\ Spared(s, t, c) /\ t.users[c] = r
  <2>1. t = SetUser(s, c, r)
    BY DEF SetTag, r
  <2> QED BY <1>1, <2>1, PutUser
<1> QED BY <1>1, <1>2 DEF AllBut, Spared

-----------------------------------------------------------------------------
(* Watching. *)

\* The names in use once one is said to be in use, or not.
Said(names, n, on) == IF on THEN names \cup {n} ELSE names \ {n}

\* watch_check_hash: those who watch the name know that it is in use, or that it is not.
LEMMA Tells ==
  ASSUME NEW s, Formed(s), NEW c \in User, s.users[c].name \in Nick, NEW on \in BOOLEAN,
         NEW t, t = watch_check_hash(s, c, on)
  PROVE  /\ Only({"told"}, s, t)
         /\ \A names : Linked(s) /\ Known(s, names) => Known(t, Said(names, s.users[c].name, on))
<1> DEFINE n == s.users[c].name
           told2 == [w \in User |-> IF w \notin s.watchTable[n] THEN s.told[w]
                                    ELSE IF on THEN s.told[w] \cup {n} ELSE s.told[w] \ {n}]
<1>1. t = SetField(s, "told", told2)
  BY DEF watch_check_hash, SetField
<1>2. Full(User, told2)
  BY DEF Full
<1>3. \A w \in User : told2[w] = IF w \notin s.watchTable[n] THEN s.told[w]
                                 ELSE IF on THEN s.told[w] \cup {n} ELSE s.told[w] \ {n}
  OBVIOUS
<1> HIDE DEF told2
<1>4. Only({"told"}, s, t) /\ t.told = told2
  BY <1>1, <1>2, SetTold
<1>5. ASSUME NEW names, Linked(s), Known(s, names)
      PROVE  Known(t, Said(names, n, on))
  <2>1. \A w \in User : t.users[w].watches = s.users[w].watches
    BY <1>4 DEF Only, Fields
  <2> SUFFICES ASSUME NEW w \in User, NEW m \in s.users[w].watches
               PROVE  m \in told2[w] <=> m \in Said(names, n, on)
    BY <1>4, <2>1 DEF Known
  <2>2. m \in Nick /\ (m \in s.told[w] <=> m \in names)
    BY <1>5 DEF Linked, Known
  <2>3. m = n => w \in s.watchTable[n]
    BY <1>5, <2>2 DEF Linked
  <2> QED BY <1>3, <2>2, <2>3 DEF Said
<1> QED BY <1>4, <1>5

\* WATCH +n: both lists have it.
LEMMA Adds ==
  ASSUME NEW s, Formed(s), NEW c \in User, NEW n \in Nick, NEW t, t = watch_add_to_hash_table(s, n, c)
  PROVE  /\ Only({"watchTable", "users"}, s, t) /\ AllBut({"watches"}, s, t) /\ Spared(s, t, c)
         /\ t.users[c].watches = s.users[c].watches \cup {n}
         /\ \A m \in Nick : t.watchTable[m] = IF m = n THEN s.watchTable[m] \cup {c} ELSE s.watchTable[m]
<1> DEFINE table == [s.watchTable EXCEPT ![n] = @ \cup {c}]
           u == SetField(s, "watchTable", table)
           v == s.users[c].watches \cup {n}
<1>1. /\ Full(Nick, table)
      /\ \A m \in Nick : table[m] = IF m = n THEN s.watchTable[m] \cup {c} ELSE s.watchTable[m]
  BY DEF Formed, Full
<1>2. t = SetTag(u, c, "watches", v)
  BY DEF watch_add_to_hash_table, SetTag, SetUser, SetField, Formed, Full, Fields
<1> HIDE DEF table
<1>3. Only({"watchTable"}, s, u) /\ u.watchTable = table
  BY <1>1, SetWatchTable
<1> HIDE DEF u, v
<1>4. Formed(u) /\ u.users = s.users
  BY <1>3 DEF Only, Fields
<1>5. Only({"users"}, u, t) /\ Spared(u, t, c) /\ AllBut({"watches"}, u, t) /\ t.users[c]["watches"] = v
  BY <1>2, <1>4, PutTag DEF Tags
<1> QED BY <1>1, <1>3, <1>4, <1>5 DEF Only, Fields, AllBut, Spared, v

\* c does not watch the names of W any more, by neither list.
Unwatched(s, t, c, W) ==
  /\ Only({"watchTable", "users"}, s, t) /\ AllBut({"watches"}, s, t) /\ Spared(s, t, c)
  /\ t.users[c].watches = s.users[c].watches \ W
  /\ \A m \in Nick : t.watchTable[m] = IF m \in W THEN s.watchTable[m] \ {c} ELSE s.watchTable[m]

\* WATCH -n: neither list has it.
LEMMA Deletes ==
  ASSUME NEW s, Formed(s), NEW c \in User, NEW n \in Nick, NEW t, t = watch_del_from_hash_table(s, n, c)
  PROVE  Unwatched(s, t, c, {n})
<1> DEFINE table == [s.watchTable EXCEPT ![n] = @ \ {c}]
           u == SetField(s, "watchTable", table)
           v == s.users[c].watches \ {n}
<1>1. /\ Full(Nick, table)
      /\ \A m \in Nick : table[m] = IF m = n THEN s.watchTable[m] \ {c} ELSE s.watchTable[m]
  BY DEF Formed, Full
<1>2. t = SetTag(u, c, "watches", v)
  BY DEF watch_del_from_hash_table, SetTag, SetUser, SetField, Formed, Full, Fields
<1> HIDE DEF table
<1>3. Only({"watchTable"}, s, u) /\ u.watchTable = table
  BY <1>1, SetWatchTable
<1> HIDE DEF u, v
<1>4. Formed(u) /\ u.users = s.users
  BY <1>3 DEF Only, Fields
<1>5. Only({"users"}, u, t) /\ Spared(u, t, c) /\ AllBut({"watches"}, u, t) /\ t.users[c]["watches"] = v
  BY <1>2, <1>4, PutTag DEF Tags
<1> QED BY <1>1, <1>3, <1>4, <1>5 DEF Only, Fields, AllBut, Spared, Unwatched, v

\* WATCH C, and the exit of a user: no list has it.
LEMMA DeletesAll ==
  ASSUME NEW s, Formed(s), NEW c \in User, NEW t, t = watch_del_watch_list(s, c)
  PROVE  Unwatched(s, t, c, s.users[c].watches)
<1> DEFINE table == [n \in Nick |-> IF n \in s.users[c].watches THEN s.watchTable[n] \ {c} ELSE s.watchTable[n]]
           u == SetField(s, "watchTable", table)
<1>1. /\ Full(Nick, table)
      /\ \A m \in Nick : table[m] = IF m \in s.users[c].watches THEN s.watchTable[m] \ {c} ELSE s.watchTable[m]
  BY DEF Full
<1>2. t = SetTag(u, c, "watches", {})
  BY DEF watch_del_watch_list, SetTag, SetUser, SetField, Formed, Full, Fields
<1> HIDE DEF table
<1>3. Only({"watchTable"}, s, u) /\ u.watchTable = table
  BY <1>1, SetWatchTable
<1> HIDE DEF u
<1>4. Formed(u) /\ u.users = s.users /\ "watches" \in Tags
  BY <1>3 DEF Only, Fields, Tags
<1>5. Only({"users"}, u, t) /\ Spared(u, t, c) /\ AllBut({"watches"}, u, t) /\ t.users[c]["watches"] = {}
  BY <1>2, <1>4, PutTag
<1> QED BY <1>1, <1>3, <1>4, <1>5 DEF Only, Fields, AllBut, Spared, Unwatched

\* What WATCH shows is what the watcher knows from then on.
LEMMA Shows ==
  ASSUME NEW s, Formed(s), NEW c \in User, NEW n \in Nick, NEW t, t = show_watch(s, c, n)
  PROVE  /\ Only({"told"}, s, t)
         /\ \A d \in User : d # c => t.told[d] = s.told[d]
         /\ t.told[c] = Said(s.told[c], n, n \in Used(s))
<1>1. n \in Used(s) <=> find_person(s.users, n) # {}
  BY DEF Used, find_person, Named, Client
<1> DEFINE v == [s.told EXCEPT ![c] = IF find_person(s.users, n) # {} THEN @ \cup {n} ELSE @ \ {n}]
<1>2. t = SetField(s, "told", v)
  BY DEF show_watch, SetField
<1>3. /\ Full(User, v) /\ \A d \in User : d # c => v[d] = s.told[d]
      /\ v[c] = IF find_person(s.users, n) # {} THEN s.told[c] \cup {n} ELSE s.told[c] \ {n}
  BY DEF Formed, Full
<1> HIDE DEF v
<1>4. Only({"told"}, s, t) /\ t.told = v
  BY <1>2, <1>3, SetTold
<1> QED BY <1>1, <1>3, <1>4 DEF Said

\* Nobody is shown anything: the watcher has fewer names.
LEMMA Fewers ==
  ASSUME NEW s, Linked(s), NEW names, Known(s, names), NEW c \in User, NEW t, NEW W, Unwatched(s, t, c, W)
  PROVE  Linked(t) /\ Known(t, names)
<1> DEFINE w == s.users[c].watches
<1>1. IsFiniteSet(w) /\ w \in SUBSET Nick /\ Cardinality(w) <= MaxWatch
  BY DEF Linked
<1>2. Cardinality(w) \in Nat
  BY <1>1, FS_CardinalityType
<1> HIDE DEF w
<1>3. /\ Only({"watchTable", "users"}, s, t) /\ AllBut({"watches"}, s, t) /\ Spared(s, t, c)
      /\ t.users[c].watches = w \ W
      /\ \A m \in Nick : t.watchTable[m] = IF m \in W THEN s.watchTable[m] \ {c} ELSE s.watchTable[m]
  BY DEF Unwatched, w
<1>4. t.told = s.told
  BY <1>3 DEF Only, Fields
<1>5. SameNames(s, t)
  BY <1>3, SameFields
<1>6. \A d \in User : Mine(t, d) <=> Mine(s, d)
  BY <1>5, NamesFrame
<1>7. IsFiniteSet(w \ W) /\ Cardinality(w \ W) <= MaxWatch
  <2>1. IsFiniteSet(w \ W) /\ Cardinality(w \ W) <= Cardinality(w)
    BY <1>1, FS_Subset
  <2>2. Cardinality(w \ W) \in Nat
    BY <2>1, FS_CardinalityType
  <2> QED BY <1>1, <1>2, <2>1, <2>2, LimitsAssumption
<1>8. Linked(t)
  <2> SUFFICES ASSUME NEW d \in User
               PROVE  /\ t.users[d].watches \in SUBSET Nick /\ IsFiniteSet(t.users[d].watches)
                      /\ Cardinality(t.users[d].watches) <= MaxWatch
                      /\ \A m \in Nick : m \in t.users[d].watches <=> d \in t.watchTable[m]
                      /\ ~Mine(t, d) => t.users[d].watches = {}
    BY DEF Linked
  <2>1. CASE d = c
    BY <2>1, <1>1, <1>3, <1>6, <1>7 DEF Linked, w
  <2>2. CASE d # c
    <3>1. t.users[d] = s.users[d]
      BY <1>3, <2>2 DEF Spared
    <3>2. \A m \in Nick : d \in t.watchTable[m] <=> d \in s.watchTable[m]
      BY <1>3, <2>2
    <3> QED BY <1>6, <3>1, <3>2 DEF Linked
  <2> QED BY <2>1, <2>2
<1>9. Known(t, names)
  BY <1>3, <1>4 DEF Known, Spared, w
<1> QED BY <1>8, <1>9

\* WATCH: within the limit, and the watcher is shown what is so.
LEMMA WatchStep ==
  ASSUME NEW s, Good(s), NEW c \in User, Mine(s, c), NEW n \in Nick
  PROVE  /\ Cardinality(s.users[c].watches) < MaxWatch => Good(show_watch(watch_add_to_hash_table(s, n, c), c, n))
         /\ Good(watch_del_from_hash_table(s, n, c))
         /\ Good(watch_del_watch_list(s, c))
<1> DEFINE w == s.users[c].watches
<1>1. Formed(s) /\ Linked(s) /\ Known(s, Used(s)) /\ IsFiniteSet(w) /\ w \in SUBSET Nick /\ Cardinality(w) <= MaxWatch
  BY DEF Good, Linked
<1>2. Cardinality(w) \in Nat
  BY <1>1, FS_CardinalityType
<1> HIDE DEF w
<1>3. ASSUME Cardinality(w) < MaxWatch, NEW u, u = watch_add_to_hash_table(s, n, c), NEW t, t = show_watch(u, c, n)
      PROVE  Good(t)
  <2>1. /\ Only({"watchTable", "users"}, s, u) /\ AllBut({"watches"}, s, u) /\ Spared(s, u, c)
        /\ u.users[c].watches = w \cup {n}
        /\ \A m \in Nick : u.watchTable[m] = IF m = n THEN s.watchTable[m] \cup {c} ELSE s.watchTable[m]
    BY <1>1, <1>3, Adds DEF w
  <2>2. /\ Only({"told"}, u, t) /\ \A d \in User : d # c => t.told[d] = u.told[d]
        /\ t.told[c] = Said(u.told[c], n, n \in Used(u))
    BY <1>3, <2>1, Shows DEF Only
  <2>3. /\ t.users = u.users /\ t.watchTable = u.watchTable /\ u.told = s.told
        /\ Only({"users", "watchTable", "told"}, s, t) /\ AllBut({"watches"}, s, t) /\ Spared(s, t, c)
    BY <2>1, <2>2 DEF Only, Fields, AllBut, Spared
  <2>4. SameNames(s, t) /\ SameNames(s, u)
    BY <2>1, <2>3, SameFields
  <2>5. Used(u) = Used(s) /\ \A d \in User : Mine(t, d) <=> Mine(s, d)
    BY <2>4, NamesFrame
  <2>6. IsFiniteSet(w \cup {n}) /\ Cardinality(w \cup {n}) <= MaxWatch
    <3>1. IsFiniteSet(w \cup {n}) /\ Cardinality(w \cup {n}) = IF n \in w THEN Cardinality(w) ELSE Cardinality(w) + 1
      BY <1>1, FS_AddElement
    <3> QED BY <1>1, <1>2, <1>3, <3>1, LimitsAssumption
  <2>7. Linked(t)
    <3> SUFFICES ASSUME NEW d \in User
                 PROVE  /\ t.users[d].watches \in SUBSET Nick /\ IsFiniteSet(t.users[d].watches)
                        /\ Cardinality(t.users[d].watches) <= MaxWatch
                        /\ \A m \in Nick : m \in t.users[d].watches <=> d \in t.watchTable[m]
                        /\ ~Mine(t, d) => t.users[d].watches = {}
      BY DEF Linked
    <3>0. \A m \in Nick : t.watchTable[m] = IF m = n THEN s.watchTable[m] \cup {c} ELSE s.watchTable[m]
      BY <2>1, <2>3
    <3>1. CASE d = c
      <4>1. t.users[c].watches = w \cup {n}
        BY <2>1, <2>3
      <4>2. \A m \in Nick : m \in w <=> c \in s.watchTable[m]
        BY <1>1 DEF Linked, w
      <4> QED BY <3>0, <3>1, <4>1, <4>2, <1>1, <2>5, <2>6
    <3>2. CASE d # c
      <4>1. t.users[d] = s.users[d]
        BY <2>3, <3>2 DEF Spared
      <4> QED BY <3>0, <3>2, <4>1, <1>1, <2>5 DEF Linked
    <3> QED BY <3>1, <3>2
  <2>8. Known(t, Used(s))
    BY <1>1, <2>1, <2>2, <2>3, <2>5 DEF Known, Said, Spared, w
  <2> QED BY <2>3, <2>7, <2>8, WatchSide
<1>4. ASSUME NEW t, NEW W, Unwatched(s, t, c, W) PROVE Good(t)
  <2>1. Linked(t) /\ Known(t, Used(s))
    BY <1>1, <1>4, Fewers
  <2>2. Only({"users", "watchTable", "told"}, s, t) /\ AllBut({"watches"}, s, t)
    BY <1>4 DEF Unwatched, Only
  <2> QED BY <2>1, <2>2, WatchSide
<1>5. ASSUME NEW t, t = watch_del_from_hash_table(s, n, c) PROVE Good(t)
  BY <1>1, <1>4, <1>5, Deletes
<1>6. ASSUME NEW t, t = watch_del_watch_list(s, c) PROVE Good(t)
  BY <1>1, <1>4, <1>6, DeletesAll
<1> QED BY <1>3, <1>5, <1>6 DEF w


-----------------------------------------------------------------------------
(* The nick history. *)

\* A record w, on no list, for which there is room on the history.
Room(s, t, w) ==
  /\ Only({"users", "whowas"}, s, t) /\ AllBut({"whowas_list"}, s, t) /\ Trail(t)
  /\ w \in Cell /\ w \notin ToSet(t.whowas) /\ Len(t.whowas) + 1 <= AtMost(s.history)

\* The oldest record is on no list any more.
LEMMA Unlinks ==
  ASSUME NEW s, Formed(s), Past(s), s.whowas # <<>>, NEW t, t = whowas_unlink(s)
  PROVE  Room(s, t, Last(s.whowas))
<1> DEFINE w  == Last(s.whowas)
           on == s.cells[w].online
           l  == Front(s.whowas)
           u  == SetField(s, "whowas", l)
<1>1. Trail(s) /\ s.whowas \in Seq(Cell) /\ Once(s.whowas) /\ Len(s.whowas) <= AtMost(s.history)
  BY DEF Past, Trail
<1>2. /\ l \in Seq(Cell) /\ Len(l) = Len(s.whowas) - 1 /\ Once(l) /\ Len(s.whowas) \in Nat \ {0}
      /\ ToSet(l) = ToSet(s.whowas) \ {w} /\ w \in Cell
  BY <1>1, Shorter
<1>3. t = IF on \in User THEN SetTag(u, on, "whowas_list", u.users[on].whowas_list \ {w}) ELSE u
  BY DEF whowas_unlink, SetTag, SetUser, SetField
<1> HIDE DEF l, w
<1>4. Only({"whowas"}, s, u) /\ u.whowas = l
  BY SetWhowas
<1> HIDE DEF u, on
<1>5. Formed(u) /\ u.users = s.users
  BY <1>4 DEF Only, Fields
<1>6. /\ Only({"users"}, u, t)
      /\ \A d \in User : \A g \in Tags : g # "whowas_list" => t.users[d][g] = u.users[d][g]
      /\ \A d \in User : t.users[d].whowas_list = IF d = on THEN u.users[d].whowas_list \ {w} ELSE u.users[d].whowas_list
  <2>1. CASE on \in User
    <3> DEFINE v == u.users[on].whowas_list \ {w}
    <3>1. t = SetTag(u, on, "whowas_list", v) /\ "whowas_list" \in Tags
      BY <1>3, <2>1 DEF Tags
    <3> HIDE DEF v
    <3>2. Only({"users"}, u, t) /\ Spared(u, t, on) /\ AllBut({"whowas_list"}, u, t) /\ t.users[on]["whowas_list"] = v
      BY <1>5, <2>1, <3>1, PutTag
    <3> QED BY <3>2 DEF AllBut, Spared, v
  <2>2. CASE on \notin User
    BY <1>3, <1>5, <2>2 DEF Only
  <2> QED BY <2>1, <2>2
<1>7. /\ Only({"users", "whowas"}, s, t) /\ AllBut({"whowas_list"}, s, t) /\ t.whowas = l
      /\ t.cells = s.cells
  BY <1>4, <1>5, <1>6 DEF Only, AllBut, Fields
<1>8. Trail(t)
  <2>1. ASSUME NEW c \in User
        PROVE  t.users[c].whowas_list \subseteq Cell /\ (~Client(t, c) => t.users[c].whowas_list = {})
    <3>1. s.users[c].whowas_list \subseteq Cell /\ (~Client(s, c) => s.users[c].whowas_list = {})
      BY <1>1 DEF Trail
    <3>2. t.users[c].whowas_list \subseteq s.users[c].whowas_list
      BY <1>5, <1>6
    <3>3. Client(t, c) <=> Client(s, c)
      BY <1>7 DEF AllBut, Tags, Client
    <3> QED BY <3>1, <3>2, <3>3
  <2>2. ASSUME NEW c \in User, NEW x \in Cell
        PROVE  x \in t.users[c].whowas_list <=> x \in ToSet(l) /\ t.cells[x].online = c
    <3>1. x \in s.users[c].whowas_list <=> x \in ToSet(s.whowas) /\ s.cells[x].online = c
      BY <1>1 DEF Trail
    <3>2. CASE x = w
      BY <1>2, <1>5, <1>6, <3>1, <3>2 DEF on
    <3>3. CASE x # w
      BY <1>2, <1>5, <1>6, <1>7, <3>1, <3>3
    <3> QED BY <3>2, <3>3
  <2> QED BY <1>2, <1>7, <2>1, <2>2 DEF Trail
<1>9. w \in Cell /\ w \notin ToSet(t.whowas) /\ Len(t.whowas) + 1 <= AtMost(s.history)
  BY <1>1, <1>2, <1>7
<1> QED BY <1>7, <1>8, <1>9 DEF Room, w

\* whowas_make finds one: the oldest at the limit, below it one that is free.
LEMMA Makes ==
  ASSUME NEW s, Formed(s), Past(s), NEW m, m = whowas_make(s)
  PROVE  Room(s, m.s, m.cell)
<1>1. CASE s.whowas # <<>> /\ Len(s.whowas) >= s.history
  <2>1. m.s = whowas_unlink(s) /\ m.cell = Last(s.whowas)
    BY <1>1 DEF whowas_make
  <2> DEFINE t == m.s
  <2>2. t = whowas_unlink(s)
    BY <2>1
  <2> HIDE DEF t
  <2>3. Room(s, t, Last(s.whowas))
    BY <1>1, <2>2, Unlinks
  <2> QED BY <2>1, <2>3 DEF t
<1>2. CASE ~(s.whowas # <<>> /\ Len(s.whowas) >= s.history)
  <2>1. m.s = s /\ m.cell = CHOOSE w \in Cell : w \notin ToSet(s.whowas)
    BY <1>2 DEF whowas_make
  <2>2. Trail(s) /\ s.whowas \in Seq(Cell) /\ s.history \in 0..Cardinality(Cell)
    BY DEF Past, Trail
  <2>3. /\ IsFiniteSet(ToSet(s.whowas)) /\ Cardinality(ToSet(s.whowas)) \in Nat
        /\ Cardinality(ToSet(s.whowas)) <= Len(s.whowas) /\ Len(s.whowas) \in Nat
    BY <2>2, FewElements, LenProperties
  <2>4. Cardinality(Cell) \in Nat /\ s.history \in Nat
    BY <2>2, SlotsAssumption, FS_CardinalityType
  <2>5. \E w \in Cell : w \notin ToSet(s.whowas)
    <3>1. CASE s.whowas = <<>>
      <4>1. ToSet(s.whowas) = {}
        BY <3>1 DEF ToSet
      <4> QED BY <4>1, SlotsAssumption
    <3>2. CASE s.whowas # <<>>
      <4>1. Cardinality(ToSet(s.whowas)) < Cardinality(Cell)
        BY <1>2, <2>2, <2>3, <2>4, <3>2
      <4>2. ToSet(s.whowas) \subseteq Cell
        BY <2>2, Elements
      <4>3. ToSet(s.whowas) # Cell
        BY <2>3, <2>4, <4>1
      <4> QED BY <4>2, <4>3
    <3> QED BY <3>1, <3>2
  <2>6. m.cell \in Cell /\ m.cell \notin ToSet(s.whowas)
    BY <2>1, <2>5
  <2>7. Len(s.whowas) + 1 <= AtMost(s.history)
    <3>1. CASE s.whowas = <<>>
      <4>1. Len(s.whowas) = 0
        BY <3>1
      <4> QED BY <4>1, <2>4 DEF AtMost
    <3>2. CASE s.whowas # <<>>
      BY <1>2, <2>3, <2>4, <3>2 DEF AtMost
    <3> QED BY <3>1, <3>2
  <2> QED BY <2>1, <2>2, <2>6, <2>7 DEF Room, Only, AllBut
<1> QED BY <1>1, <1>2

\* whowas_add_history: the newest record is one of the history, and of the user if it is on.
LEMMA Remembers ==
  ASSUME NEW s, Formed(s), Past(s), NEW c \in User, Client(s, c), NEW online \in BOOLEAN,
         NEW t, t = whowas_add_history(s, c, online)
  PROVE  Only({"users", "whowas", "cells"}, s, t) /\ AllBut({"whowas_list"}, s, t) /\ Past(t)
<1> DEFINE m == whowas_make(s)
           w == m.cell
           u == m.s
           o == IF online THEN c ELSE "none"
           l == <<w>> \o u.whowas
           x == SetField(u, "whowas", l)
           cells2 == [u.cells EXCEPT ![w] = [name |-> s.users[c].name, online |-> o]]
           y == SetField(x, "cells", cells2)
           mine == y.users[c].whowas_list \cup {w}
<1>1. Room(s, u, w)
  BY Makes
<1>2. t = IF online THEN SetTag(y, c, "whowas_list", mine) ELSE y
  BY <1>1 DEF whowas_add_history, SetTag, SetUser, SetField, Room, Only, Formed, Full, Fields
<1> HIDE DEF m, w, u
<1>3. /\ Only({"users", "whowas"}, s, u) /\ AllBut({"whowas_list"}, s, u) /\ Trail(u) /\ Formed(u)
      /\ w \in Cell /\ w \notin ToSet(u.whowas) /\ Len(u.whowas) + 1 <= AtMost(s.history)
      /\ u.whowas \in Seq(Cell) /\ Once(u.whowas)
  BY <1>1 DEF Room, Only, Trail
<1>4. l \in Seq(Cell) /\ Len(l) = Len(u.whowas) + 1 /\ ToSet(l) = ToSet(u.whowas) \cup {w} /\ Once(l)
  <2>1. l = Push(w, u.whowas)
    BY DEF Push
  <2>2. w \in Cell /\ w \notin ToSet(u.whowas) /\ u.whowas \in Seq(Cell) /\ Once(u.whowas)
    BY <1>3
  <2> HIDE DEF l
  <2>3. Longer(Cell, w, u.whowas, l)
    BY <2>1, <2>2, Pushed
  <2> QED BY <2>2, <2>3 DEF Longer
<1> HIDE DEF l
<1>5. Only({"whowas"}, u, x) /\ x.whowas = l
  BY <1>3, SetWhowas
<1> HIDE DEF x
<1>6. Formed(x) /\ x.users = u.users /\ x.cells = u.cells
  BY <1>5 DEF Only, Fields
<1>7. /\ IsCells(cells2) /\ cells2[w].online = o /\ \A v \in Cell : v # w => cells2[v] = u.cells[v]
  BY <1>3 DEF Formed, IsCells, Full
<1> HIDE DEF cells2
<1>8. Only({"cells"}, x, y) /\ y.cells = cells2
  BY <1>6, <1>7, SetCells
<1> HIDE DEF y
<1>9. Formed(y) /\ y.users = u.users /\ y.whowas = l
  BY <1>5, <1>6, <1>8 DEF Only, Fields
<1>10. /\ Only({"users"}, y, t)
       /\ \A d \in User : \A g \in Tags : g # "whowas_list" => t.users[d][g] = y.users[d][g]
       /\ \A d \in User : t.users[d].whowas_list = IF d = o THEN y.users[d].whowas_list \cup {w} ELSE y.users[d].whowas_list
  <2>1. CASE online
    <3>1. t = SetTag(y, c, "whowas_list", mine) /\ "whowas_list" \in Tags
      BY <1>2, <2>1 DEF Tags
    <3> HIDE DEF mine
    <3>2. Only({"users"}, y, t) /\ Spared(y, t, c) /\ AllBut({"whowas_list"}, y, t) /\ t.users[c]["whowas_list"] = mine
      BY <1>9, <3>1, PutTag
    <3> QED BY <2>1, <3>2 DEF AllBut, Spared, mine
  <2>2. CASE ~online
    <3>1. t = y /\ \A d \in User : d # o
      BY <1>2, <2>2, SlotsAssumption
    <3> QED BY <1>9, <3>1 DEF Only
  <2> QED BY <2>1, <2>2
<1> HIDE DEF o, mine
<1>11. t.whowas = l /\ t.cells = cells2 /\ t.history = s.history
  BY <1>3, <1>5, <1>8, <1>9, <1>10 DEF Only, Fields
<1>12. Only({"users", "whowas", "cells"}, s, t) /\ AllBut({"whowas_list"}, s, t)
  BY <1>3, <1>5, <1>8, <1>9, <1>10 DEF Only, AllBut, Fields
<1>13. Trail(t)
  <2>1. ASSUME NEW d \in User
        PROVE  t.users[d].whowas_list \subseteq Cell /\ (~Client(t, d) => t.users[d].whowas_list = {})
    <3>1. u.users[d].whowas_list \subseteq Cell /\ (~Client(u, d) => u.users[d].whowas_list = {})
      BY <1>3 DEF Trail
    <3>2. t.users[d].whowas_list = IF d = o THEN u.users[d].whowas_list \cup {w} ELSE u.users[d].whowas_list
      BY <1>9, <1>10
    <3>3. (Client(t, d) <=> Client(s, d)) /\ (Client(u, d) <=> Client(s, d))
      BY <1>3, <1>12 DEF AllBut, Tags, Client
    <3>4. d = o => Client(s, d)
      BY SlotsAssumption DEF o
    <3> QED BY <1>3, <3>1, <3>2, <3>3, <3>4
  <2>2. ASSUME NEW d \in User, NEW v \in Cell
        PROVE  v \in t.users[d].whowas_list <=> v \in ToSet(l) /\ cells2[v].online = d
    <3>1. v \in u.users[d].whowas_list <=> v \in ToSet(u.whowas) /\ u.cells[v].online = d
      BY <1>3 DEF Trail
    <3>2. t.users[d].whowas_list = IF d = o THEN u.users[d].whowas_list \cup {w} ELSE u.users[d].whowas_list
      BY <1>9, <1>10
    <3>3. v \in ToSet(l) <=> v = w \/ v \in ToSet(u.whowas)
      BY <1>4
    <3>4. CASE v = w
      <4>1. v \in ToSet(l) /\ cells2[v].online = o /\ v \notin u.users[d].whowas_list
        BY <1>3, <1>7, <3>1, <3>3, <3>4
      <4> QED BY <3>2, <3>4, <4>1
    <3>5. CASE v # w
      <4>1. cells2[v] = u.cells[v]
        BY <1>7, <3>5
      <4> QED BY <3>1, <3>2, <3>3, <3>5, <4>1
    <3> QED BY <3>4, <3>5
  <2> QED BY <1>4, <1>11, <2>1, <2>2 DEF Trail
<1> QED BY <1>3, <1>4, <1>11, <1>12, <1>13 DEF Past

\* What whowas_off_history leaves of the history: none of it is of c.
Forgot(s, t, c) ==
  /\ Only({"users", "cells"}, s, t) /\ AllBut({"whowas_list"}, s, t) /\ Spared(s, t, c)
  /\ t.users[c].whowas_list = {} /\ Past(t)

LEMMA Forgets ==
  ASSUME NEW s, Formed(s), Past(s), NEW c \in User, NEW t, t = whowas_off_history(s, c)
  PROVE  Forgot(s, t, c)
<1> DEFINE mine == s.users[c].whowas_list
           cells2 == [w \in Cell |-> IF w \in mine THEN [s.cells[w] EXCEPT !.online = "none"] ELSE s.cells[w]]
           u == SetField(s, "cells", cells2)
<1>1. Trail(s)
  BY DEF Past
<1>2. /\ IsCells(cells2)
      /\ \A w \in Cell : cells2[w].online = IF w \in mine THEN "none" ELSE s.cells[w].online
  BY DEF Formed, IsCells, Full
<1>3. t = SetTag(u, c, "whowas_list", {})
  BY DEF whowas_off_history, SetTag, SetUser, SetField, Formed, Full, Fields
<1> HIDE DEF cells2
<1>4. Only({"cells"}, s, u) /\ u.cells = cells2
  BY <1>2, SetCells
<1> HIDE DEF u
<1>5. Formed(u) /\ u.users = s.users /\ "whowas_list" \in Tags
  BY <1>4 DEF Only, Fields, Tags
<1>6. Only({"users"}, u, t) /\ Spared(u, t, c) /\ AllBut({"whowas_list"}, u, t) /\ t.users[c]["whowas_list"] = {}
  BY <1>3, <1>5, PutTag
<1>7. /\ Only({"users", "cells"}, s, t) /\ AllBut({"whowas_list"}, s, t) /\ Spared(s, t, c)
      /\ t.users[c].whowas_list = {} /\ t.whowas = s.whowas /\ t.cells = cells2 /\ t.history = s.history
  BY <1>4, <1>5, <1>6 DEF Only, AllBut, Spared, Fields
<1>8. Trail(t)
  <2>1. ASSUME NEW d \in User
        PROVE  /\ t.users[d].whowas_list \subseteq Cell /\ (~Client(t, d) => t.users[d].whowas_list = {})
               /\ \A w \in Cell : w \in t.users[d].whowas_list <=> w \in ToSet(s.whowas) /\ cells2[w].online = d
    <3>1. /\ s.users[d].whowas_list \subseteq Cell /\ d # "none" /\ (~Client(s, d) => s.users[d].whowas_list = {})
          /\ \A w \in Cell : w \in s.users[d].whowas_list <=> w \in ToSet(s.whowas) /\ s.cells[w].online = d
      BY <1>1, SlotsAssumption DEF Trail
    <3>2. \A w \in Cell : w \in mine <=> w \in ToSet(s.whowas) /\ s.cells[w].online = c
      BY <1>1 DEF Trail
    <3>3. CASE d = c
      BY <1>2, <1>7, <3>1, <3>2, <3>3
    <3>4. CASE d # c
      <4>1. t.users[d] = s.users[d] /\ (Client(t, d) <=> Client(s, d))
        BY <1>7, <3>4 DEF Spared, Client
      <4> HIDE DEF mine
      <4> QED BY <1>2, <3>1, <3>2, <3>4, <4>1
    <3> QED BY <3>3, <3>4
  <2> QED BY <1>1, <1>7, <2>1 DEF Trail
<1> QED BY <1>7, <1>8 DEF Past, Forgot

\* A rehash: of the history what fits is left, the newest.
LEMMA Trims ==
  ASSUME NEW s, Formed(s), Past(s), NEW length \in 0..Cardinality(Cell), NEW t, t = whowas_trim(s, length)
  PROVE  Only({"users", "whowas", "history"}, s, t) /\ AllBut({"whowas_list"}, s, t) /\ Past(t)
<1> DEFINE n    == Len(s.whowas)
           keep == IF n < length THEN n ELSE IF length = 0 THEN 0 ELSE length - 1
           gone == ToSet(After(s.whowas, keep))
           us   == [c \in User |-> [s.users[c] EXCEPT !.whowas_list = {w \in @ : w \notin gone \/ s.cells[w].online # c}]]
           l    == Upto(s.whowas, keep)
           u    == SetField(s, "whowas", l)
           v    == SetField(u, "history", length)
<1>1. Trail(s) /\ s.whowas \in Seq(Cell) /\ Once(s.whowas)
  BY DEF Past, Trail
<1>2. n \in Nat /\ length \in Nat
  BY <1>1, LenProperties, SlotsAssumption, FS_CardinalityType
<1>3. keep \in 0..n /\ keep <= AtMost(length)
  BY <1>2 DEF AtMost
<1>4. t = SetField(v, "users", us)
  BY DEF whowas_trim, SetField, After, Upto, Formed, Full, Fields
<1>5. /\ IsUsers(us) /\ \A c \in User : us[c].whowas_list = {w \in s.users[c].whowas_list : w \notin gone \/ s.cells[w].online # c}
      /\ \A c \in User : \A g \in Tags \ {"whowas_list"} : us[c][g] = s.users[c][g]
  <2> DEFINE r(c) == [s.users[c] EXCEPT !.whowas_list = {w \in @ : w \notin gone \/ s.cells[w].online # c}]
  <2> HIDE DEF gone
  <2>1. ASSUME NEW c \in User
        PROVE  /\ Full(Tags, r(c)) /\ r(c).whowas_list = {w \in s.users[c].whowas_list : w \notin gone \/ s.cells[w].online # c}
               /\ \A g \in Tags \ {"whowas_list"} : r(c)[g] = s.users[c][g]
    <3>1. Full(Tags, s.users[c]) /\ "whowas_list" \in Tags
      BY DEF Formed, IsUsers, Tags
    <3> QED BY <3>1 DEF Full
  <2>2. us = [c \in User |-> r(c)]
    OBVIOUS
  <2> HIDE DEF r, us
  <2> QED BY <2>1, <2>2 DEF IsUsers, Full
<1> HIDE DEF n, keep, gone, us, l
<1>6. l \in Seq(Cell) /\ Len(l) = keep /\ Once(l) /\ ToSet(l) = ToSet(s.whowas) \ gone
  <2> DEFINE q == After(s.whowas, keep)
  <2>1. l = Upto(s.whowas, keep) /\ q = After(s.whowas, keep) /\ keep \in 0..Len(s.whowas)
    BY <1>3 DEF l, n
  <2> HIDE DEF q
  <2>2. l \in Seq(Cell) /\ Len(l) = keep /\ Once(l) /\ ToSet(l) = ToSet(s.whowas) \ ToSet(q)
    BY <1>1, <2>1, Prefix
  <2> QED BY <2>2 DEF q, gone
<1>7. Only({"whowas"}, s, u) /\ u.whowas = l
  BY SetWhowas
<1> HIDE DEF u
<1>8. Formed(u)
  BY <1>7 DEF Only
<1>9. Only({"history"}, u, v) /\ v.history = length
  BY <1>8, SetHistory
<1> HIDE DEF v
<1>10. Formed(v)
  BY <1>9 DEF Only
<1>11. Only({"users"}, v, t) /\ t.users = us
  BY <1>4, <1>5, <1>10, SetUsers
<1>12. Only({"users", "whowas", "history"}, s, t) /\ t.whowas = l /\ t.history = length /\ t.cells = s.cells
  BY <1>7, <1>9, <1>11 DEF Only, Fields
<1>13. AllBut({"whowas_list"}, s, t)
  BY <1>5, <1>11 DEF AllBut
<1>14. Trail(t)
  <2>1. ASSUME NEW c \in User
        PROVE  /\ us[c].whowas_list \subseteq Cell /\ (~Client(t, c) => us[c].whowas_list = {})
               /\ \A w \in Cell : w \in us[c].whowas_list <=> w \in ToSet(l) /\ s.cells[w].online = c
    <3>1. /\ s.users[c].whowas_list \subseteq Cell /\ (~Client(s, c) => s.users[c].whowas_list = {})
          /\ \A w \in Cell : w \in s.users[c].whowas_list <=> w \in ToSet(s.whowas) /\ s.cells[w].online = c
      BY <1>1 DEF Trail
    <3>2. Client(t, c) <=> Client(s, c)
      BY <1>13 DEF AllBut, Tags, Client
    <3>3. us[c].whowas_list = {w \in s.users[c].whowas_list : w \notin gone \/ s.cells[w].online # c}
      BY <1>5
    <3> QED BY <1>6, <3>1, <3>2, <3>3
  <2> QED BY <1>6, <1>11, <1>12, <2>1 DEF Trail
<1> QED BY <1>3, <1>6, <1>12, <1>13, <1>14 DEF Past

-----------------------------------------------------------------------------
(* Invitations. *)

\* One side of a channel set.
SetSide(s, ch, g, v) == SetField(s, "chans", [s.chans EXCEPT ![ch] = [s.chans[ch] EXCEPT ![g] = v]])

SidePut(s, t, ch, g, v) ==
  /\ Only({"chans"}, s, t) /\ t.chans[ch][g] = v
  /\ \A o \in Channel : o # ch => t.chans[o] = s.chans[o]
  /\ \A h \in Sides : h # g => t.chans[ch][h] = s.chans[ch][h]

LEMMA PutSide ==
  ASSUME NEW s, Formed(s), NEW ch \in Channel, NEW g \in Sides, NEW v, NEW t, t = SetSide(s, ch, g, v)
  PROVE  SidePut(s, t, ch, g, v)
<1> DEFINE r  == [s.chans[ch] EXCEPT ![g] = v]
           cs == [s.chans EXCEPT ![ch] = r]
<1>1. Full(Sides, r) /\ r[g] = v /\ \A h \in Sides : h # g => r[h] = s.chans[ch][h]
  <2>1. Full(Sides, s.chans[ch])
    BY DEF Formed, IsChans
  <2> QED BY <2>1 DEF Full
<1> HIDE DEF r
<1>2. Full(Channel, cs) /\ cs[ch] = r /\ \A o \in Channel : o # ch => cs[o] = s.chans[o]
  <2>1. Full(Channel, s.chans)
    BY DEF Formed, IsChans
  <2> QED BY <2>1 DEF Full
<1> HIDE DEF cs
<1>3. IsChans(cs)
  BY <1>1, <1>2 DEF Formed, IsChans
<1>4. t = SetField(s, "chans", cs)
  BY DEF SetSide, cs, r
<1>5. Only({"chans"}, s, t) /\ t.chans = cs
  BY <1>3, <1>4, SetChans
<1> QED BY <1>1, <1>2, <1>5 DEF SidePut

\* The invitations of D are on neither list any more, the others as before; the places kept
\* of a client's list.
Kept(s, c, D) == {i \in DOMAIN s.users[c].invited : <<c, s.users[c].invited[i].channel>> \notin D}
Uninvited(s, t, D) ==
  /\ Only({"users", "chans"}, s, t) /\ AllBut({"invited"}, s, t) /\ Lists(t)
  /\ \A c \in User : /\ ToSet(t.users[c].invited) = {x \in ToSet(s.users[c].invited) : <<c, x.channel>> \notin D}
                     /\ Len(t.users[c].invited) = Cardinality(Kept(s, c, D))
  /\ \A ch \in Channel : /\ ToSet(t.chans[ch].invites) = {x \in ToSet(s.chans[ch].invites) : <<x.client, ch>> \notin D}
                         /\ \A g \in Sides \ {"invites"} : t.chans[ch][g] = s.chans[ch][g]

LEMMA Uninvites ==
  ASSUME NEW s, Formed(s), Lists(s), NEW D, NEW t, t = invite_del(s, D)
  PROVE  Uninvited(s, t, D)
<1> DEFINE its(ch)   == s.chans[ch].invites
           places(ch) == {i \in DOMAIN its(ch) : <<its(ch)[i].client, ch>> \notin D}
           l(c)  == Picked(s.users[c].invited, Kept(s, c, D))
           k(ch) == Picked(its(ch), places(ch))
           us == [c \in User |-> [s.users[c] EXCEPT !.invited = l(c)]]
           cs == [ch \in Channel |-> [s.chans[ch] EXCEPT !.invites = k(ch)]]
           u  == SetField(s, "users", us)
<1>1. t = SetField(u, "chans", cs)
  BY DEF invite_del, SetField, Kept, Formed, Full, Fields
<1>2. ASSUME NEW c \in User
      PROVE  /\ l(c) \in Seq(Invitation) /\ Len(l(c)) = Cardinality(Kept(s, c, D))
             /\ ToSet(l(c)) = {x \in ToSet(s.users[c].invited) : <<c, x.channel>> \notin D}
  <2> DEFINE bs == s.users[c].invited
             S == Kept(s, c, D)
             r == Picked(bs, S)
  <2>1. bs \in Seq(Invitation) /\ S \subseteq DOMAIN bs
    BY DEF Lists, Kept
  <2> HIDE DEF bs, S, r
  <2>2. r = Picked(bs, S)
    BY DEF r
  <2>3. r \in Seq(Invitation) /\ Len(r) = Cardinality(S) /\ ToSet(r) = {bs[i] : i \in S}
    BY <2>1, <2>2, PickedAre
  <2>4. {bs[i] : i \in S} = {x \in ToSet(bs) : <<c, x.channel>> \notin D}
    BY DEF S, bs, Kept, ToSet
  <2> QED BY <2>3, <2>4 DEF r, bs, S
<1>3. ASSUME NEW ch \in Channel
      PROVE  /\ k(ch) \in Seq(Guest)
             /\ ToSet(k(ch)) = {x \in ToSet(s.chans[ch].invites) : <<x.client, ch>> \notin D}
  <2> DEFINE bs == s.chans[ch].invites
             S == places(ch)
             r == Picked(bs, S)
  <2>1. bs \in Seq(Guest) /\ S \subseteq DOMAIN bs
    BY DEF Lists
  <2>2. {bs[i] : i \in S} = {x \in ToSet(bs) : <<x.client, ch>> \notin D}
    BY DEF ToSet
  <2>3. r = k(ch)
    OBVIOUS
  <2> HIDE DEF bs, S, r, k
  <2>4. r = Picked(bs, S)
    BY DEF r
  <2>5. r \in Seq(Guest) /\ ToSet(r) = {bs[i] : i \in S}
    BY <2>1, <2>4, PickedAre
  <2> QED BY <2>5, <2>2, <2>3 DEF bs
<1> HIDE DEF l, k
<1>4. /\ IsUsers(us) /\ \A c \in User : us[c].invited = l(c)
      /\ \A c \in User : \A g \in Tags \ {"invited"} : us[c][g] = s.users[c][g]
  <2> DEFINE r(c) == [s.users[c] EXCEPT !.invited = l(c)]
  <2>1. ASSUME NEW c \in User
        PROVE  Full(Tags, r(c)) /\ r(c).invited = l(c) /\ \A g \in Tags \ {"invited"} : r(c)[g] = s.users[c][g]
    <3>1. Full(Tags, s.users[c]) /\ "invited" \in Tags
      BY DEF Formed, IsUsers, Tags
    <3> QED BY <3>1 DEF Full
  <2>2. us = [c \in User |-> r(c)]
    OBVIOUS
  <2> HIDE DEF r, us
  <2> QED BY <2>1, <2>2 DEF IsUsers, Full
<1>5. /\ IsChans(cs) /\ \A ch \in Channel : cs[ch].invites = k(ch)
      /\ \A ch \in Channel : \A g \in Sides \ {"invites"} : cs[ch][g] = s.chans[ch][g]
  <2> DEFINE r(ch) == [s.chans[ch] EXCEPT !.invites = k(ch)]
  <2>1. ASSUME NEW ch \in Channel
        PROVE  Full(Sides, r(ch)) /\ r(ch).invites = k(ch) /\ \A g \in Sides \ {"invites"} : r(ch)[g] = s.chans[ch][g]
    <3>1. Full(Sides, s.chans[ch]) /\ "invites" \in Sides
      BY DEF Formed, IsChans, Sides
    <3> QED BY <3>1 DEF Full
  <2>2. cs = [ch \in Channel |-> r(ch)]
    OBVIOUS
  <2> HIDE DEF r, cs
  <2> QED BY <2>1, <2>2 DEF IsChans, Full
<1> HIDE DEF us, cs
<1>6. Only({"users"}, s, u) /\ u.users = us
  BY <1>4, SetUsers
<1> HIDE DEF u
<1>7. Formed(u)
  BY <1>6 DEF Only
<1>8. Only({"chans"}, u, t) /\ t.chans = cs
  BY <1>1, <1>5, <1>7, SetChans
<1>9. Only({"users", "chans"}, s, t) /\ t.users = us
  BY <1>6, <1>8 DEF Only, Fields
<1>10. AllBut({"invited"}, s, t)
  BY <1>4, <1>9 DEF AllBut
<1>11. Lists(t)
  BY <1>2, <1>3, <1>4, <1>5, <1>8, <1>9 DEF Lists
<1> QED BY <1>2, <1>3, <1>4, <1>5, <1>8, <1>9, <1>10, <1>11 DEF Uninvited

\* No client has more invitations than before.
LEMMA Fewer ==
  ASSUME NEW s, Lists(s), NEW t, NEW D, Uninvited(s, t, D), NEW c \in User
  PROVE  /\ Len(t.users[c].invited) \in Nat /\ Len(s.users[c].invited) \in Nat
         /\ Len(t.users[c].invited) <= Len(s.users[c].invited)
         /\ \A n \in Nat : Kept(s, c, D) \subseteq 1..n => Len(t.users[c].invited) <= n
<1> DEFINE S == Kept(s, c, D)
<1>1. s.users[c].invited \in Seq(Invitation) /\ t.users[c].invited \in Seq(Invitation)
  BY DEF Lists, Uninvited
<1>2. /\ Len(s.users[c].invited) \in Nat /\ Len(t.users[c].invited) \in Nat
      /\ DOMAIN s.users[c].invited = 1..Len(s.users[c].invited)
  BY <1>1, LenProperties
<1>3. ASSUME NEW n \in Nat, S \subseteq 1..n PROVE Cardinality(S) <= n
  <2>1. IsFiniteSet(1..n) /\ Cardinality(1..n) = n
    BY FS_Interval
  <2> HIDE DEF S
  <2> QED BY <1>3, <2>1, FS_Subset
<1>4. S \subseteq 1..Len(s.users[c].invited)
  BY <1>2 DEF Kept
<1>5. Len(t.users[c].invited) = Cardinality(S)
  BY DEF Uninvited
<1> QED BY <1>2, <1>3, <1>4, <1>5

\* Deleting invitations leaves the lists in agreement.
LEMMA DeletesPairs ==
  ASSUME NEW s, Formed(s), Invited(s), NEW D, NEW t, Uninvited(s, t, D)
  PROVE  Invited(t)
<1>1. Lists(s) /\ Lists(t) /\ Paired(s) /\ Few(s)
  BY DEF Invited, Uninvited
<1>2. Paired(t)
  <2> SUFFICES ASSUME NEW c \in User, NEW ch \in Channel PROVE OfClient(t, c, ch) = OfChannel(t, c, ch)
    BY DEF Paired
  <2>1. OfClient(t, c, ch) = IF <<c, ch>> \in D THEN {} ELSE OfClient(s, c, ch)
    <3>1. ToSet(t.users[c].invited) = {x \in ToSet(s.users[c].invited) : <<c, x.channel>> \notin D}
      BY DEF Uninvited
    <3> QED BY <3>1 DEF OfClient
  <2>2. OfChannel(t, c, ch) = IF <<c, ch>> \in D THEN {} ELSE OfChannel(s, c, ch)
    <3>1. ToSet(t.chans[ch].invites) = {x \in ToSet(s.chans[ch].invites) : <<x.client, ch>> \notin D}
      BY DEF Uninvited
    <3> QED BY <3>1 DEF OfChannel
  <2> QED BY <1>1, <2>1, <2>2 DEF Paired
<1>3. Few(t)
  <2> SUFFICES ASSUME NEW c \in User
               PROVE  /\ Len(t.users[c].invited) <= MaxInvites \/ Len(t.users[c].invited) = 1
                      /\ ~Mine(t, c) => t.users[c].invited = <<>>
    BY DEF Few
  <2>1. SameNames(s, t)
    BY SameFields DEF Uninvited
  <2>2. Mine(t, c) <=> Mine(s, c)
    BY <2>1, NamesFrame
  <2>3. /\ Len(t.users[c].invited) \in Nat /\ Len(s.users[c].invited) \in Nat
        /\ Len(t.users[c].invited) <= Len(s.users[c].invited)
    BY <1>1, Fewer
  <2>4. /\ Len(s.users[c].invited) <= MaxInvites \/ Len(s.users[c].invited) = 1
        /\ ~Mine(s, c) => s.users[c].invited = <<>>
    BY <1>1 DEF Few
  <2>5. Len(t.users[c].invited) <= MaxInvites \/ Len(t.users[c].invited) = 1
    <3> DEFINE a == Len(t.users[c].invited)
               b == Len(s.users[c].invited)
    <3>1. a \in Nat /\ b \in Nat /\ a <= b /\ (b <= MaxInvites \/ b = 1) /\ MaxInvites \in Nat
      BY <2>3, <2>4, LimitsAssumption
    <3> HIDE DEF a, b
    <3>2. a <= MaxInvites \/ a = 1
      BY <3>1
    <3> QED BY <3>2 DEF a
  <2>6. ASSUME ~Mine(t, c) PROVE t.users[c].invited = <<>>
    <3>1. Len(s.users[c].invited) = 0
      BY <2>2, <2>4, <2>6
    <3>2. Len(t.users[c].invited) = 0 /\ t.users[c].invited \in Seq(Invitation)
      BY <1>1, <2>3, <3>1 DEF Lists
    <3> QED BY <3>2, EmptySeq
  <2> QED BY <2>5, <2>6
<1> QED BY <1>1, <1>2, <1>3 DEF Invited

LEMMA DelGood ==
  ASSUME NEW s, Good(s), NEW D, NEW t, t = invite_del(s, D)
  PROVE  Good(t) /\ Uninvited(s, t, D)
<1>1. Formed(s) /\ Invited(s) /\ Lists(s)
  BY DEF Good, Invited
<1>2. Uninvited(s, t, D)
  BY <1>1, Uninvites
<1>3. Invited(t)
  BY <1>1, <1>2, DeletesPairs
<1> QED BY <1>2, <1>3, InvitesSide DEF Uninvited

\* invite_clear_user: no invitation of the client is left.
LEMMA ClearsUser ==
  ASSUME NEW s, Good(s), NEW c \in User, NEW t, t = invite_clear_user(s, c)
  PROVE  Good(t) /\ Only({"users", "chans"}, s, t) /\ AllBut({"invited"}, s, t) /\ t.users[c].invited = <<>>
<1> DEFINE D == {<<c, x.channel>> : x \in ToSet(s.users[c].invited)}
<1>1. t = invite_del(s, D)
  BY DEF invite_clear_user
<1>2. \A x \in ToSet(s.users[c].invited) : <<c, x.channel>> \in D
  OBVIOUS
<1> HIDE DEF D
<1>3. Good(t) /\ Uninvited(s, t, D)
  BY <1>1, DelGood
<1>4. Kept(s, c, D) = {}
  BY <1>2 DEF Kept, ToSet
<1>5. Len(t.users[c].invited) = 0
  BY <1>3, <1>4, FS_EmptySet DEF Uninvited
<1>6. t.users[c].invited \in Seq(Invitation)
  BY <1>3 DEF Good, Invited, Lists
<1>7. t.users[c].invited = <<>>
  BY <1>5, <1>6, EmptySeq
<1> QED BY <1>3, <1>7 DEF Uninvited

\* invite_find: whatever has expired, deleting it leaves a good state.
LEMMA FindGood ==
  ASSUME NEW s, Good(s), NEW ch, NEW c, NEW t, t = invite_find(s, ch, c).s
  PROVE  Good(t) /\ Only({"users", "chans"}, s, t) /\ AllBut({"invited"}, s, t)
<1> DEFINE mine == s.users[c].invited
           its  == s.chans[ch].invites
           walk == IF Len(mine) < Len(its)
                   THEN [i \in DOMAIN mine |-> [client |-> c, channel |-> mine[i].channel, when |-> mine[i].when]]
                   ELSE [i \in DOMAIN its |-> [client |-> its[i].client, channel |-> ch, when |-> its[i].when]]
           hits == {i \in DOMAIN walk : walk[i].client = c /\ walk[i].channel = ch /\ ~Over(walk[i])}
           upto == IF hits = {} THEN Len(walk) ELSE CHOOSE i \in hits : \A j \in hits : i <= j
           D    == {<<walk[i].client, walk[i].channel>> : i \in {j \in 1..upto : Over(walk[j])}}
<1>1. t = invite_del(s, D)
  BY DEF invite_find
<1> HIDE DEF D
<1>2. Good(t) /\ Uninvited(s, t, D)
  BY <1>1, DelGood
<1> QED BY <1>2 DEF Uninvited

\* The same invitation put first on both lists.
LEMMA Invites ==
  ASSUME NEW s, Good(s), NEW c \in User, Mine(s, c), NEW ch \in Channel, time \in Nat,
         Len(s.users[c].invited) + 1 <= MaxInvites \/ Len(s.users[c].invited) = 0,
         NEW t, t = [s EXCEPT !.users[c].invited = <<[channel |-> ch, when |-> time]>> \o @,
                              !.chans[ch].invites = <<[client |-> c, when |-> time]>> \o @]
  PROVE  Good(t)
<1> DEFINE x == [channel |-> ch, when |-> time]
           y == [client |-> c, when |-> time]
           l == Push(x, s.users[c].invited)
           k == Push(y, s.chans[ch].invites)
           u == SetTag(s, c, "invited", l)
<1>1. Formed(s) /\ Invited(s) /\ Lists(s) /\ Paired(s) /\ Few(s)
  BY DEF Good, Invited
<1>2. t = SetSide(u, ch, "invites", k)
  BY <1>1 DEF SetSide, SetTag, SetUser, SetField, Push, Formed, Full, Fields
<1>3. Longer(Invitation, x, s.users[c].invited, l)
  <2>1. x \in Invitation /\ s.users[c].invited \in Seq(Invitation)
    BY <1>1 DEF Invitation, Lists
  <2> HIDE DEF l, x
  <2>2. l = Push(x, s.users[c].invited)
    BY DEF l
  <2> QED BY <2>1, <2>2, Pushed
<1>4. Longer(Guest, y, s.chans[ch].invites, k)
  <2>1. y \in Guest /\ s.chans[ch].invites \in Seq(Guest)
    BY <1>1 DEF Guest, Lists
  <2> HIDE DEF k, y
  <2>2. k = Push(y, s.chans[ch].invites)
    BY DEF k
  <2> QED BY <2>1, <2>2, Pushed
<1> HIDE DEF l, k
<1>5. Only({"users"}, s, u) /\ Spared(s, u, c) /\ AllBut({"invited"}, s, u) /\ u.users[c]["invited"] = l
  <2>1. "invited" \in Tags
    BY DEF Tags
  <2> HIDE DEF u
  <2>2. u = SetTag(s, c, "invited", l)
    BY DEF u
  <2> QED BY <1>1, <2>1, <2>2, PutTag
<1> HIDE DEF u
<1>6. Formed(u) /\ u.chans = s.chans /\ "invites" \in Sides
  BY <1>5 DEF Only, Fields, Sides
<1>7. /\ Only({"chans"}, u, t) /\ t.chans[ch]["invites"] = k
      /\ \A o \in Channel : o # ch => t.chans[o] = u.chans[o]
  <2>1. SidePut(u, t, ch, "invites", k)
    BY <1>2, <1>6, PutSide
  <2> QED BY <2>1 DEF SidePut
<1>8. /\ Only({"users", "chans"}, s, t) /\ AllBut({"invited"}, s, t) /\ t.users = u.users
  <2>1. t.users = u.users
    BY <1>7 DEF Only, Fields
  <2>2. Only({"users", "chans"}, s, t)
    BY <1>5, <1>7 DEF Only
  <2> QED BY <1>5, <2>1, <2>2 DEF AllBut
<1>9. /\ t.users[c].invited = l /\ t.chans[ch].invites = k
      /\ \A d \in User : d # c => t.users[d].invited = s.users[d].invited
      /\ \A o \in Channel : o # ch => t.chans[o].invites = s.chans[o].invites
  BY <1>5, <1>6, <1>7, <1>8 DEF Spared
<1>10. Lists(t)
  BY <1>1, <1>3, <1>4, <1>9 DEF Lists, Longer
<1>11. Paired(t)
  <2> SUFFICES ASSUME NEW d \in User, NEW o \in Channel PROVE OfClient(t, d, o) = OfChannel(t, d, o)
    BY DEF Paired
  <2>0. OfClient(s, d, o) = OfChannel(s, d, o)
    BY <1>1 DEF Paired
  <2>1. OfClient(t, d, o) = IF d = c /\ o = ch THEN OfClient(s, d, o) \cup {time} ELSE OfClient(s, d, o)
    <3>1. ToSet(l) = ToSet(s.users[c].invited) \cup {x} /\ x.channel = ch /\ x.when = time
      BY <1>3 DEF Longer
    <3> HIDE DEF x
    <3>2. CASE d = c
      <4>1. ToSet(t.users[d].invited) = ToSet(s.users[d].invited) \cup {x}
        BY <1>9, <3>1, <3>2
      <4> QED BY <3>1, <3>2, <4>1 DEF OfClient
    <3>3. CASE d # c
      BY <1>9, <3>3 DEF OfClient
    <3> QED BY <3>2, <3>3
  <2>2. OfChannel(t, d, o) = IF d = c /\ o = ch THEN OfChannel(s, d, o) \cup {time} ELSE OfChannel(s, d, o)
    <3>1. ToSet(k) = ToSet(s.chans[ch].invites) \cup {y} /\ y.client = c /\ y.when = time
      BY <1>4 DEF Longer
    <3> HIDE DEF y
    <3>2. CASE o = ch
      <4>1. ToSet(t.chans[o].invites) = ToSet(s.chans[o].invites) \cup {y}
        BY <1>9, <3>1, <3>2
      <4> QED BY <3>1, <3>2, <4>1 DEF OfChannel
    <3>3. CASE o # ch
      BY <1>9, <3>3 DEF OfChannel
    <3> QED BY <3>2, <3>3
  <2> QED BY <2>0, <2>1, <2>2
<1>12. Few(t)
  <2>1. SameNames(s, t)
    BY <1>8, SameFields
  <2>2. \A d \in User : Mine(t, d) <=> Mine(s, d)
    BY <2>1, NamesFrame
  <2>3. Len(l) = Len(s.users[c].invited) + 1
    BY <1>3 DEF Longer
  <2>4. Len(l) <= MaxInvites \/ Len(l) = 1
    BY <2>3
  <2> QED BY <1>1, <1>9, <2>2, <2>4 DEF Few
<1> QED BY <1>8, <1>10, <1>11, <1>12, InvitesSide DEF Invited

\* invite_add: the oldest ones of the client go when it has as many as it may have.
LEMMA AddGood ==
  ASSUME NEW s, Good(s), NEW c \in User, Mine(s, c), NEW ch \in Channel, time \in Nat, NEW t, t = invite_add(s, ch, c)
  PROVE  Good(t)
<1> DEFINE f == invite_find(s, ch, c)
           g == f.s
           h == IF f.found THEN invite_del(g, {<<c, ch>>}) ELSE g
           mine == h.users[c].invited
           D == {<<c, mine[i].channel>> : i \in {j \in DOMAIN mine : j >= MaxInvites}}
           u == invite_del(h, D)
<1>1. t = [u EXCEPT !.users[c].invited = <<[channel |-> ch, when |-> time]>> \o @,
                    !.chans[ch].invites = <<[client |-> c, when |-> time]>> \o @]
  BY DEF invite_add
<1>2. Good(g) /\ Only({"users", "chans"}, s, g) /\ AllBut({"invited"}, s, g)
  <2> DEFINE x == g
  <2>1. x = invite_find(s, ch, c).s
    OBVIOUS
  <2> HIDE DEF x
  <2>2. Good(x) /\ Only({"users", "chans"}, s, x) /\ AllBut({"invited"}, s, x)
    BY <2>1, FindGood
  <2> QED BY <2>2 DEF x
<1>3. Mine(g, c)
  <2>1. SameNames(s, g)
    BY <1>2, SameFields
  <2> QED BY <2>1, NamesFrame
<1> HIDE DEF g
<1>4. Good(h) /\ Mine(h, c)
  <2>1. ASSUME NEW x, x = invite_del(g, {<<c, ch>>}) PROVE Good(x) /\ Mine(x, c)
    <3>1. Good(x) /\ Uninvited(g, x, {<<c, ch>>})
      BY <1>2, <2>1, DelGood
    <3>2. SameNames(g, x)
      BY <3>1, SameFields DEF Uninvited
    <3> QED BY <1>3, <3>1, <3>2, NamesFrame
  <2> QED BY <1>2, <1>3, <2>1
<1> HIDE DEF h
<1>5. \A i \in DOMAIN mine : i >= MaxInvites => <<c, mine[i].channel>> \in D
  OBVIOUS
<1> HIDE DEF D
<1>6. Good(u) /\ Uninvited(h, u, D)
  <2> HIDE DEF u
  <2>1. u = invite_del(h, D)
    BY DEF u
  <2> QED BY <1>4, <2>1, DelGood
<1> HIDE DEF u
<1>7. Mine(u, c)
  <2>1. SameNames(h, u)
    BY <1>6, SameFields DEF Uninvited
  <2> QED BY <1>4, <2>1, NamesFrame
<1>8. Lists(h) /\ mine \in Seq(Invitation) /\ DOMAIN mine = 1..Len(mine) /\ Len(mine) \in Nat
  <2>1. Lists(h)
    BY <1>4 DEF Good, Invited
  <2>2. mine \in Seq(Invitation)
    BY <2>1 DEF Lists
  <2> HIDE DEF mine
  <2> QED BY <2>1, <2>2, LenProperties
<1>9. Len(u.users[c].invited) + 1 <= MaxInvites \/ Len(u.users[c].invited) = 0
  <2> DEFINE n == IF MaxInvites = 0 THEN 0 ELSE MaxInvites - 1
             len == Len(u.users[c].invited)
  <2>1. n \in Nat /\ \A i \in Nat : i # 0 /\ ~(i >= MaxInvites) => i \in 1..n
    BY LimitsAssumption
  <2>2. ASSUME NEW i \in Kept(h, c, D) PROVE i \in 1..n
    <3>1. i \in DOMAIN mine /\ <<c, mine[i].channel>> \notin D
      BY <2>2 DEF Kept
    <3>2. i \in 1..Len(mine) /\ ~(i >= MaxInvites)
      BY <1>5, <1>8, <3>1
    <3>3. i \in Nat /\ i # 0
      BY <1>8, <3>2
    <3> HIDE DEF n
    <3> QED BY <2>1, <3>2, <3>3
  <2> HIDE DEF n
  <2>3. len \in Nat /\ len <= n
    BY <1>6, <1>8, <2>1, <2>2, Fewer
  <2> HIDE DEF len
  <2>4. len + 1 <= MaxInvites \/ len = 0
    BY <2>3, LimitsAssumption DEF n
  <2> QED BY <2>4 DEF len
<1> QED BY <1>1, <1>6, <1>7, <1>9, Invites

-----------------------------------------------------------------------------
(* What no part of the invariant is about. *)

LEMMA IdleTag ==
  ASSUME NEW s, Good(s), NEW c \in User, NEW g \in {"tags", "account", "away", "acceptlist", "pace"}, NEW v,
         NEW t, t = SetTag(s, c, g, v)
  PROVE  Good(t) /\ SameNames(s, t)
<1>1. Formed(s) /\ g \in Tags
  BY DEF Good, Tags
<1>2. Only({"users"}, s, t) /\ AllBut({g}, s, t)
  BY <1>1, PutTag
<1>3. t.chans = s.chans /\ Only({"users", "chans"}, s, t)
  BY <1>2 DEF Only, Fields
<1>4. AllBut({"tags", "account", "away", "acceptlist", "pace"}, s, t)
  BY <1>2 DEF AllBut
<1>5. SameNames(s, t)
  BY <1>3, <1>4, SameFields
<1> QED BY <1>3, <1>4, <1>5, NoSide

LEMMA IdleSide ==
  ASSUME NEW s, Good(s), NEW ch \in Channel, NEW g \in {"there", "last"}, NEW v, NEW t, t = SetSide(s, ch, g, v)
  PROVE  Good(t) /\ SameNames(s, t)
<1>1. Formed(s) /\ g \in Sides /\ "invites" \in Sides /\ g # "invites"
  BY DEF Good, Sides
<1>2. SidePut(s, t, ch, g, v)
  BY <1>1, PutSide
<1>3. Only({"chans"}, s, t) /\ Only({"users", "chans"}, s, t) /\ t.users = s.users
  BY <1>2 DEF SidePut, Only, Fields
<1>4. \A o \in Channel : t.chans[o].invites = s.chans[o].invites
  BY <1>1, <1>2 DEF SidePut
<1>5. AllBut({"tags", "account", "away", "acceptlist", "pace"}, s, t)
  BY <1>3 DEF AllBut
<1>6. SameNames(s, t)
  BY <1>3, <1>5, SameFields
<1> QED BY <1>3, <1>4, <1>5, <1>6, NoSide

-----------------------------------------------------------------------------
(* User modes. *)

Num(b) == IF b THEN 1 ELSE 0
HasMode(s, c, m) == Client(s, c) /\ m \in s.users[c].umodes

\* Who has a mode, when but one user is changed.
LEMMA WithOne ==
  ASSUME NEW s, NEW t, NEW c \in User, Spared(s, t, c), NEW m
  PROVE  /\ Cardinality(With(s, m)) \in Nat
         /\ Cardinality(With(t, m)) = Cardinality(With(s, m)) + Num(HasMode(t, c, m)) - Num(HasMode(s, c, m))
         /\ \A d \in User : d # c => (d \in With(t, m) <=> d \in With(s, m))
         /\ c \in With(s, m) <=> HasMode(s, c, m)
         /\ c \in With(t, m) <=> HasMode(t, c, m)
<1> DEFINE A == With(s, m)
           B == With(t, m)
           C == A \ {c}
<1>1. A \in SUBSET User /\ B \in SUBSET User /\ (c \in A <=> HasMode(s, c, m)) /\ (c \in B <=> HasMode(t, c, m))
  BY DEF With, HasMode
<1>2. \A d \in User : d # c => (d \in B <=> d \in A)
  BY DEF With, Client, Spared
<1>3. IsFiniteSet(A) /\ IsFiniteSet(C) /\ Cardinality(A) \in Nat
  BY <1>1, SlotsAssumption, FS_Subset, FS_CardinalityType
<1>4. A = IF c \in A THEN C \cup {c} ELSE C
  OBVIOUS
<1>5. B = IF c \in B THEN C \cup {c} ELSE C
  BY <1>1, <1>2
<1> HIDE DEF A, B
<1>6. c \notin C
  OBVIOUS
<1> HIDE DEF C
<1>7. Cardinality(C \cup {c}) = Cardinality(C) + 1 /\ Cardinality(C) \in Nat
  BY <1>3, <1>6, FS_AddElement, FS_CardinalityType
<1>8. Cardinality(A) = Cardinality(C) + Num(c \in A) /\ Cardinality(B) = Cardinality(C) + Num(c \in B)
  BY <1>4, <1>5, <1>7 DEF Num
<1>9. Num(c \in A) \in {0, 1} /\ Num(c \in B) \in {0, 1}
  BY DEF Num
<1>10. Cardinality(B) = Cardinality(A) + Num(c \in B) - Num(c \in A)
  BY <1>7, <1>8, <1>9
<1>11. Num(c \in A) = Num(HasMode(s, c, m)) /\ Num(c \in B) = Num(HasMode(t, c, m))
  BY <1>1 DEF Num
<1> QED BY <1>1, <1>2, <1>3, <1>10, <1>11 DEF A, B

\* One user's record is changed, with the counts and the list of operators that go with it.
LEMMA OperatorsAt ==
  ASSUME NEW s, Operators(s), NEW t, NEW c \in User, Spared(s, t, c),
         t.count.oper = s.count.oper + Num(HasMode(t, c, "o")) - Num(HasMode(s, c, "o")),
         t.oper_list = IF HasMode(t, c, "o") /\ t.users[c].local THEN s.oper_list \cup {c} ELSE s.oper_list \ {c},
         t.users[c].local => Block(t.users[c], HasMode(t, c, "o"))
  PROVE  Operators(t)
<1>1. /\ s.count.oper = Cardinality(With(s, "o")) /\ s.oper_list = {d \in With(s, "o") : s.users[d].local}
      /\ \A d \in User : s.users[d].local => Block(s.users[d], d \in s.oper_list)
  BY DEF Operators
<1>2. /\ Cardinality(With(t, "o")) = Cardinality(With(s, "o")) + Num(HasMode(t, c, "o")) - Num(HasMode(s, c, "o"))
      /\ \A d \in User : d # c => (d \in With(t, "o") <=> d \in With(s, "o"))
      /\ c \in With(t, "o") <=> HasMode(t, c, "o")
  BY WithOne
<1>3. t.count.oper = Cardinality(With(t, "o"))
  BY <1>1, <1>2
<1>4. \A d \in User : d # c => t.users[d] = s.users[d]
  BY DEF Spared
<1>5. With(t, "o") \subseteq User /\ With(s, "o") \subseteq User
  BY DEF With
<1>6. t.oper_list = {d \in With(t, "o") : t.users[d].local}
  BY <1>1, <1>2, <1>4, <1>5
<1>7. ASSUME NEW d \in User, t.users[d].local PROVE Block(t.users[d], d \in t.oper_list)
  <2>1. CASE d = c
    <3>1. d \in t.oper_list <=> HasMode(t, c, "o")
      BY <1>7, <2>1
    <3> QED BY <1>7, <2>1, <3>1 DEF Block
  <2>2. CASE d # c
    <3>1. t.users[d] = s.users[d] /\ (d \in t.oper_list <=> d \in s.oper_list)
      BY <1>4, <2>2
    <3> QED BY <1>1, <1>7, <3>1 DEF Block
  <2> QED BY <2>1, <2>2
<1> QED BY <1>3, <1>6, <1>7 DEF Operators

LEMMA HiddenAt ==
  ASSUME NEW s, Hidden(s), NEW t, NEW c \in User, Spared(s, t, c),
         "i" \notin OperOnly => t.count.invisi = s.count.invisi + Num(HasMode(t, c, "i")) - Num(HasMode(s, c, "i"))
  PROVE  Hidden(t)
BY WithOne DEF Hidden

\* The modes of one user are changed, with its block and flags, the counts and the list of operators.
Touched(s, t, c) ==
  /\ Only({"users", "count", "oper_list"}, s, t) /\ AllBut({"umodes", "oflag", "conf", "tags"}, s, t)
  /\ Spared(s, t, c)

LEMMA TouchedOn ==
  ASSUME NEW s, NEW t, NEW u, NEW c \in User, Touched(s, t, c), Touched(t, u, c)
  PROVE  Touched(s, u, c)
BY DEF Touched, Only, AllBut, Spared, Fields, Tags

LEMMA TouchedClient ==
  ASSUME NEW s, NEW t, NEW c \in User, Touched(s, t, c)
  PROVE  SameNames(s, t) /\ \A d \in User : Client(t, d) <=> Client(s, d)
<1>1. SameNames(s, t)
  BY SameFields DEF Touched
<1> QED BY <1>1 DEF SameNames, Client

\* A state with other modes of one user, other counts and another list.
Remade(s, t, c) ==
  /\ Full(Fields, t) /\ \A f \in Fields \ {"users", "count", "oper_list"} : t[f] = s[f]
  /\ Full(User, t.users) /\ Spared(s, t, c) /\ IsCount(t.count)
  /\ Full(Tags, t.users[c]) /\ \A g \in Tags \ {"umodes", "oflag", "conf", "tags"} : t.users[c][g] = s.users[c][g]

LEMMA Remakes ==
  ASSUME NEW s, Formed(s), NEW c \in User, NEW t, Remade(s, t, c)
  PROVE  Touched(s, t, c)
<1>1. IsUsers(t.users)
  BY DEF Remade, Formed, IsUsers, Spared
<1>2. Formed(t)
  BY <1>1 DEF Remade, Formed, Fields
<1>3. AllBut({"umodes", "oflag", "conf", "tags"}, s, t)
  BY DEF Remade, AllBut, Spared
<1> QED BY <1>2, <1>3 DEF Remade, Touched, Only

\* One mode put.
ModePut(s, t, c, m, add) ==
  /\ Touched(s, t, c) /\ t.count = s.count /\ t.oper_list = s.oper_list
  /\ t.users[c].umodes = IF add THEN s.users[c].umodes \cup {m} ELSE s.users[c].umodes \ {m}
  /\ t.users[c].oflag = s.users[c].oflag /\ t.users[c].conf = s.users[c].conf

LEMMA Puts ==
  ASSUME NEW s, Formed(s), NEW c \in User, NEW m, NEW add \in BOOLEAN, NEW t, t = Put(s, c, m, add)
  PROVE  ModePut(s, t, c, m, add)
<1> DEFINE v == IF add THEN s.users[c].umodes \cup {m} ELSE s.users[c].umodes \ {m}
<1>1. t = SetTag(s, c, "umodes", v)
  BY DEF Put, SetTag, SetUser, SetField
<1>2. "umodes" \in Tags /\ "oflag" \in Tags /\ "conf" \in Tags
  BY DEF Tags
<1> HIDE DEF v
<1>3. Only({"users"}, s, t) /\ Spared(s, t, c) /\ AllBut({"umodes"}, s, t) /\ t.users[c]["umodes"] = v
  BY <1>1, <1>2, PutTag
<1>4. t.count = s.count /\ t.oper_list = s.oper_list /\ Touched(s, t, c)
  BY <1>3 DEF Only, Fields, Touched, AllBut
<1> QED BY <1>2, <1>3, <1>4 DEF v, AllBut, ModePut

\* Another mode than o put: the operators are the same.
LEMMA PutsOther ==
  ASSUME NEW s, Formed(s), Operators(s), NEW c \in User, NEW m, m # "o", NEW add \in BOOLEAN, NEW t, t = Put(s, c, m, add)
  PROVE  Operators(t)
<1>1. /\ Touched(s, t, c) /\ t.count = s.count /\ t.oper_list = s.oper_list
      /\ t.users[c].umodes = IF add THEN s.users[c].umodes \cup {m} ELSE s.users[c].umodes \ {m}
      /\ t.users[c].oflag = s.users[c].oflag /\ t.users[c].conf = s.users[c].conf
  <2>1. ModePut(s, t, c, m, add)
    BY Puts
  <2> QED BY <2>1 DEF ModePut
<1>2. /\ \A d \in User : Client(t, d) <=> Client(s, d)
      /\ t.users[c].local = s.users[c].local
  BY <1>1, TouchedClient DEF SameNames
<1>3. HasMode(t, c, "o") <=> HasMode(s, c, "o")
  BY <1>1, <1>2 DEF HasMode
<1>4. /\ s.oper_list = {d \in With(s, "o") : s.users[d].local} /\ s.count.oper = Cardinality(With(s, "o"))
      /\ s.users[c].local => Block(s.users[c], c \in s.oper_list)
  BY DEF Operators
<1>5. c \in s.oper_list <=> HasMode(s, c, "o") /\ s.users[c].local
  BY <1>4 DEF With, HasMode
<1>6. Cardinality(With(s, "o")) \in Nat /\ Spared(s, t, c)
  BY <1>1, WithOne DEF Touched
<1>7. t.count.oper = s.count.oper + Num(HasMode(t, c, "o")) - Num(HasMode(s, c, "o"))
  BY <1>1, <1>3, <1>4, <1>6 DEF Num
<1>8. t.oper_list = IF HasMode(t, c, "o") /\ t.users[c].local THEN s.oper_list \cup {c} ELSE s.oper_list \ {c}
  BY <1>1, <1>2, <1>3, <1>5
<1>9. t.users[c].local => Block(t.users[c], HasMode(t, c, "o"))
  BY <1>1, <1>2, <1>3, <1>4, <1>5 DEF Block
<1> QED BY <1>6, <1>7, <1>8, <1>9, OperatorsAt

\* An operator is one no longer: it leaves the list, and loses what only operators have.
Resigned(s, t, c) ==
  /\ Touched(s, t, c) /\ Operators(t) /\ t.count.invisi = s.count.invisi
  /\ s.users[c].umodes \ t.users[c].umodes \subseteq {"o"} \cup OperOnly
  /\ t.users[c].umodes \subseteq s.users[c].umodes

LEMMA Resigns ==
  ASSUME NEW s, Formed(s), Operators(s), NEW c \in User, HasMode(s, c, "o"), NEW t, t = Deopered(s, c)
  PROVE  Resigned(s, t, c)
<1> DEFINE u   == s.users[c]
           off == [u EXCEPT !.umodes = @ \ {"o"}]
           low == [off EXCEPT !.umodes = @ \ OperOnly, !.tags = @ \ {"oper"}, !.conf = FALSE, !.oflag = FALSE]
           r   == IF ~u.local THEN off ELSE low
           v   == [s.count EXCEPT !.oper = @ - 1]
           w   == IF u.local THEN s.oper_list \ {c} ELSE s.oper_list
<1>1. Full(Tags, u) /\ Full(User, s.users) /\ IsCount(s.count) /\ Full(Fields, s)
  BY DEF Formed, IsUsers
<1>2. t = [s EXCEPT !.users[c] = r, !.count.oper = @ - 1, !.oper_list = w]
  BY DEF Deopered
<1>3. Full(Tags, off) /\ off.umodes = u.umodes \ {"o"} /\ \A g \in Tags \ {"umodes"} : off[g] = u[g]
  BY <1>1 DEF Full, Tags
<1> HIDE DEF off
<1>4. /\ Full(Tags, low) /\ low.umodes = off.umodes \ OperOnly /\ low.conf = FALSE /\ low.oflag = FALSE
      /\ \A g \in Tags \ {"umodes", "oflag", "conf", "tags"} : low[g] = off[g]
  BY <1>3 DEF Full, Tags
<1> HIDE DEF low
<1>5. /\ Full(Tags, r) /\ \A g \in Tags \ {"umodes", "oflag", "conf", "tags"} : r[g] = u[g]
      /\ r.umodes = IF u.local THEN (u.umodes \ {"o"}) \ OperOnly ELSE u.umodes \ {"o"}
      /\ u.local => r.conf = FALSE /\ r.oflag = FALSE
  BY <1>3, <1>4
<1>6. IsCount(v) /\ v.oper = s.count.oper - 1 /\ v.invisi = s.count.invisi
  BY <1>1 DEF IsCount, Full
<1>7. /\ Full(Fields, t) /\ \A f \in Fields \ {"users", "count", "oper_list"} : t[f] = s[f]
      /\ t.users = [s.users EXCEPT ![c] = r] /\ t.count = v /\ t.oper_list = w
  <2> HIDE DEF r, w
  <2> QED BY <1>1, <1>2 DEF Full, Fields
<1> HIDE DEF r, v, w
<1>8. Full(User, t.users) /\ t.users[c] = r /\ Spared(s, t, c)
  BY <1>1, <1>7 DEF Full, Spared
<1>9. /\ Remade(s, t, c) /\ t.count.oper = s.count.oper - 1 /\ t.count.invisi = s.count.invisi
      /\ t.users[c].umodes = IF u.local THEN (u.umodes \ {"o"}) \ OperOnly ELSE u.umodes \ {"o"}
      /\ t.oper_list = IF u.local THEN s.oper_list \ {c} ELSE s.oper_list
      /\ u.local => t.users[c].conf = FALSE /\ t.users[c].oflag = FALSE
  BY <1>5, <1>6, <1>7, <1>8 DEF Remade, w
<1>10. Touched(s, t, c)
  BY <1>9, Remakes
<1>11. t.users[c].local = s.users[c].local /\ ~HasMode(t, c, "o")
  <2>1. t.users[c].local = s.users[c].local
    BY <1>10, TouchedClient DEF SameNames
  <2>2. "o" \notin t.users[c].umodes
    BY <1>9
  <2> QED BY <2>1, <2>2 DEF HasMode
<1>12. Operators(t)
  <2>1. s.count.oper = Cardinality(With(s, "o")) /\ (c \in s.oper_list => s.users[c].local)
    BY DEF Operators
  <2>2. Cardinality(With(s, "o")) \in Nat /\ Spared(s, t, c)
    BY <1>10, WithOne DEF Touched
  <2>3. t.count.oper = s.count.oper + Num(HasMode(t, c, "o")) - Num(HasMode(s, c, "o"))
    BY <1>9, <1>11, <2>1, <2>2 DEF Num
  <2>4. t.oper_list = IF HasMode(t, c, "o") /\ t.users[c].local THEN s.oper_list \cup {c} ELSE s.oper_list \ {c}
    BY <1>9, <1>11, <2>1
  <2>5. t.users[c].local => Block(t.users[c], HasMode(t, c, "o"))
    BY <1>9, <1>11 DEF Block
  <2> QED BY <2>2, <2>3, <2>4, <2>5, OperatorsAt
<1> QED BY <1>9, <1>12, <1>10 DEF Resigned

\* The count of invisible users is brought up to date.
Recounted(s, t, c, before) ==
  /\ Touched(s, t, c) /\ t.users = s.users /\ t.count.oper = s.count.oper /\ t.oper_list = s.oper_list
  /\ s.count.invisi \in Int => t.count.invisi = s.count.invisi + Num("i" \in s.users[c].umodes) - Num("i" \in before)

LEMMA Counts ==
  ASSUME NEW s, Formed(s), NEW c \in User, NEW before, NEW t, t = Counted(s, c, before)
  PROVE  Recounted(s, t, c, before)
<1> DEFINE now == s.users[c].umodes
           v == [s.count EXCEPT !.invisi = IF "i" \in now \ before THEN @ + 1
                                           ELSE IF "i" \in before \ now THEN @ - 1 ELSE @]
<1>1. t = SetField(s, "count", v)
  BY DEF Counted, SetField
<1>2. IsCount(s.count)
  BY DEF Formed
<1>3. IsCount(v) /\ v.oper = s.count.oper
  BY <1>2 DEF IsCount, Full
<1>4. s.count.invisi \in Int => v.invisi = s.count.invisi + Num("i" \in now) - Num("i" \in before)
  <2>1. v.invisi = IF "i" \in now \ before THEN s.count.invisi + 1
                   ELSE IF "i" \in before \ now THEN s.count.invisi - 1 ELSE s.count.invisi
    BY <1>2 DEF IsCount, Full
  <2> HIDE DEF v
  <2> QED BY <2>1 DEF Num
<1> HIDE DEF v
<1>5. Only({"count"}, s, t) /\ t.count = v
  BY <1>1, <1>3, SetCount
<1>6. t.users = s.users /\ t.oper_list = s.oper_list
  BY <1>5 DEF Only, Fields
<1> QED BY <1>3, <1>4, <1>5, <1>6 DEF Recounted, Touched, Only, AllBut, Spared

\* Counting changes nothing of the operators.
LEMMA CountsOperators ==
  ASSUME NEW s, Operators(s), NEW t, NEW c \in User, NEW before, Recounted(s, t, c, before)
  PROVE  Operators(t)
<1>1. t.users = s.users /\ t.count.oper = s.count.oper /\ t.oper_list = s.oper_list
  BY DEF Recounted
<1>2. With(t, "o") = With(s, "o")
  BY <1>1 DEF With, Client
<1> QED BY <1>1, <1>2 DEF Operators

\* One letter of MODE: the operators are right again, the invisible ones are yet to be counted.
Lettered(s, t, c) == Touched(s, t, c) /\ Operators(t) /\ t.count.invisi = s.count.invisi

LEMMA UserModeIs ==
  ASSUME NEW s, Formed(s), Operators(s), NEW c \in User, Client(s, c), NEW m, NEW add \in BOOLEAN,
         NEW t, t = UserMode(s, c, m, add)
  PROVE  Lettered(s, t, c)
<1> DEFINE u == s.users[c]
<1>0. Lettered(s, s, c)
  BY DEF Lettered, Touched, Only, AllBut, Spared
<1>1. CASE m = "o" /\ add
  <2>1. CASE u.local \/ "o" \in u.umodes
    <3>1. t = s
      BY <1>1, <2>1 DEF UserMode
    <3> QED BY <1>0, <3>1
  <2>2. CASE ~(u.local \/ "o" \in u.umodes)
    <3> DEFINE x == Put(s, c, "o", TRUE)
               v == [x.count EXCEPT !.oper = @ + 1]
    <3>1. t = SetField(x, "count", v)
      BY <1>1, <2>2 DEF UserMode, SetField
    <3>2. ModePut(s, x, c, "o", TRUE)
      <4> HIDE DEF x
      <4>1. x = Put(s, c, "o", TRUE)
        BY DEF x
      <4> QED BY <4>1, Puts
    <3> HIDE DEF x
    <3>3. /\ Touched(s, x, c) /\ Formed(x) /\ x.count = s.count /\ x.oper_list = s.oper_list
          /\ x.users[c].umodes = u.umodes \cup {"o"}
      BY <3>2 DEF ModePut, Touched, Only
    <3>4. IsCount(v) /\ v.oper = s.count.oper + 1 /\ v.invisi = s.count.invisi
      BY <3>3 DEF Formed, IsCount, Full
    <3> HIDE DEF v
    <3>5. Only({"count"}, x, t) /\ t.count = v
      BY <3>1, <3>3, <3>4, SetCount
    <3>6. t.users = x.users /\ t.oper_list = s.oper_list /\ Touched(s, t, c)
      BY <3>3, <3>5 DEF Only, Fields, Touched, AllBut, Spared
    <3>7. t.users[c].local = u.local /\ Client(t, c) /\ Spared(s, t, c)
      BY <3>6, TouchedClient DEF SameNames, Touched
    <3>8. HasMode(t, c, "o") /\ ~HasMode(s, c, "o") /\ ~t.users[c].local
      BY <2>2, <3>3, <3>6, <3>7 DEF HasMode
    <3>9. s.count.oper = Cardinality(With(s, "o")) /\ (c \in s.oper_list => u.local)
      BY DEF Operators
    <3>10. Cardinality(With(s, "o")) \in Nat
      BY <3>7, WithOne
    <3>11. t.count.oper = s.count.oper + Num(HasMode(t, c, "o")) - Num(HasMode(s, c, "o"))
      BY <3>4, <3>5, <3>8, <3>9, <3>10 DEF Num
    <3>12. t.oper_list = IF HasMode(t, c, "o") /\ t.users[c].local THEN s.oper_list \cup {c} ELSE s.oper_list \ {c}
      BY <2>2, <3>6, <3>8, <3>9
    <3>13. Operators(t)
      BY <3>7, <3>8, <3>11, <3>12, OperatorsAt
    <3> QED BY <3>4, <3>5, <3>6, <3>13 DEF Lettered
  <2> QED BY <2>1, <2>2
<1>2. CASE m = "o" /\ ~add
  <2>1. CASE "o" \in u.umodes
    <3>1. t = Deopered(s, c) /\ HasMode(s, c, "o")
      BY <1>2, <2>1 DEF UserMode, HasMode
    <3>2. Resigned(s, t, c)
      BY <3>1, Resigns
    <3> QED BY <3>2 DEF Resigned, Lettered
  <2>2. CASE "o" \notin u.umodes
    <3>1. t = s
      BY <1>2, <2>2 DEF UserMode
    <3> QED BY <1>0, <3>1
  <2> QED BY <2>1, <2>2
<1>3. CASE m # "o"
  <2>1. t = s \/ t = Put(s, c, m, add)
    BY <1>3 DEF UserMode
  <2>2. ASSUME t = Put(s, c, m, add) PROVE Lettered(s, t, c)
    <3>1. ModePut(s, t, c, m, add) /\ Operators(t)
      BY <1>3, <2>2, Puts, PutsOther
    <3> QED BY <3>1 DEF ModePut, Lettered
  <2> QED BY <1>0, <2>1, <2>2
<1> QED BY <1>1, <1>2, <1>3

\* One letter of SVSMODE.
LEMMA ServiceModeIs ==
  ASSUME NEW s, Good(s), NEW c \in User, Client(s, c), NEW m, NEW add \in BOOLEAN, NEW t, t = ServiceMode(s, c, m, add)
  PROVE  Good(t) /\ Touched(s, t, c)
<1> DEFINE u == s.users[c]
<1>0. Formed(s) /\ Operators(s) /\ Hidden(s) /\ Good(s) /\ Touched(s, s, c)
  BY DEF Good, Touched, Only, AllBut, Spared
<1>1. ASSUME Touched(s, t, c), Operators(t), Hidden(t) PROVE Good(t)
  BY <1>0, <1>1, ModesSide DEF Touched
<1>2. CASE m = "o"
  <2>1. CASE ~add /\ "o" \in u.umodes
    <3>1. t = Deopered(s, c) /\ HasMode(s, c, "o")
      BY <1>2, <2>1 DEF ServiceMode, HasMode
    <3>2. Resigned(s, t, c)
      BY <1>0, <3>1, Resigns
    <3>3. Touched(s, t, c) /\ Operators(t) /\ t.count.invisi = s.count.invisi /\ Spared(s, t, c)
      BY <3>2 DEF Resigned, Touched
    <3>4. Hidden(t)
      <4> SUFFICES ASSUME "i" \notin OperOnly PROVE t.count.invisi = Cardinality(With(t, "i"))
        BY DEF Hidden
      <4>1. "i" \in t.users[c].umodes <=> "i" \in u.umodes
        BY <3>2 DEF Resigned
      <4>2. Client(t, c) <=> Client(s, c)
        BY <3>3, TouchedClient
      <4>3. HasMode(t, c, "i") <=> HasMode(s, c, "i")
        BY <4>1, <4>2 DEF HasMode
      <4>4. /\ Cardinality(With(s, "i")) \in Nat
            /\ Cardinality(With(t, "i")) = Cardinality(With(s, "i")) + Num(HasMode(t, c, "i")) - Num(HasMode(s, c, "i"))
        BY <3>3, WithOne
      <4>5. s.count.invisi = Cardinality(With(s, "i"))
        BY <1>0 DEF Hidden
      <4> QED BY <3>3, <4>3, <4>4, <4>5 DEF Num
    <3> QED BY <1>1, <3>3, <3>4
  <2>2. CASE ~(~add /\ "o" \in u.umodes)
    <3>1. t = s
      BY <1>2, <2>2 DEF ServiceMode
    <3> QED BY <1>0, <3>1
  <2> QED BY <2>1, <2>2
<1>3. CASE m = "i"
  <2> DEFINE x == Put(s, c, "i", add)
  <2>1. t = Counted(x, c, u.umodes)
    BY <1>3 DEF ServiceMode
  <2>2. ModePut(s, x, c, "i", add) /\ Operators(x)
    <3> DEFINE n == "i"
    <3>0. "i" # "o"
      OBVIOUS
    <3>1. ASSUME NEW y, y = Put(s, c, "i", add) PROVE ModePut(s, y, c, "i", add) /\ Operators(y)
      BY <1>0, <3>0, <3>1, Puts, PutsOther
    <3> QED BY <3>1
  <2> HIDE DEF x
  <2>3. Touched(s, x, c) /\ x.count = s.count /\ Formed(x)
    BY <2>2 DEF ModePut, Touched, Only
  <2>4. Recounted(x, t, c, u.umodes)
    BY <2>1, <2>3, Counts
  <2>5. Operators(t)
    BY <2>2, <2>4, CountsOperators
  <2>6. Touched(s, t, c) /\ Spared(s, t, c) /\ t.users = x.users
    BY <2>3, <2>4, TouchedOn DEF Recounted, Touched
  <2>7. Hidden(t)
    <3> SUFFICES ASSUME "i" \notin OperOnly PROVE t.count.invisi = Cardinality(With(t, "i"))
      BY DEF Hidden
    <3>1. s.count.invisi = Cardinality(With(s, "i"))
      BY <1>0 DEF Hidden
    <3>2. /\ Cardinality(With(s, "i")) \in Nat
          /\ Cardinality(With(t, "i")) = Cardinality(With(s, "i")) + Num(HasMode(t, c, "i")) - Num(HasMode(s, c, "i"))
      BY <2>6, WithOne
    <3>3. x.count.invisi \in Int
      BY <2>3, <3>1, <3>2
    <3>4. t.count.invisi = x.count.invisi + Num("i" \in x.users[c].umodes) - Num("i" \in u.umodes)
      BY <2>4, <3>3 DEF Recounted
    <3>5. Client(t, c)
      BY <2>6, TouchedClient
    <3>6. HasMode(t, c, "i") <=> "i" \in x.users[c].umodes
      BY <2>6, <3>5 DEF HasMode
    <3>7. HasMode(s, c, "i") <=> "i" \in u.umodes
      BY DEF HasMode
    <3> QED BY <2>3, <3>1, <3>2, <3>4, <3>6, <3>7 DEF Num
  <2> QED BY <1>1, <2>5, <2>6, <2>7
<1>4. CASE m # "o" /\ m # "i"
  <2>1. t = Put(s, c, m, add)
    BY <1>4 DEF ServiceMode
  <2>2. ModePut(s, t, c, m, add) /\ Operators(t)
    BY <1>0, <1>4, <2>1, Puts, PutsOther
  <2>3. Touched(s, t, c) /\ Spared(s, t, c) /\ t.count = s.count
    BY <2>2 DEF ModePut, Touched
  <2>4. Hidden(t)
    <3> SUFFICES ASSUME "i" \notin OperOnly PROVE t.count.invisi = Cardinality(With(t, "i"))
      BY DEF Hidden
    <3>1. s.count.invisi = Cardinality(With(s, "i"))
      BY <1>0 DEF Hidden
    <3>2. /\ Cardinality(With(s, "i")) \in Nat
          /\ Cardinality(With(t, "i")) = Cardinality(With(s, "i")) + Num(HasMode(t, c, "i")) - Num(HasMode(s, c, "i"))
      BY <2>3, WithOne
    <3>3. Client(t, c) <=> Client(s, c)
      BY <2>3, TouchedClient
    <3>4. HasMode(t, c, "i") <=> HasMode(s, c, "i")
      BY <1>4, <2>2, <3>3 DEF HasMode, ModePut
    <3> QED BY <2>3, <3>1, <3>2, <3>4 DEF Num
  <2> QED BY <1>1, <2>2, <2>3, <2>4
<1> QED BY <1>2, <1>3, <1>4

-----------------------------------------------------------------------------
(* Several letters in a row. *)

Letters == [m : Umode, add : BOOLEAN]
Letter(t, c, x, service) == IF service THEN ServiceMode(t, c, x.m, x.add) ELSE UserMode(t, c, x.m, x.add)
More(s, c, l, service, g, T) ==
  IF T = {} THEN s ELSE Letter(g[T \ {Max(T)}], c, l[Max(T)], service)
Spelling(s, c, l, service, g) == g = [T \in SUBSET DOMAIN l |-> More(s, c, l, service, g, T)]

\* Spelled is the value at all places of a function that solves its recursion over the sets of places.
LEMMA SpelledFold ==
  ASSUME NEW s, NEW c, NEW l, NEW service
  PROVE  Spelled(s, c, l, service) = (CHOOSE g : Spelling(s, c, l, service, g))[DOMAIN l]
BY DEF Spelled, FoldLeft, MapThenFoldSet, Spelling, More, Letter

\* The last of some places.
LEMMA LastPlace ==
  ASSUME NEW l \in Seq(Letters)
  PROVE  /\ IsFiniteSet(DOMAIN l) /\ \A T \in SUBSET DOMAIN l : IsFiniteSet(T) /\ Cardinality(T) \in Nat
                                                                /\ Cardinality(T) <= Cardinality(DOMAIN l)
         /\ \A T \in SUBSET DOMAIN l : T # {} => /\ Max(T) \in T /\ T \ {Max(T)} \in SUBSET DOMAIN l
                                                 /\ Cardinality(T \ {Max(T)}) = Cardinality(T) - 1
                                                 /\ l[Max(T)] \in Letters
<1> DEFINE n == Len(l)
<1>1. n \in Nat /\ DOMAIN l = 1..n /\ \A i \in 1..n : l[i] \in Letters
  BY LenProperties, ElementOfSeq
<1> HIDE DEF n
<1>2. IsFiniteSet(1..n)
  BY <1>1, FS_Interval
<1>3. \A T \in SUBSET (1..n) : IsFiniteSet(T) /\ Cardinality(T) \in Nat /\ Cardinality(T) <= Cardinality(1..n)
  BY <1>2, FS_Subset, FS_CardinalityType
<1>4. ASSUME NEW T \in SUBSET (1..n), T # {}
      PROVE  /\ Max(T) \in T /\ T \ {Max(T)} \in SUBSET (1..n)
             /\ Cardinality(T \ {Max(T)}) = Cardinality(T) - 1
             /\ l[Max(T)] \in Letters
  <2>1. PICK x \in T : \A y \in T : y <= x
    BY <1>1, <1>4, Extremes
  <2>2. \A y \in T : x >= y
    BY <2>1
  <2>3. Max(T) \in T
    BY <2>2 DEF Max
  <2> QED BY <1>1, <1>3, <2>3, FS_RemoveElement
<1> QED BY <1>1, <1>2, <1>3, <1>4

\* There is such a function: on the sets of at most n places for each n, each from the one before.
Small(C, n) == {T \in SUBSET C : Cardinality(T) <= n}

LEMMA SpellingExists ==
  ASSUME NEW s, NEW c, NEW l \in Seq(Letters), NEW service
  PROVE  \E g : Spelling(s, c, l, service, g)
<1> DEFINE C == DOMAIN l
           Step(g, T) == More(s, c, l, service, g, T)
           Sol(n, g) == g = [T \in Small(C, n) |-> Step(g, T)]
           Bad == {n \in Nat : ~ \E g : Sol(n, g)}
<1>1. IsFiniteSet(C) /\ \A T \in SUBSET C : IsFiniteSet(T) /\ Cardinality(T) \in Nat /\ Cardinality(T) <= Cardinality(C)
  BY LastPlace
<1>2. \A T \in SUBSET C : T # {} => T \ {Max(T)} \in SUBSET C /\ Cardinality(T \ {Max(T)}) = Cardinality(T) - 1
  BY LastPlace
<1> HIDE DEF C
<1>3. Bad = {}
  <2> SUFFICES ASSUME Bad # {} PROVE FALSE
    OBVIOUS
  <2>1. PICK m \in Bad : \A n \in Bad : m <= n
    <3>1. Bad \subseteq Nat
      OBVIOUS
    <3> HIDE DEF Bad
    <3> QED BY <3>1, Least
  <2>2. m \in Nat /\ ~ \E g : Sol(m, g)
    OBVIOUS
  <2>3. CASE m = 0
    <3> DEFINE g == [T \in Small(C, 0) |-> s]
    <3>1. \A T \in Small(C, 0) : T = {}
      <4> TAKE T \in Small(C, 0)
      <4>1. IsFiniteSet(T) /\ Cardinality(T) = 0
        BY <1>1 DEF Small
      <4> QED BY <4>1, FS_EmptySet
    <3>2. Sol(0, g)
      BY <3>1 DEF More
    <3> QED BY <2>2, <2>3, <3>2
  <2>4. CASE m # 0
    <3>1. m - 1 \in Nat /\ m - 1 \notin Bad
      BY <2>1, <2>2, <2>4
    <3>2. PICK g : Sol(m - 1, g)
      BY <3>1
    <3> DEFINE h == [T \in Small(C, m) |-> Step(g, T)]
    <3>3. ASSUME NEW T \in Small(C, m - 1) PROVE h[T] = g[T]
      <4>1. T \in Small(C, m)
        BY <1>1, <2>2, <3>3 DEF Small
      <4>2. g[T] = Step(g, T)
        BY <3>2
      <4> QED BY <4>1, <4>2
    <3>4. ASSUME NEW T \in Small(C, m) PROVE Step(h, T) = Step(g, T)
      <4>1. ASSUME T # {} PROVE T \ {Max(T)} \in Small(C, m - 1)
        <5>1. T \in SUBSET C /\ Cardinality(T) <= m /\ Cardinality(T) \in Nat
          BY <1>1 DEF Small
        <5>2. T \ {Max(T)} \in SUBSET C /\ Cardinality(T \ {Max(T)}) = Cardinality(T) - 1
          BY <1>2, <4>1, <5>1
        <5>3. Cardinality(T) - 1 <= m - 1
          BY <2>2, <5>1
        <5> QED BY <5>2, <5>3 DEF Small
      <4>2. T # {} => h[T \ {Max(T)}] = g[T \ {Max(T)}]
        BY <3>3, <4>1
      <4> HIDE DEF h
      <4> QED BY <4>2 DEF More
    <3>5. Sol(m, h)
      BY <3>4
    <3> QED BY <2>2, <3>5
  <2> QED BY <2>3, <2>4
<1>4. PICK g : Sol(Cardinality(C), g)
  <2>1. Cardinality(C) \in Nat
    BY <1>1, FS_CardinalityType
  <2> QED BY <1>3, <2>1
<1>5. Small(C, Cardinality(C)) = SUBSET C
  BY <1>1 DEF Small
<1> QED BY <1>4, <1>5 DEF Spelling, C

\* What the letters so far leave.
Right(s, t, c, service) == IF service THEN Good(t) /\ Touched(s, t, c) ELSE Lettered(s, t, c)

\* Every letter leaves it so. (Of the sets of places for which it fails, take one of least size.)
LEMMA Spells ==
  ASSUME NEW s, NEW service \in BOOLEAN, NEW c \in User, Right(s, s, c, service), Client(s, c), NEW l \in Seq(Letters)
  PROVE  Right(s, Spelled(s, c, l, service), c, service)
<1> DEFINE C == DOMAIN l
           g == CHOOSE h : Spelling(s, c, l, service, h)
<1>1. Spelling(s, c, l, service, g)
  BY SpellingExists
<1>2. Spelled(s, c, l, service) = g[C]
  BY SpelledFold
<1> HIDE DEF g
<1>3. \A T \in SUBSET C : g[T] = More(s, c, l, service, g, T)
  BY <1>1 DEF Spelling
<1>4. \A T \in SUBSET C : IsFiniteSet(T) /\ Cardinality(T) \in Nat
  BY LastPlace
<1> DEFINE Ok(T) == Right(s, g[T], c, service)
           Bad == {Cardinality(T) : T \in {U \in SUBSET C : ~Ok(U)}}
<1>5. ASSUME Bad # {} PROVE FALSE
  <2>1. PICK m \in Bad : \A n \in Bad : m <= n
    <3>1. Bad \subseteq Nat
      BY <1>4
    <3> HIDE DEF Bad
    <3> QED BY <1>5, <3>1, Least
  <2>2. PICK T \in SUBSET C : ~Ok(T) /\ m = Cardinality(T)
    OBVIOUS
  <2>3. \A U \in SUBSET C : ~Ok(U) => Cardinality(T) <= Cardinality(U)
    BY <2>1, <2>2
  <2> HIDE DEF Bad
  <2>4. CASE T = {}
    <3>1. g[T] = s
      BY <1>3, <2>4 DEF More
    <3> QED BY <2>2, <3>1
  <2>5. CASE T # {}
    <3> DEFINE i == Max(T)
               U == T \ {i}
               x == l[i]
    <3>1. U \in SUBSET C /\ Cardinality(U) = Cardinality(T) - 1 /\ x \in Letters
      BY <2>5, LastPlace
    <3>2. g[T] = Letter(g[U], c, x, service)
      BY <1>3, <2>5 DEF More
    <3>3. Cardinality(T) \in Nat /\ Cardinality(U) \in Nat
      BY <1>4, <3>1
    <3> HIDE DEF i, U, x
    <3>4. Ok(U)
      <4> HIDE DEF Ok
      <4> QED BY <2>3, <3>1, <3>3
    <3> DEFINE u == g[U]
               t == Letter(u, c, x, service)
    <3>5. Right(s, u, c, service)
      BY <3>4
    <3>6. Right(s, t, c, service)
      <4> HIDE DEF u
      <4>1. x.m \in Umode /\ x.add \in BOOLEAN
        BY <3>1 DEF Letters
      <4>2. CASE service
        <5>1. t = ServiceMode(u, c, x.m, x.add)
          BY <4>2 DEF Letter
        <5>2. Good(u) /\ Touched(s, u, c)
          BY <3>5, <4>2 DEF Right
        <5>3. Client(u, c)
          BY <5>2, TouchedClient
        <5> HIDE DEF t
        <5>4. Good(t) /\ Touched(u, t, c)
          BY <4>1, <5>1, <5>2, <5>3, ServiceModeIs
        <5> QED BY <4>2, <5>2, <5>4, TouchedOn DEF Right
      <4>3. CASE ~service
        <5>1. t = UserMode(u, c, x.m, x.add)
          BY <4>3 DEF Letter
        <5>2. Lettered(s, u, c)
          BY <3>5, <4>3 DEF Right
        <5>3. Touched(s, u, c) /\ Operators(u) /\ Formed(u) /\ u.count.invisi = s.count.invisi
          BY <5>2 DEF Lettered, Touched, Only
        <5>4. Client(u, c)
          BY <5>3, TouchedClient
        <5> HIDE DEF t
        <5>5. Lettered(u, t, c)
          BY <4>1, <5>1, <5>3, <5>4, UserModeIs
        <5>6. Touched(s, t, c)
          BY <5>3, <5>5, TouchedOn DEF Lettered
        <5> QED BY <4>3, <5>3, <5>5, <5>6 DEF Right, Lettered
      <4> QED BY <4>2, <4>3
    <3> QED BY <2>2, <3>2, <3>6
  <2> QED BY <2>4, <2>5
<1>6. Ok(C)
  BY <1>5
<1> QED BY <1>2, <1>6

-----------------------------------------------------------------------------
(* MODE, SVSMODE and OPER. *)

\* The invisible ones are counted when the letters are through.
LEMMA CountedGood ==
  ASSUME NEW s, Good(s), NEW c \in User, Client(s, c), NEW t, Touched(s, t, c), Operators(t),
         t.count.invisi = s.count.invisi, NEW r, r = Counted(t, c, s.users[c].umodes)
  PROVE  Good(r) /\ Touched(s, r, c) /\ r.users = t.users
<1>1. Formed(t) /\ Hidden(s)
  BY DEF Touched, Only, Good
<1>2. Recounted(t, r, c, s.users[c].umodes)
  BY <1>1, Counts
<1>3. Operators(r)
  BY <1>2, CountsOperators
<1>4. Touched(s, r, c) /\ Spared(s, r, c) /\ r.users = t.users
  BY <1>2, TouchedOn DEF Recounted, Touched
<1>5. Hidden(r)
  <2> SUFFICES ASSUME "i" \notin OperOnly PROVE r.count.invisi = Cardinality(With(r, "i"))
    BY DEF Hidden
  <2>1. s.count.invisi = Cardinality(With(s, "i"))
    BY <1>1 DEF Hidden
  <2>2. /\ Cardinality(With(s, "i")) \in Nat
        /\ Cardinality(With(r, "i")) = Cardinality(With(s, "i")) + Num(HasMode(r, c, "i")) - Num(HasMode(s, c, "i"))
    BY <1>4, WithOne
  <2>3. t.count.invisi \in Int
    BY <2>1, <2>2
  <2>4. r.count.invisi = t.count.invisi + Num("i" \in t.users[c].umodes) - Num("i" \in s.users[c].umodes)
    BY <1>2, <2>3 DEF Recounted
  <2>5. Client(r, c)
    BY <1>4, TouchedClient
  <2>6. HasMode(r, c, "i") <=> "i" \in t.users[c].umodes
    BY <1>4, <2>5 DEF HasMode
  <2>7. HasMode(s, c, "i") <=> "i" \in s.users[c].umodes
    BY DEF HasMode
  <2> QED BY <2>1, <2>2, <2>4, <2>6, <2>7 DEF Num
<1>6. Good(r)
  BY <1>3, <1>4, <1>5, ModesSide DEF Touched
<1> QED BY <1>4, <1>6

\* MODE: who is admin without the flag for it is so no longer.
LEMMA ModeGood ==
  ASSUME NEW s, Good(s), NEW c \in User, Client(s, c), NEW l \in Seq(Letters), NEW done, done = Spelled(s, c, l, FALSE),
         NEW kept, kept = done \/ kept = Put(done, c, "a", FALSE),
         NEW t, t = Counted(kept, c, s.users[c].umodes)
  PROVE  Good(t)
<1>1. Lettered(s, done, c)
  <2>1. Right(s, s, c, FALSE)
    BY DEF Right, Lettered, Touched, Only, AllBut, Spared, Good
  <2>2. Right(s, done, c, FALSE)
    BY <2>1, Spells
  <2> QED BY <2>2 DEF Right
<1>2. Touched(s, done, c) /\ Operators(done) /\ Formed(done) /\ done.count.invisi = s.count.invisi
  BY <1>1 DEF Lettered, Touched, Only
<1>3. Touched(s, kept, c) /\ Operators(kept) /\ kept.count.invisi = s.count.invisi
  <2>1. CASE kept = done
    BY <1>2, <2>1
  <2>2. CASE kept = Put(done, c, "a", FALSE)
    <3>1. ModePut(done, kept, c, "a", FALSE)
      BY <1>2, <2>2, Puts
    <3>2. Operators(kept)
      BY <1>2, <2>2, PutsOther
    <3>3. Touched(done, kept, c) /\ kept.count = done.count
      BY <3>1 DEF ModePut
    <3> QED BY <1>2, <3>2, <3>3, TouchedOn
  <2> QED BY <2>1, <2>2
<1> QED BY <1>3, CountedGood

\* OPER: the block is attached and the operator listed.
LEMMA Opers ==
  ASSUME NEW s, Good(s), NEW c \in User, Mine(s, c), "o" \notin s.users[c].umodes, NEW admin,
         NEW t, t = Opered(s, c, admin)
  PROVE  Lettered(s, t, c)
<1> DEFINE u == s.users[c]
           r == [u EXCEPT !.conf = TRUE, !.oflag = admin, !.umodes = @ \cup {"o"} \cup OperModes]
           v == [s.count EXCEPT !.oper = @ + 1]
           w == s.oper_list \cup {c}
<1>1. /\ Full(Tags, u) /\ Full(User, s.users) /\ IsCount(s.count) /\ Full(Fields, s) /\ Operators(s) /\ Formed(s)
      /\ Client(s, c) /\ s.users[c].local
  BY DEF Good, Formed, IsUsers, Mine
<1>2. t = [s EXCEPT !.users[c] = r, !.count.oper = @ + 1, !.oper_list = w]
  BY DEF Opered
<1>3. /\ Full(Tags, r) /\ \A g \in Tags \ {"umodes", "oflag", "conf", "tags"} : r[g] = u[g]
      /\ r.conf = TRUE /\ "o" \in r.umodes
  BY <1>1 DEF Full, Tags
<1>4. IsCount(v) /\ v.oper = s.count.oper + 1 /\ v.invisi = s.count.invisi
  BY <1>1 DEF IsCount, Full
<1>5. /\ Full(Fields, t) /\ \A f \in Fields \ {"users", "count", "oper_list"} : t[f] = s[f]
      /\ t.users = [s.users EXCEPT ![c] = r] /\ t.count = v /\ t.oper_list = w
  <2> HIDE DEF r, w
  <2> QED BY <1>1, <1>2 DEF Full, Fields
<1> HIDE DEF r, v
<1>6. Full(User, t.users) /\ t.users[c] = r /\ Spared(s, t, c)
  BY <1>1, <1>5 DEF Full, Spared
<1>7. Remade(s, t, c)
  BY <1>3, <1>4, <1>5, <1>6 DEF Remade
<1>8. Touched(s, t, c)
  BY <1>1, <1>7, Remakes
<1>9. HasMode(t, c, "o") /\ ~HasMode(s, c, "o") /\ t.users[c].local
  <2>1. Client(t, c) /\ t.users[c].local = s.users[c].local
    BY <1>1, <1>8, TouchedClient DEF SameNames
  <2> QED BY <1>1, <1>3, <1>6, <2>1 DEF HasMode
<1>10. s.count.oper = Cardinality(With(s, "o")) /\ Cardinality(With(s, "o")) \in Nat
  BY <1>1, <1>6, WithOne DEF Operators
<1>11. t.count.oper = s.count.oper + Num(HasMode(t, c, "o")) - Num(HasMode(s, c, "o"))
  <2>1. Num(HasMode(t, c, "o")) = 1 /\ Num(HasMode(s, c, "o")) = 0 /\ t.count.oper = s.count.oper + 1
    BY <1>4, <1>5, <1>9 DEF Num
  <2> QED BY <1>10, <2>1
<1>12. t.oper_list = IF HasMode(t, c, "o") /\ t.users[c].local THEN s.oper_list \cup {c} ELSE s.oper_list \ {c}
  BY <1>5, <1>9
<1>13. t.users[c].local => Block(t.users[c], HasMode(t, c, "o"))
  BY <1>3, <1>6, <1>9 DEF Block
<1>14. Operators(t)
  BY <1>1, <1>6, <1>11, <1>12, <1>13, OperatorsAt
<1> QED BY <1>4, <1>5, <1>8, <1>14 DEF Lettered

\* The modes it gives are counted; admin, and a tag, are given after that.
LEMMA OperGood ==
  ASSUME NEW s, Good(s), NEW c \in User, Mine(s, c), "o" \notin s.users[c].umodes, NEW admin,
         NEW x, x = Opered(s, c, admin), NEW y, y = Counted(x, c, s.users[c].umodes),
         NEW z, z = y \/ z = Put(y, c, "a", TRUE),
         NEW t, t = z \/ t = SetTag(z, c, "tags", z.users[c].tags \cup {"oper"})
  PROVE  Good(t)
<1>1. Lettered(s, x, c) /\ Client(s, c)
  BY Opers DEF Mine
<1>2. Good(y) /\ Touched(s, y, c)
  BY <1>1, CountedGood DEF Lettered
<1>3. Good(z)
  <2>1. ASSUME z = Put(y, c, "a", TRUE) PROVE Good(z)
    <3>1. z = ServiceMode(y, c, "a", TRUE)
      BY <2>1 DEF ServiceMode
    <3>2. Client(y, c)
      BY <1>1, <1>2, TouchedClient
    <3> QED BY <1>2, <3>1, <3>2, ServiceModeIs
  <2> QED BY <1>2, <2>1
<1> QED BY <1>3, IdleTag

-----------------------------------------------------------------------------
(* Leaving. *)

\* Nothing is kept of a user on the other sides.
Emptied(s, c) == s.users[c].watches = {} /\ s.users[c].invited = <<>> /\ s.users[c].whowas_list = {}

\* A client, or none, takes a slot or leaves it.
Replaced(s, t, c) ==
  /\ Only({"users", "count", "oper_list", "told"}, s, t) /\ Spared(s, t, c) /\ Emptied(s, c) /\ Emptied(t, c)
  /\ \A d \in User : d # c => t.told[d] = s.told[d]

LEMMA Replaces ==
  ASSUME NEW s, NEW t, NEW c \in User, Replaced(s, t, c)
  PROVE  /\ \A names : Linked(s) /\ Known(s, names) => Linked(t) /\ Known(t, names)
         /\ Past(s) => Past(t)
         /\ Invited(s) => Invited(t)
<1>1. /\ t.watchTable = s.watchTable /\ t.whowas = s.whowas /\ t.cells = s.cells /\ t.history = s.history
      /\ t.chans = s.chans
  BY DEF Replaced, Only, Fields
<1>2. /\ \A d \in User : /\ t.users[d].watches = s.users[d].watches /\ t.users[d].invited = s.users[d].invited
                         /\ t.users[d].whowas_list = s.users[d].whowas_list
      /\ t.users[c].watches = {} /\ t.users[c].invited = <<>> /\ t.users[c].whowas_list = {}
  BY DEF Replaced, Emptied, Spared
<1>3. \A d \in User : d # c => /\ Mine(t, d) <=> Mine(s, d)
                               /\ Client(t, d) <=> Client(s, d)
                               /\ t.told[d] = s.told[d]
  BY DEF Replaced, Spared, Mine, Client
<1>4. ASSUME NEW names, Linked(s), Known(s, names) PROVE Linked(t) /\ Known(t, names)
  <2>1. Linked(t)
    <3> SUFFICES ASSUME NEW d \in User
                 PROVE  /\ t.users[d].watches \in SUBSET Nick /\ IsFiniteSet(t.users[d].watches)
                        /\ Cardinality(t.users[d].watches) <= MaxWatch
                        /\ \A m \in Nick : m \in t.users[d].watches <=> d \in t.watchTable[m]
                        /\ ~Mine(t, d) => t.users[d].watches = {}
      BY DEF Linked
    <3> QED BY <1>1, <1>2, <1>3, <1>4 DEF Linked
  <2>2. Known(t, names)
    BY <1>2, <1>3, <1>4 DEF Known
  <2> QED BY <2>1, <2>2
<1>5. ASSUME Past(s) PROVE Past(t)
  <2>1. ASSUME NEW d \in User
        PROVE  t.users[d].whowas_list \subseteq Cell /\ (~Client(t, d) => t.users[d].whowas_list = {})
    BY <1>2, <1>3, <1>5 DEF Past, Trail
  <2> QED BY <1>1, <1>2, <1>5, <2>1 DEF Past, Trail
<1>6. ASSUME Invited(s) PROVE Invited(t)
  <2>1. SameInvites(s, t)
    BY <1>1, <1>2 DEF SameInvites
  <2>2. Lists(t)
    BY <1>6, <2>1 DEF SameInvites, Invited, Lists
  <2>3. Few(t)
    BY <1>2, <1>3, <1>6 DEF Invited, Few
  <2>4. Paired(t)
    <3>1. \A d \in User, ch \in Channel : OfClient(t, d, ch) = OfClient(s, d, ch) /\ OfChannel(t, d, ch) = OfChannel(s, d, ch)
      BY <2>1 DEF SameInvites, OfClient, OfChannel
    <3> QED BY <1>6, <3>1 DEF Invited, Paired
  <2> QED BY <2>2, <2>3, <2>4 DEF Invited
<1> QED BY <1>4, <1>5, <1>6

\* The watches of a user who leaves go, and it is counted and listed for its modes no more.
Uncounted(s, t, c) ==
  /\ Only({"oper_list", "watchTable", "users", "count"}, s, t) /\ AllBut({"watches"}, s, t)
  /\ t.users[c].watches = {} /\ Linked(t) /\ Known(t, Used(s))
  /\ t.oper_list = IF s.users[c].local THEN s.oper_list \ {c} ELSE s.oper_list
  /\ t.count.oper = IF "o" \in s.users[c].umodes THEN s.count.oper - 1 ELSE s.count.oper
  /\ t.count.invisi = IF "i" \in s.users[c].umodes THEN s.count.invisi - 1 ELSE s.count.invisi

LEMMA Uncounts ==
  ASSUME NEW s, Good(s), NEW c \in User, Client(s, c), NEW u, u.local = s.users[c].local, u.umodes = s.users[c].umodes,
         NEW mine, mine = IF u.local THEN SetField(s, "oper_list", s.oper_list \ {c}) ELSE s,
         NEW off, off = IF u.local THEN watch_del_watch_list(mine, c) ELSE mine,
         NEW t, t = [off EXCEPT !.count.oper = IF "o" \in u.umodes THEN @ - 1 ELSE @,
                                !.count.invisi = IF "i" \in u.umodes THEN @ - 1 ELSE @]
  PROVE  Uncounted(s, t, c)
<1>1. Formed(s) /\ Linked(s) /\ Known(s, Used(s))
  BY DEF Good
<1>2. /\ Only({"oper_list"}, s, mine)
      /\ mine.oper_list = IF s.users[c].local THEN s.oper_list \ {c} ELSE s.oper_list
  <2>1. ASSUME u.local PROVE Only({"oper_list"}, s, mine) /\ mine.oper_list = s.oper_list \ {c}
    BY <1>1, <2>1, SetOperList
  <2>2. ASSUME ~u.local PROVE Only({"oper_list"}, s, mine) /\ mine.oper_list = s.oper_list
    BY <1>1, <2>2 DEF Only
  <2> QED BY <2>1, <2>2
<1>3. /\ Formed(mine) /\ mine.users = s.users /\ mine.watchTable = s.watchTable /\ mine.told = s.told
  BY <1>2 DEF Only, Fields
<1>4. Linked(mine) /\ Known(mine, Used(s))
  <2>1. Linked(mine)
    BY <1>1, <1>3 DEF Linked, Mine, Client
  <2> QED BY <1>1, <1>3, <2>1 DEF Known
<1>5. /\ Only({"watchTable", "users"}, mine, off) /\ AllBut({"watches"}, mine, off) /\ Linked(off) /\ Known(off, Used(s))
      /\ off.users[c].watches = {}
  <2>1. ASSUME u.local PROVE Unwatched(mine, off, c, mine.users[c].watches)
    BY <1>3, <2>1, DeletesAll
  <2>2. CASE u.local
    <3>1. Linked(off) /\ Known(off, Used(s))
      BY <1>4, <2>1, <2>2, Fewers
    <3>2. off.users[c].watches = {}
      BY <2>1, <2>2 DEF Unwatched
    <3> QED BY <2>1, <2>2, <3>1, <3>2 DEF Unwatched
  <2>3. CASE ~u.local
    <3>1. off = mine /\ ~Mine(s, c)
      BY <2>3 DEF Mine
    <3> QED BY <1>1, <1>3, <1>4, <3>1 DEF Only, AllBut, Linked
  <2> QED BY <2>2, <2>3
<1> DEFINE v == [off.count EXCEPT !.oper = IF "o" \in u.umodes THEN @ - 1 ELSE @,
                                  !.invisi = IF "i" \in u.umodes THEN @ - 1 ELSE @]
<1>6. Formed(off) /\ off.count = s.count /\ IsCount(off.count) /\ Full(Fields, off)
  BY <1>2, <1>5 DEF Only, Fields, Formed
<1>7. t = SetField(off, "count", v)
  BY <1>6 DEF SetField, Full, IsCount, Fields
<1>8. /\ IsCount(v) /\ v.oper = IF "o" \in u.umodes THEN s.count.oper - 1 ELSE s.count.oper
      /\ v.invisi = IF "i" \in u.umodes THEN s.count.invisi - 1 ELSE s.count.invisi
  BY <1>6 DEF IsCount, Full
<1> HIDE DEF v
<1>9. Only({"count"}, off, t) /\ t.count = v
  <2>1. ASSUME NEW x, x = SetField(off, "count", v) PROVE Only({"count"}, off, x) /\ x.count = v
    BY <1>6, <1>8, <2>1, SetCount
  <2> QED BY <1>7, <2>1
<1>10. /\ t.users = off.users /\ t.watchTable = off.watchTable /\ t.told = off.told /\ t.oper_list = mine.oper_list
       /\ Only({"oper_list", "watchTable", "users", "count"}, s, t)
  <2>1. t.users = off.users /\ t.watchTable = off.watchTable /\ t.told = off.told /\ t.oper_list = off.oper_list
    BY <1>9 DEF Only, Fields
  <2>2. off.oper_list = mine.oper_list
    BY <1>5 DEF Only, Fields
  <2>3. Only({"oper_list", "watchTable", "users", "count"}, s, t)
    BY <1>2, <1>5, <1>9 DEF Only
  <2> QED BY <2>1, <2>2, <2>3
<1>11. Linked(t) /\ Known(t, Used(s))
  <2>1. Linked(t)
    BY <1>5, <1>10 DEF Linked, Mine, Client
  <2> QED BY <1>5, <1>10, <2>1 DEF Known
<1>12. AllBut({"watches"}, s, t)
  <2> DEFINE W == {"watches"}
  <2>1. AllBut(W, s, mine) /\ AllBut(W, off, t)
    BY <1>3, <1>10, AllButNone
  <2>2. AllBut(W, mine, off) /\ W \cup W = W
    BY <1>5
  <2> HIDE DEF W
  <2>3. AllBut(W \cup W, s, off)
    BY <2>1, <2>2, AllButThen
  <2>4. ASSUME NEW x, AllBut(W, off, x) PROVE AllBut(W, s, x)
    <3>1. AllBut(W \cup W, s, x)
      <4>1. AllBut(W, s, off)
        BY <2>2, <2>3
      <4> QED BY <4>1, <2>4, AllButThen
    <3> QED BY <2>2, <3>1
  <2> QED BY <2>1, <2>4 DEF W
<1> QED BY <1>2, <1>5, <1>8, <1>9, <1>10, <1>11, <1>12 DEF Uncounted

\* It goes into the history, none of it as one who is on, and the watchers of its name are told.
Erased(s, t, c, names) ==
  /\ Only({"users", "whowas", "cells", "told"}, s, t) /\ AllBut({"whowas_list"}, s, t)
  /\ t.users[c].whowas_list = {} /\ Past(t) /\ Linked(t) /\ Known(t, names \ {s.users[c].name})

LEMMA Erases ==
  ASSUME NEW s, Formed(s), Past(s), Linked(s), NEW names, Known(s, names), NEW c \in User, Client(s, c),
         s.users[c].name \in Nick,
         NEW h, h = whowas_add_history(s, c, FALSE), NEW p, p = whowas_off_history(h, c),
         NEW t, t = watch_check_hash(p, c, FALSE)
  PROVE  Erased(s, t, c, names)
<1>1. Only({"users", "whowas", "cells"}, s, h) /\ AllBut({"whowas_list"}, s, h) /\ Past(h) /\ Formed(h)
  BY Remembers DEF Only
<1>2. Forgot(h, p, c)
  BY <1>1, Forgets
<1>3. /\ Only({"users", "whowas", "cells"}, s, p) /\ AllBut({"whowas_list"}, s, p) /\ Formed(p) /\ Past(p)
      /\ p.users[c].whowas_list = {}
  <2>1. Only({"users", "cells"}, h, p) /\ AllBut({"whowas_list"}, h, p) /\ p.users[c].whowas_list = {} /\ Past(p)
    BY <1>2 DEF Forgot
  <2>2. Only({"users", "whowas", "cells"} \cup {"users", "cells"}, s, p) /\ AllBut({"whowas_list"} \cup {"whowas_list"}, s, p)
    BY <1>1, <2>1, OnlyThen, AllButThen
  <2>3. {"users", "whowas", "cells"} \cup {"users", "cells"} = {"users", "whowas", "cells"}
    OBVIOUS
  <2>4. {"whowas_list"} \cup {"whowas_list"} = {"whowas_list"}
    OBVIOUS
  <2>5. Formed(p)
    BY <2>1 DEF Only
  <2> QED BY <2>1, <2>2, <2>3, <2>4, <2>5
<1>4. SameNames(s, p) /\ SameWatches(s, p) /\ p.told = s.told
  <2>1. /\ {"whowas_list"} \cap {"is", "local", "name"} = {} /\ "watches" \notin {"whowas_list"}
        /\ "told" \notin {"users", "whowas", "cells"} /\ "watchTable" \notin {"users", "whowas", "cells"}
    OBVIOUS
  <2>2. SameNames(s, p)
    BY <1>3, <2>1, SameFields
  <2>3. SameWatches(s, p)
    BY <1>3, <2>1, SameFields
  <2>4. p.told = s.told
    BY <1>3, <2>1, SameFields
  <2> QED BY <2>2, <2>3, <2>4
<1>5. Linked(p) /\ Known(p, names) /\ p.users[c].name = s.users[c].name
  BY <1>4, WatchesFrame DEF SameNames
<1>6. Only({"told"}, p, t) /\ Known(t, Said(names, s.users[c].name, FALSE))
  BY <1>3, <1>5, Tells
<1>7. t.users = p.users /\ t.whowas = p.whowas /\ t.cells = p.cells /\ t.history = p.history /\ t.watchTable = p.watchTable
  BY <1>6 DEF Only, Fields
<1>8. Past(t) /\ Linked(t)
  <2>1. SameNames(p, t) /\ SamePast(p, t) /\ SameWatches(p, t)
    BY <1>7 DEF SameNames, SamePast, SameWatches
  <2> QED BY <1>3, <1>5, <2>1, PastFrame, WatchesFrame
<1>9. Only({"users", "whowas", "cells", "told"}, s, t) /\ AllBut({"whowas_list"}, s, t)
  <2>1. Only({"users", "whowas", "cells"} \cup {"told"}, s, t)
    BY <1>3, <1>6, OnlyThen
  <2>2. {"users", "whowas", "cells"} \cup {"told"} = {"users", "whowas", "cells", "told"}
    OBVIOUS
  <2>3. AllBut({"whowas_list"}, s, t)
    <3> DEFINE G == {"whowas_list"}
    <3>1. AllBut(G, s, p) /\ t.users = p.users
      BY <1>3, <1>7
    <3> HIDE DEF G
    <3>2. AllBut(G, s, t)
      BY <3>1 DEF AllBut
    <3> QED BY <3>2 DEF G
  <2> QED BY <2>1, <2>2, <2>3
<1> QED BY <1>3, <1>6, <1>7, <1>8, <1>9 DEF Erased, Said

\* The slot is freed.
Vacant(s, t, c) ==
  /\ Only({"users", "told"}, s, t) /\ Spared(s, t, c) /\ t.users[c] = NoUser
  /\ \A d \in User : d # c => t.told[d] = s.told[d]

LEMMA Vacates ==
  ASSUME NEW s, Formed(s), NEW c \in User, NEW t, t = [s EXCEPT !.users[c] = NoUser, !.told[c] = {}]
  PROVE  Vacant(s, t, c)
<1> DEFINE u == SetUser(s, c, NoUser)
           v == [s.told EXCEPT ![c] = {}]
<1>1. t = SetField(u, "told", v)
  BY DEF SetUser, SetField, Formed, Full, Fields
<1>2. Full(User, v) /\ \A d \in User : d # c => v[d] = s.told[d]
  BY DEF Formed, Full
<1>3. Full(Tags, NoUser)
  BY DEF Full, Tags, NoUser
<1>4. u = SetUser(s, c, NoUser)
  OBVIOUS
<1> HIDE DEF u, v
<1>5. Only({"users"}, s, u) /\ Spared(s, u, c) /\ u.users[c] = NoUser /\ Formed(u)
  BY <1>3, <1>4, PutUser DEF Only
<1>6. Only({"told"}, u, t) /\ t.told = v
  <2>1. ASSUME NEW x, x = SetField(u, "told", v) PROVE Only({"told"}, u, x) /\ x.told = v
    BY <1>2, <1>5, <2>1, SetTold
  <2> QED BY <1>1, <2>1
<1>7. t.users = u.users /\ Only({"users", "told"}, s, t)
  <2>1. t.users = u.users
    BY <1>6 DEF Only, Fields
  <2> QED BY <1>5, <1>6, <2>1 DEF Only
<1> QED BY <1>2, <1>5, <1>6, <1>7 DEF Vacant, Spared

\* Operators, invisible users and names without c: x has all the users of s as they are known by
\* their names and modes, t has all but c.
Alike(s, x) == SameNames(s, x) /\ \A d \in User : \A g \in {"umodes", "oflag", "conf"} : x.users[d][g] = s.users[d][g]

LEMMA Lacks ==
  ASSUME NEW s, Operators(s), Hidden(s), OneName(s), NEW c \in User, NEW x, Alike(s, x),
         NEW t, Spared(x, t, c), t.users[c] = NoUser, t.oper_list = s.oper_list \ {c},
         t.count.oper = s.count.oper - Num(HasMode(s, c, "o")),
         "i" \notin OperOnly => t.count.invisi = s.count.invisi - Num(HasMode(s, c, "i"))
  PROVE  /\ Operators(t) /\ Hidden(t) /\ OneName(t)
         /\ Used(t) = IF Client(s, c) THEN Used(s) \ {s.users[c].name} ELSE Used(s)
<1> DEFINE y == [users |-> x.users, count |-> s.count, oper_list |-> s.oper_list]
<1>1. y.users = x.users /\ y.count = s.count /\ y.oper_list = s.oper_list
  OBVIOUS
<1> HIDE DEF y
<1>2. SameNames(s, y) /\ SameModes(s, y)
  BY <1>1 DEF Alike, SameNames, SameModes
<1>3. Operators(y) /\ Hidden(y) /\ OneName(y) /\ Used(y) = Used(s)
  BY <1>2, ModesFrame, NamesFrame
<1>4. Spared(y, t, c)
  BY <1>1 DEF Spared
<1>5. ~HasMode(t, c, "o") /\ ~HasMode(t, c, "i") /\ ~t.users[c].local /\ t.users[c].is = "none"
  <2>1. NoUser.is = "none" /\ ~NoUser.local
    BY DEF NoUser
  <2>2. t.users[c].is = "none" /\ ~t.users[c].local
    BY <2>1
  <2> QED BY <2>2 DEF HasMode, Client
<1>6. /\ HasMode(y, c, "o") <=> HasMode(s, c, "o")
      /\ HasMode(y, c, "i") <=> HasMode(s, c, "i")
  BY <1>2 DEF HasMode, Client, SameNames, SameModes
<1>7. Operators(t)
  <2>1. Cardinality(With(s, "o")) \in Nat /\ s.count.oper = Cardinality(With(s, "o"))
    BY SlotsAssumption, FS_Subset, FS_CardinalityType DEF With, Operators
  <2>2. t.count.oper = y.count.oper + Num(HasMode(t, c, "o")) - Num(HasMode(y, c, "o"))
    BY <1>1, <1>5, <1>6, <2>1 DEF Num
  <2>3. t.oper_list = IF HasMode(t, c, "o") /\ t.users[c].local THEN y.oper_list \cup {c} ELSE y.oper_list \ {c}
    BY <1>1, <1>5
  <2> QED BY <1>3, <1>4, <1>5, <2>2, <2>3, OperatorsAt
<1>8. Hidden(t)
  <2>1. "i" \notin OperOnly => s.count.invisi = Cardinality(With(s, "i")) /\ Cardinality(With(s, "i")) \in Nat
    BY SlotsAssumption, FS_Subset, FS_CardinalityType DEF With, Hidden
  <2>2. "i" \notin OperOnly => t.count.invisi = y.count.invisi + Num(HasMode(t, c, "i")) - Num(HasMode(y, c, "i"))
    BY <1>1, <1>5, <1>6, <2>1 DEF Num
  <2> QED BY <1>3, <1>4, <2>2, HiddenAt
<1>9. OneName(t)
  BY <1>3, <1>4, <1>5 DEF OneName, Spared
<1>10. Used(t) = IF Client(s, c) THEN Used(s) \ {s.users[c].name} ELSE Used(s)
  <2>1. \A d \in User : d # c => t.users[d] = y.users[d]
    BY <1>4 DEF Spared
  <2>2. y.users[c].name = s.users[c].name /\ (Client(y, c) <=> Client(s, c))
    BY <1>2 DEF SameNames, Client
  <2>3. \A d \in User : Client(t, d) <=> d # c /\ Client(y, d)
    BY <1>5, <2>1 DEF Client
  <2>4. Used(t) = {n \in Nick : \E d \in User : d # c /\ Client(y, d) /\ y.users[d].name = n}
    BY <2>1, <2>3 DEF Used
  <2>5. \A d \in User : d # c /\ Client(y, d) /\ Client(y, c) => y.users[d].name # y.users[c].name
    BY <1>3 DEF OneName, Client
  <2> QED BY <1>3, <2>2, <2>4, <2>5 DEF Used
<1> QED BY <1>7, <1>8, <1>9, <1>10

\* The slot of one who left is free, and the names of the others are what they were.
Left(s, t, c) ==
  /\ Good(t) /\ t.users[c].is = "none"
  /\ \A d \in User : d # c => \A g \in {"is", "local", "name"} : t.users[d][g] = s.users[d][g]

\* What the calls before that leave of a user: the other side of nothing, and the counts without it.
Parted(s, x, c) ==
  /\ Formed(x) /\ Alike(s, x) /\ Emptied(x, c) /\ Past(x) /\ Invited(x) /\ Linked(x)
  /\ Known(x, IF Client(s, c) THEN Used(s) \ {s.users[c].name} ELSE Used(s))
  /\ x.oper_list = s.oper_list \ {c}
  /\ x.count.oper = s.count.oper - Num(HasMode(s, c, "o"))
  /\ "i" \notin OperOnly => x.count.invisi = s.count.invisi - Num(HasMode(s, c, "i"))

LEMMA Leaves ==
  ASSUME NEW s, Good(s), NEW c \in User, NEW x, Parted(s, x, c), NEW t, Vacant(x, t, c)
  PROVE  Left(s, t, c)
<1>1. /\ Formed(x) /\ Alike(s, x) /\ Emptied(x, c) /\ Past(x) /\ Invited(x) /\ Linked(x)
      /\ Known(x, IF Client(s, c) THEN Used(s) \ {s.users[c].name} ELSE Used(s))
      /\ x.oper_list = s.oper_list \ {c}
      /\ x.count.oper = s.count.oper - Num(HasMode(s, c, "o"))
      /\ "i" \notin OperOnly => x.count.invisi = s.count.invisi - Num(HasMode(s, c, "i"))
  BY DEF Parted
<1>2. /\ Only({"users", "told"}, x, t) /\ Spared(x, t, c) /\ t.users[c] = NoUser
      /\ \A d \in User : d # c => t.told[d] = x.told[d]
  BY DEF Vacant
<1>3. Operators(s) /\ Hidden(s) /\ OneName(s)
  BY DEF Good
<1>4. t.oper_list = x.oper_list /\ t.count = x.count /\ Formed(t)
  BY <1>2 DEF Only, Fields
<1>5. /\ Operators(t) /\ Hidden(t) /\ OneName(t)
      /\ Used(t) = IF Client(s, c) THEN Used(s) \ {s.users[c].name} ELSE Used(s)
  BY <1>1, <1>2, <1>3, <1>4, Lacks
<1>6. Emptied(t, c) /\ t.users[c].is = "none"
  <2>1. NoUser.watches = {} /\ NoUser.invited = <<>> /\ NoUser.whowas_list = {} /\ NoUser.is = "none"
    BY DEF NoUser
  <2> QED BY <1>2, <2>1 DEF Emptied
<1>7. Replaced(x, t, c)
  <2>1. Only({"users", "count", "oper_list", "told"}, x, t)
    BY <1>2 DEF Only
  <2> QED BY <1>1, <1>2, <1>6, <2>1 DEF Replaced
<1>8. Linked(t) /\ Known(t, Used(t)) /\ Past(t) /\ Invited(t)
  BY <1>1, <1>5, <1>7, Replaces
<1>9. \A d \in User : d # c => \A g \in {"is", "local", "name"} : t.users[d][g] = s.users[d][g]
  BY <1>1, <1>2 DEF Alike, SameNames, Spared
<1> QED BY <1>4, <1>5, <1>6, <1>8, <1>9 DEF Left, Good

\* Of one who is no client nothing is kept, and of one who came from another server neither
\* watches nor invitations.
LEMMA NotMine ==
  ASSUME NEW s, Good(s), NEW c \in User
  PROVE  /\ ~Mine(s, c) => s.users[c].watches = {} /\ s.users[c].invited = <<>>
         /\ ~Client(s, c) => Emptied(s, c)
         /\ c \in s.oper_list => Client(s, c) /\ s.users[c].local
         /\ s.count.oper \in Int /\ ("i" \notin OperOnly => s.count.invisi \in Int)
<1>1. Linked(s) /\ Invited(s) /\ Past(s) /\ Operators(s) /\ Hidden(s)
  BY DEF Good
<1>2. ~Mine(s, c) => s.users[c].watches = {} /\ s.users[c].invited = <<>>
  BY <1>1 DEF Linked, Invited, Few
<1>3. ~Client(s, c) => s.users[c].whowas_list = {}
  BY <1>1 DEF Past, Trail
<1>4. c \in s.oper_list => Client(s, c) /\ s.users[c].local
  BY <1>1 DEF Operators, With
<1>5. \A m : Cardinality(With(s, m)) \in Nat
  BY SlotsAssumption, FS_Subset, FS_CardinalityType DEF With
<1> QED BY <1>1, <1>2, <1>3, <1>4, <1>5 DEF Emptied, Mine, Operators, Hidden

LEMMA NoClientParts ==
  ASSUME NEW s, Good(s), NEW c \in User, ~Client(s, c)
  PROVE  Parted(s, s, c)
<1>1. Emptied(s, c) /\ c \notin s.oper_list /\ s.count.oper \in Int /\ ("i" \notin OperOnly => s.count.invisi \in Int)
  BY NotMine
<1>2. ~HasMode(s, c, "o") /\ ~HasMode(s, c, "i")
  BY DEF HasMode
<1>3. Formed(s) /\ Past(s) /\ Invited(s) /\ Linked(s) /\ Known(s, Used(s))
  BY DEF Good
<1>4. Alike(s, s)
  BY DEF Alike, SameNames
<1>5. s.oper_list = s.oper_list \ {c}
  BY <1>1
<1>6. /\ s.count.oper = s.count.oper - Num(HasMode(s, c, "o"))
      /\ "i" \notin OperOnly => s.count.invisi = s.count.invisi - Num(HasMode(s, c, "i"))
  BY <1>1, <1>2 DEF Num
<1> QED BY <1>1, <1>3, <1>4, <1>5, <1>6 DEF Parted

\* A client's exit up to the freeing of the slot, once it has no invitations.
LEMMA ClientParts ==
  ASSUME NEW s, Good(s), NEW c \in User, Client(s, c), s.users[c].invited = <<>>,
         NEW e, Uncounted(s, e, c), NEW x, \A names : Known(e, names) => Erased(e, x, c, names)
  PROVE  Parted(s, x, c)
<1>1. /\ Only({"oper_list", "watchTable", "users", "count"}, s, e) /\ AllBut({"watches"}, s, e)
      /\ e.users[c].watches = {} /\ Known(e, Used(s))
      /\ e.oper_list = IF s.users[c].local THEN s.oper_list \ {c} ELSE s.oper_list
      /\ e.count.oper = IF "o" \in s.users[c].umodes THEN s.count.oper - 1 ELSE s.count.oper
      /\ e.count.invisi = IF "i" \in s.users[c].umodes THEN s.count.invisi - 1 ELSE s.count.invisi
  BY DEF Uncounted
<1>2. Erased(e, x, c, Used(s))
  BY <1>1
<1>3. /\ Only({"users", "whowas", "cells", "told"}, e, x) /\ AllBut({"whowas_list"}, e, x)
      /\ x.users[c].whowas_list = {} /\ Past(x) /\ Linked(x) /\ Known(x, Used(s) \ {e.users[c].name})
  BY <1>2 DEF Erased
<1>4. \A d \in User : \A g \in Tags : g \notin {"watches", "whowas_list"} => x.users[d][g] = s.users[d][g]
  BY <1>1, <1>3 DEF AllBut
<1>5. Alike(s, x) /\ x.users[c].invited = <<>> /\ e.users[c].name = s.users[c].name
  BY <1>1, <1>4 DEF Alike, SameNames, Tags, AllBut
<1>6. x.users[c].watches = {}
  BY <1>1, <1>3 DEF AllBut, Tags
<1>7. Formed(x) /\ x.oper_list = e.oper_list /\ x.count = e.count /\ x.chans = s.chans
  BY <1>1, <1>3 DEF Only, Fields
<1>8. Invited(x)
  <2>1. SameInvites(s, x) /\ SameNames(s, x)
    BY <1>4, <1>5, <1>7 DEF SameInvites, Tags, Alike
  <2> QED BY <2>1, InvitesFrame DEF Good
<1>9. Emptied(x, c)
  BY <1>3, <1>5, <1>6 DEF Emptied
<1>10. x.oper_list = s.oper_list \ {c}
  <2>1. c \in s.oper_list => s.users[c].local
    BY NotMine
  <2> QED BY <1>1, <1>7, <2>1
<1>11. /\ x.count.oper = s.count.oper - Num(HasMode(s, c, "o"))
       /\ "i" \notin OperOnly => x.count.invisi = s.count.invisi - Num(HasMode(s, c, "i"))
  <2>1. s.count.oper \in Int /\ ("i" \notin OperOnly => s.count.invisi \in Int)
    BY NotMine
  <2>2. /\ HasMode(s, c, "o") <=> "o" \in s.users[c].umodes
        /\ HasMode(s, c, "i") <=> "i" \in s.users[c].umodes
    BY DEF HasMode
  <2> QED BY <1>1, <1>7, <2>1, <2>2 DEF Num
<1> QED BY <1>3, <1>5, <1>7, <1>8, <1>9, <1>10, <1>11 DEF Parted

\* exit_client, of a user of this server or another, or of a connection that never registered.
LEMMA Exits ==
  ASSUME NEW s, Good(s), NEW c \in User, s.users[c].is # "none", NEW t, t = exit_client(s, c)
  PROVE  Left(s, t, c)
<1> DEFINE u == s.users[c]
           a == IF u.local THEN invite_clear_user(s, c) ELSE s
           mine == IF ~u.local THEN s ELSE [invite_clear_user(s, c) EXCEPT !.oper_list = @ \ {c}]
           off  == IF u.local THEN watch_del_watch_list(mine, c) ELSE mine
           e == [off EXCEPT !.count.oper = IF "o" \in u.umodes THEN @ - 1 ELSE @,
                            !.count.invisi = IF "i" \in u.umodes THEN @ - 1 ELSE @]
           h == whowas_add_history(e, c, FALSE)
           p == whowas_off_history(h, c)
           x == IF u.is # "client" THEN s ELSE watch_check_hash(p, c, FALSE)
<1>1. t = [x EXCEPT !.users[c] = NoUser, !.told[c] = {}]
  BY DEF exit_client
<1>2. Parted(s, x, c)
  <2>1. CASE u.is # "client"
    BY <2>1, NoClientParts DEF Client
  <2>2. CASE u.is = "client"
    <3>1. Client(s, c) /\ Good(s)
      BY <2>2 DEF Client
    <3>2. Good(a) /\ Only({"users", "chans"}, s, a) /\ AllBut({"invited"}, s, a) /\ a.users[c].invited = <<>>
      <4>1. CASE u.local
        <5> HIDE DEF u
        <5>1. a = invite_clear_user(s, c)
          BY <4>1
        <5> HIDE DEF a
        <5> QED BY <5>1, ClearsUser
      <4>2. CASE ~u.local
        <5>1. a = s /\ ~Mine(s, c)
          BY <4>2 DEF Mine
        <5> QED BY <5>1, NotMine DEF Only, AllBut, Good
      <4> QED BY <4>1, <4>2
    <3>3. SameNames(s, a) /\ u.local = a.users[c].local /\ u.umodes = a.users[c].umodes
      <4>1. {"invited"} \cap {"is", "local", "name"} = {}
        OBVIOUS
      <4>2. SameNames(s, a)
        <5> HIDE DEF a
        <5> QED BY <3>2, <4>1, SameFields
      <4>3. "local" \in Tags \ {"invited"} /\ "umodes" \in Tags \ {"invited"}
        BY DEF Tags
      <4>4. a.users[c].local = s.users[c].local /\ a.users[c].umodes = s.users[c].umodes
        <5> HIDE DEF a
        <5> QED BY <3>2, <4>3 DEF AllBut
      <4> QED BY <4>2, <4>4
    <3>4. mine = (IF u.local THEN SetField(a, "oper_list", a.oper_list \ {c}) ELSE a)
      <4> HIDE DEF u
      <4> QED BY DEF SetField
    <3>5. /\ mine = (IF u.local THEN SetField(a, "oper_list", a.oper_list \ {c}) ELSE a)
          /\ off = (IF u.local THEN watch_del_watch_list(mine, c) ELSE mine)
          /\ e = [off EXCEPT !.count.oper = IF "o" \in u.umodes THEN @ - 1 ELSE @,
                             !.count.invisi = IF "i" \in u.umodes THEN @ - 1 ELSE @]
          /\ h = whowas_add_history(e, c, FALSE) /\ p = whowas_off_history(h, c) /\ x = watch_check_hash(p, c, FALSE)
      BY <2>2, <3>4
    <3> HIDE DEF u, a, mine, off, e, h, p, x
    <3>6. Client(a, c) /\ OneName(a) /\ Past(a)
      BY <3>1, <3>2, <3>3 DEF SameNames, Client, Good
    <3>7. Uncounted(a, e, c)
      BY <3>2, <3>3, <3>5, <3>6, Uncounts
    <3>8. ASSUME NEW names, Known(e, names) PROVE Erased(e, x, c, names)
      <4>1. Only({"oper_list", "watchTable", "users", "count"}, a, e) /\ AllBut({"watches"}, a, e) /\ Linked(e)
        BY <3>7 DEF Uncounted
      <4>2. SameNames(a, e) /\ SamePast(a, e) /\ Formed(e)
        <5> DEFINE F == {"oper_list", "watchTable", "users", "count"}
                   G == {"watches"}
        <5>1. F \cap {"whowas", "cells", "history"} = {} /\ G \cap {"is", "local", "name"} = {} /\ "whowas_list" \notin G
          OBVIOUS
        <5>2. Only(F, a, e) /\ AllBut(G, a, e)
          BY <4>1
        <5> HIDE DEF F, G
        <5>3. SameNames(a, e) /\ SamePast(a, e)
          BY <5>1, <5>2, SameFields
        <5> QED BY <5>2, <5>3 DEF Only
      <4>3. Past(e) /\ Client(e, c) /\ e.users[c].name = a.users[c].name
        BY <3>6, <4>2, PastFrame DEF SameNames, Client
      <4>4. e.users[c].name \in Nick
        <5>1. a.users[c].is # "none"
          BY <3>6 DEF Client
        <5> QED BY <3>6, <4>3, <5>1 DEF OneName
      <4>5. Linked(e) /\ Formed(e) /\ Past(e) /\ Client(e, c) /\ e.users[c].name \in Nick /\ Known(e, names)
        BY <3>8, <4>1, <4>2, <4>3, <4>4
      <4>6. h = whowas_add_history(e, c, FALSE) /\ p = whowas_off_history(h, c) /\ x = watch_check_hash(p, c, FALSE)
        BY <3>5
      <4> QED BY <4>5, <4>6, Erases
    <3>9. Parted(a, x, c)
      BY <3>2, <3>6, <3>7, <3>8, ClientParts
    <3>10. a.count = s.count /\ a.oper_list = s.oper_list /\ \A d \in User : \A g \in Tags : g # "invited" => a.users[d][g] = s.users[d][g]
      BY <3>2 DEF Only, AllBut, Fields
    <3>11. /\ Alike(s, x)
           /\ HasMode(s, c, "o") <=> HasMode(a, c, "o")
           /\ HasMode(s, c, "i") <=> HasMode(a, c, "i")
           /\ a.users[c].name = s.users[c].name
      BY <3>3, <3>9, <3>10 DEF Parted, Alike, SameNames, Tags, HasMode, Client
    <3>12. Used(a) = Used(s)
      BY <3>3, NamesFrame
    <3>13. /\ Num(HasMode(s, c, "o")) = Num(HasMode(a, c, "o"))
           /\ Num(HasMode(s, c, "i")) = Num(HasMode(a, c, "i"))
      BY <3>11 DEF Num
    <3> QED BY <3>1, <3>6, <3>9, <3>10, <3>11, <3>12, <3>13 DEF Parted
  <2>3. u.is = "client" \/ u.is # "client"
    OBVIOUS
  <2> QED BY <2>1, <2>2, <2>3
<1> HIDE DEF x
<1>3. Vacant(x, t, c)
  BY <1>1, <1>2, Vacates DEF Parted
<1> QED BY <1>2, <1>3, Leaves

-----------------------------------------------------------------------------
(* Coming. *)

\* One who has the name and never registered is gone.
Cleared(s, t, n) ==
  /\ Good(t)
  /\ \A d \in User : IF s.users[d].is = "unknown" /\ s.users[d].name = n THEN t.users[d].is = "none"
                     ELSE \A g \in {"is", "local", "name"} : t.users[d][g] = s.users[d][g]

LEMMA Frees ==
  ASSUME NEW s, Good(s), NEW n, NEW t, t = Freed(s, n)
  PROVE  Cleared(s, t, n)
<1> DEFINE unknown == {d \in Named(s.users, n) : s.users[d].is = "unknown"}
           c == CHOOSE d \in unknown : TRUE
<1>1. t = IF unknown = {} THEN s ELSE exit_client(s, c)
  BY DEF Freed
<1>2. \A d \in User : d \in unknown <=> s.users[d].is = "unknown" /\ s.users[d].name = n
  BY DEF Named
<1>3. unknown \subseteq User
  BY DEF Named
<1> HIDE DEF unknown
<1>4. CASE unknown = {}
  BY <1>1, <1>2, <1>4 DEF Cleared
<1>5. CASE unknown # {}
  <2>1. c \in unknown /\ t = exit_client(s, c)
    BY <1>1, <1>5
  <2> HIDE DEF c
  <2>2. c \in User /\ s.users[c].is = "unknown" /\ s.users[c].name = n
    BY <1>2, <1>3, <2>1
  <2>3. Left(s, t, c)
    BY <2>1, <2>2, Exits
  <2>4. \A d \in User : s.users[d].is = "unknown" /\ s.users[d].name = n => d = c
    BY <2>2 DEF Good, OneName
  <2> QED BY <2>2, <2>3, <2>4 DEF Left, Cleared
<1> QED BY <1>4, <1>5

\* One takes a slot, or registers: it is no client before and has no block, and no one else has its name.
Taken(s, t, c, n) ==
  /\ Replaced(s, t, c) /\ ~Client(s, c) /\ t.users[c].is \in {"unknown", "client"}
  /\ t.users[c].name = n /\ n \in Nick /\ \A d \in User : d # c /\ s.users[d].is # "none" => s.users[d].name # n
  /\ t.oper_list = s.oper_list /\ (t.users[c].local => Block(t.users[c], FALSE) /\ ~HasMode(t, c, "o"))
  /\ t.count.oper = s.count.oper + Num(HasMode(t, c, "o"))
  /\ "i" \notin OperOnly => t.count.invisi = s.count.invisi + Num(HasMode(t, c, "i"))

LEMMA Takes ==
  ASSUME NEW s, Good(s), NEW c \in User, NEW n, NEW t, Taken(s, t, c, n)
  PROVE  /\ t.users[c].is = "unknown" => Good(t)
         /\ t.users[c].is = "client" => Good(watch_check_hash(t, c, TRUE))
<1>1. /\ Replaced(s, t, c) /\ ~Client(s, c) /\ t.users[c].is \in {"unknown", "client"}
      /\ t.users[c].name = n /\ n \in Nick /\ \A d \in User : d # c /\ s.users[d].is # "none" => s.users[d].name # n
      /\ t.oper_list = s.oper_list /\ (t.users[c].local => Block(t.users[c], FALSE) /\ ~HasMode(t, c, "o"))
      /\ t.count.oper = s.count.oper + Num(HasMode(t, c, "o"))
      /\ "i" \notin OperOnly => t.count.invisi = s.count.invisi + Num(HasMode(t, c, "i"))
  BY DEF Taken
<1>2. /\ Formed(s) /\ Operators(s) /\ Hidden(s) /\ OneName(s) /\ Linked(s) /\ Known(s, Used(s)) /\ Past(s) /\ Invited(s)
  BY DEF Good
<1>3. Spared(s, t, c) /\ Formed(t)
  BY <1>1 DEF Replaced, Only
<1>4. Linked(t) /\ Known(t, Used(s)) /\ Past(t) /\ Invited(t)
  BY <1>1, <1>2, Replaces
<1>5. ~HasMode(s, c, "o") /\ ~HasMode(s, c, "i") /\ c \notin s.oper_list
  BY <1>1, NotMine DEF HasMode
<1>6. s.count.oper \in Int /\ ("i" \notin OperOnly => s.count.invisi \in Int)
  BY NotMine
<1>7. Num(HasMode(t, c, "o")) \in Int /\ Num(HasMode(t, c, "i")) \in Int
  BY DEF Num
<1>8. Operators(t)
  <2>1. t.count.oper = s.count.oper + Num(HasMode(t, c, "o")) - Num(HasMode(s, c, "o"))
    <3>1. Num(HasMode(s, c, "o")) = 0
      BY <1>5 DEF Num
    <3> QED BY <1>1, <1>6, <1>7, <3>1
  <2>2. t.oper_list = IF HasMode(t, c, "o") /\ t.users[c].local THEN s.oper_list \cup {c} ELSE s.oper_list \ {c}
    <3>1. s.oper_list = s.oper_list \ {c}
      BY <1>5
    <3> QED BY <1>1, <3>1
  <2>3. t.users[c].local => Block(t.users[c], HasMode(t, c, "o"))
    BY <1>1 DEF Block
  <2> QED BY <1>2, <1>3, <2>1, <2>2, <2>3, OperatorsAt
<1>9. Hidden(t)
  <2>1. "i" \notin OperOnly => t.count.invisi = s.count.invisi + Num(HasMode(t, c, "i")) - Num(HasMode(s, c, "i"))
    <3>1. Num(HasMode(s, c, "i")) = 0
      BY <1>5 DEF Num
    <3> QED BY <1>1, <1>6, <1>7, <3>1
  <2> QED BY <1>2, <1>3, <2>1, HiddenAt
<1>10. OneName(t)
  BY <1>1, <1>2, <1>3 DEF OneName, Spared
<1>11. Used(t) = IF t.users[c].is = "client" THEN Used(s) \cup {n} ELSE Used(s)
  BY <1>1, <1>3 DEF Used, Spared, Client
<1>12. t.users[c].is = "unknown" => Good(t)
  BY <1>3, <1>4, <1>8, <1>9, <1>10, <1>11 DEF Good
<1>13. ASSUME t.users[c].is = "client", NEW r, r = watch_check_hash(t, c, TRUE) PROVE Good(r)
  <2>1. Only({"told"}, t, r) /\ Known(r, Said(Used(s), n, TRUE))
    BY <1>1, <1>3, <1>4, <1>13, Tells
  <2>2. Said(Used(s), n, TRUE) = Used(t)
    BY <1>11, <1>13 DEF Said
  <2>3. /\ r.users = t.users /\ r.count = t.count /\ r.oper_list = t.oper_list /\ r.watchTable = t.watchTable
        /\ r.whowas = t.whowas /\ r.cells = t.cells /\ r.history = t.history /\ r.chans = t.chans /\ Formed(r)
    BY <2>1 DEF Only, Fields
  <2>4. SameNames(t, r) /\ SameModes(t, r) /\ SameWatches(t, r) /\ SamePast(t, r) /\ SameInvites(t, r)
    BY <2>3 DEF SameNames, SameModes, SameWatches, SamePast, SameInvites
  <2>5. Operators(r) /\ Hidden(r)
    BY <1>8, <1>9, <2>4, ModesFrame
  <2>6. OneName(r) /\ Used(r) = Used(t)
    BY <1>10, <2>4, NamesFrame
  <2>7. Linked(r) /\ Past(r) /\ Invited(r)
    BY <1>4, <2>4, WatchesFrame, PastFrame, InvitesFrame
  <2> QED BY <2>1, <2>2, <2>3, <2>5, <2>6, <2>7 DEF Good
<1> QED BY <1>12, <1>13

\* A record in the slot, and the counts.
LEMMA Seats ==
  ASSUME NEW s, Formed(s), NEW c \in User, NEW r, Full(Tags, r), NEW v, IsCount(v),
         NEW t, t = SetField(SetUser(s, c, r), "count", v)
  PROVE  Only({"users", "count", "oper_list", "told"}, s, t) /\ Spared(s, t, c) /\ t.users[c] = r
         /\ t.count = v /\ t.oper_list = s.oper_list /\ t.told = s.told
<1> DEFINE u == SetUser(s, c, r)
<1>1. u = SetUser(s, c, r) /\ t = SetField(u, "count", v)
  OBVIOUS
<1> HIDE DEF u
<1>2. Only({"users"}, s, u) /\ Spared(s, u, c) /\ u.users[c] = r /\ Formed(u)
  BY <1>1, PutUser DEF Only
<1>3. Only({"count"}, u, t) /\ t.count = v
  BY <1>1, <1>2, SetCount
<1> QED BY <1>2, <1>3 DEF Only, Fields, Spared

\* mr_nick: a connection's name.
LEMMA NickTaken ==
  ASSUME NEW s, Good(s), NEW c \in User, s.users[c].is = "none", NEW n \in Nick, Named(s.users, n) = {},
         NEW t, t = [s EXCEPT !.users[c] = [NoUser EXCEPT !.is = "unknown", !.local = TRUE, !.name = n]]
  PROVE  Good(t)
<1> DEFINE r == [NoUser EXCEPT !.is = "unknown", !.local = TRUE, !.name = n]
<1>1. t = SetUser(s, c, r)
  BY DEF SetUser, SetField
<1>2. Full(Tags, r)
  BY DEF Full, Tags, NoUser
<1>3. /\ r.is = "unknown" /\ r.name = n /\ r.watches = {} /\ r.invited = <<>> /\ r.whowas_list = {}
      /\ r.conf = FALSE /\ r.oflag = FALSE
  BY DEF NoUser
<1> HIDE DEF r
<1>4. Formed(s) /\ s.count.oper \in Int /\ ("i" \notin OperOnly => s.count.invisi \in Int) /\ ~Client(s, c)
  BY NotMine DEF Good, Client
<1>5. Only({"users"}, s, t) /\ Spared(s, t, c) /\ t.users[c] = r
  <2>1. ASSUME NEW y, y = SetUser(s, c, r) PROVE Only({"users"}, s, y) /\ Spared(s, y, c) /\ y.users[c] = r
    BY <1>2, <1>4, <2>1, PutUser
  <2> QED BY <1>1, <2>1
<1>6. Replaced(s, t, c)
  <2>1. Emptied(s, c)
    BY <1>4, NotMine
  <2> QED BY <1>3, <1>5, <2>1 DEF Replaced, Emptied, Only, Fields
<1>7. Num(HasMode(t, c, "o")) = 0 /\ Num(HasMode(t, c, "i")) = 0 /\ ~HasMode(t, c, "o")
  BY <1>3, <1>5 DEF HasMode, Client, Num
<1>8. t.oper_list = s.oper_list /\ t.count = s.count
  BY <1>5 DEF Only, Fields
<1>9. \A d \in User : d # c /\ s.users[d].is # "none" => s.users[d].name # n
  BY DEF Named
<1>10. Block(t.users[c], FALSE)
  BY <1>3, <1>5 DEF Block
<1>11. /\ t.count.oper = s.count.oper + Num(HasMode(t, c, "o"))
       /\ "i" \notin OperOnly => t.count.invisi = s.count.invisi + Num(HasMode(t, c, "i"))
  BY <1>4, <1>7, <1>8
<1>12. Taken(s, t, c, n)
  BY <1>3, <1>4, <1>5, <1>6, <1>7, <1>8, <1>9, <1>10, <1>11 DEF Taken
<1> QED BY <1>3, <1>5, <1>12, Takes

\* A client takes the slot: modes are counted as the counts v say.
LEMMA ClientTaken ==
  ASSUME NEW s, Good(s), NEW c \in User, ~Client(s, c), NEW n \in Nick,
         \A d \in User : d # c /\ s.users[d].is # "none" => s.users[d].name # n,
         NEW r, Full(Tags, r), r.is = "client", r.name = n, r.watches = {}, r.invited = <<>>, r.whowas_list = {},
         r.local => Block(r, FALSE) /\ "o" \notin r.umodes,
         NEW v, IsCount(v), v.oper = IF "o" \in r.umodes THEN s.count.oper + 1 ELSE s.count.oper,
         v.invisi = IF "i" \in r.umodes THEN s.count.invisi + 1 ELSE s.count.invisi,
         NEW x, x = SetField(SetUser(s, c, r), "count", v)
  PROVE  Good(watch_check_hash(x, c, TRUE))
<1>1. Formed(s) /\ s.count.oper \in Int /\ ("i" \notin OperOnly => s.count.invisi \in Int) /\ Emptied(s, c)
  BY NotMine DEF Good
<1>2. /\ Only({"users", "count", "oper_list", "told"}, s, x) /\ Spared(s, x, c) /\ x.users[c] = r
      /\ x.count = v /\ x.oper_list = s.oper_list /\ x.told = s.told
  BY <1>1, Seats
<1>3. Replaced(s, x, c)
  <2>1. Emptied(x, c)
    BY <1>2 DEF Emptied
  <2> QED BY <1>1, <1>2, <2>1 DEF Replaced
<1>4. /\ HasMode(x, c, "o") <=> "o" \in r.umodes
      /\ HasMode(x, c, "i") <=> "i" \in r.umodes
  BY <1>2 DEF HasMode, Client
<1>5. /\ x.count.oper = s.count.oper + Num(HasMode(x, c, "o"))
      /\ "i" \notin OperOnly => x.count.invisi = s.count.invisi + Num(HasMode(x, c, "i"))
  BY <1>1, <1>2, <1>4 DEF Num
<1>6. x.users[c].local => Block(x.users[c], FALSE) /\ ~HasMode(x, c, "o")
  BY <1>2, <1>4
<1>7. x.users[c].is = "client" /\ x.users[c].name = n
  BY <1>2
<1>8. Taken(s, x, c, n)
  BY <1>2, <1>3, <1>5, <1>6, <1>7 DEF Taken
<1> QED BY <1>7, <1>8, Takes

\* register_local_user: the connection becomes a client.
LEMMA Registers ==
  ASSUME NEW s, Good(s), NEW c \in User, s.users[c].is = "unknown", NEW invisible \in BOOLEAN,
         NEW x, x = [s EXCEPT !.users[c] = [@ EXCEPT !.is = "client", !.umodes = IF invisible THEN {"i"} ELSE {}],
                              !.count.invisi = IF invisible THEN @ + 1 ELSE @]
  PROVE  Good(watch_check_hash(x, c, TRUE))
<1> DEFINE u == s.users[c]
           m == IF invisible THEN {"i"} ELSE {}
           r == [u EXCEPT !.is = "client", !.umodes = m]
           v == [s.count EXCEPT !.invisi = IF invisible THEN @ + 1 ELSE @]
           n == u.name
<1>1. Full(Tags, u) /\ IsCount(s.count) /\ Formed(s) /\ ~Client(s, c) /\ Emptied(s, c) /\ OneName(s)
  BY NotMine DEF Good, Formed, IsUsers, Client
<1>2. x = SetField(SetUser(s, c, r), "count", v)
  BY <1>1 DEF SetUser, SetField, Formed, Full, Fields
<1>3. /\ Full(Tags, r) /\ r.is = "client" /\ r.umodes = m
      /\ \A g \in Tags \ {"is", "umodes"} : r[g] = u[g]
  BY <1>1 DEF Full, Tags
<1>4. /\ IsCount(v) /\ v.oper = s.count.oper
      /\ v.invisi = IF invisible THEN s.count.invisi + 1 ELSE s.count.invisi
  BY <1>1 DEF IsCount, Full
<1>5. ("i" \in m <=> invisible) /\ "o" \notin m
  OBVIOUS
<1> HIDE DEF r, v, m
<1>6. r.name = n /\ r.watches = {} /\ r.invited = <<>> /\ r.whowas_list = {}
  BY <1>1, <1>3 DEF Emptied, Tags
<1>7. r.local => Block(r, FALSE)
  <2>1. r.local = u.local /\ r.conf = u.conf /\ r.oflag = u.oflag
    BY <1>3 DEF Tags
  <2>2. u.local => Block(u, c \in s.oper_list)
    BY DEF Good, Operators
  <2>3. c \notin s.oper_list
    BY <1>1, NotMine
  <2> QED BY <2>1, <2>2, <2>3 DEF Block
<1>8. n \in Nick /\ \A d \in User : d # c /\ s.users[d].is # "none" => s.users[d].name # n
  BY <1>1 DEF OneName
<1>9. /\ v.oper = IF "o" \in r.umodes THEN s.count.oper + 1 ELSE s.count.oper
      /\ v.invisi = IF "i" \in r.umodes THEN s.count.invisi + 1 ELSE s.count.invisi
  BY <1>3, <1>4, <1>5
<1> HIDE DEF u, n
<1>10. r.local => "o" \notin r.umodes
  BY <1>3, <1>5
<1>11. ASSUME NEW y, y = SetField(SetUser(s, c, r), "count", v) PROVE Good(watch_check_hash(y, c, TRUE))
  BY <1>1, <1>3, <1>4, <1>6, <1>7, <1>8, <1>9, <1>10, <1>11, ClientTaken
<1> QED BY <1>2, <1>11

\* uid_from_server: a user of another server.
LEMMA UidTaken ==
  ASSUME NEW s, Good(s), NEW c \in User, s.users[c].is = "none", NEW n \in Nick,
         \A d \in User : s.users[d].is # "none" => s.users[d].name # n, NEW modes,
         NEW x, x = [s EXCEPT !.users[c] = [NoUser EXCEPT !.is = "client", !.name = n, !.umodes = modes],
                              !.count.oper = IF "o" \in modes THEN @ + 1 ELSE @,
                              !.count.invisi = IF "i" \in modes THEN @ + 1 ELSE @]
  PROVE  Good(watch_check_hash(x, c, TRUE))
<1> DEFINE r == [NoUser EXCEPT !.is = "client", !.name = n, !.umodes = modes]
           v == [s.count EXCEPT !.oper = IF "o" \in modes THEN @ + 1 ELSE @,
                                !.invisi = IF "i" \in modes THEN @ + 1 ELSE @]
<1>1. IsCount(s.count) /\ Formed(s) /\ ~Client(s, c)
  BY DEF Good, Formed, Client
<1>2. Full(Tags, r)
  BY DEF Full, Tags, NoUser
<1>3. /\ r.is = "client" /\ r.name = n /\ r.watches = {} /\ r.invited = <<>> /\ r.whowas_list = {}
      /\ r.umodes = modes /\ r.local = FALSE
  BY DEF NoUser
<1>4. /\ IsCount(v) /\ v.oper = (IF "o" \in modes THEN s.count.oper + 1 ELSE s.count.oper)
      /\ v.invisi = IF "i" \in modes THEN s.count.invisi + 1 ELSE s.count.invisi
  BY <1>1 DEF IsCount, Full
<1>5. x = SetField(SetUser(s, c, r), "count", v)
  <2> HIDE DEF r
  <2>1. x = [s EXCEPT !.users[c] = r, !.count.oper = IF "o" \in modes THEN @ + 1 ELSE @,
                      !.count.invisi = IF "i" \in modes THEN @ + 1 ELSE @]
    BY DEF r
  <2> QED BY <1>1, <2>1 DEF SetUser, SetField, Formed, Full, Fields, IsCount
<1> HIDE DEF r, v
<1>6. /\ v.oper = (IF "o" \in r.umodes THEN s.count.oper + 1 ELSE s.count.oper)
      /\ v.invisi = IF "i" \in r.umodes THEN s.count.invisi + 1 ELSE s.count.invisi
  BY <1>3, <1>4
<1>7. r.local => Block(r, FALSE) /\ "o" \notin r.umodes
  BY <1>3
<1>8. \A d \in User : d # c /\ s.users[d].is # "none" => s.users[d].name # n
  OBVIOUS
<1>9. ASSUME NEW y, y = SetField(SetUser(s, c, r), "count", v) PROVE Good(watch_check_hash(y, c, TRUE))
  BY <1>1, <1>2, <1>3, <1>4, <1>6, <1>7, <1>8, <1>9, ClientTaken
<1> QED BY <1>5, <1>9

-----------------------------------------------------------------------------
(* Changing names. *)

\* What holds between the calls of it: watchers know of names, not of those in use.
Still(s, names) ==
  Formed(s) /\ Operators(s) /\ Hidden(s) /\ OneName(s) /\ Linked(s) /\ Known(s, names) /\ Past(s) /\ Invited(s)

\* A call that leaves who there is alone.
Calm(s, t, names) == Still(t, names) /\ SameNames(s, t) /\ Used(t) = Used(s)

LEMMA Steady ==
  ASSUME NEW s, NEW names, Still(s, names), NEW t, Formed(t), SameNames(s, t),
         SameModes(s, t) \/ (Operators(t) /\ Hidden(t)),
         SameWatches(s, t), NEW others, (t.told = s.told /\ others = names) \/ Known(t, others),
         SamePast(s, t) \/ Past(t), SameInvites(s, t)
  PROVE  Calm(s, t, others)
<1>1. OneName(t) /\ Used(t) = Used(s)
  BY NamesFrame DEF Still
<1>2. Operators(t) /\ Hidden(t)
  BY ModesFrame DEF Still
<1>3. Linked(t) /\ Known(t, others)
  BY WatchesFrame DEF Still
<1>4. Past(t)
  BY PastFrame DEF Still
<1>5. Invited(t)
  BY InvitesFrame DEF Still
<1> QED BY <1>1, <1>2, <1>3, <1>4, <1>5 DEF Calm, Still

\* Watchers are told.
LEMMA CalmTold ==
  ASSUME NEW s, NEW names, Still(s, names), NEW c \in User, s.users[c].name \in Nick, NEW on \in BOOLEAN,
         NEW t, t = watch_check_hash(s, c, on)
  PROVE  Calm(s, t, Said(names, s.users[c].name, on))
<1>1. Only({"told"}, s, t) /\ Known(t, Said(names, s.users[c].name, on))
  BY Tells DEF Still
<1>2. /\ t.users = s.users /\ t.count = s.count /\ t.oper_list = s.oper_list /\ t.watchTable = s.watchTable
      /\ t.whowas = s.whowas /\ t.cells = s.cells /\ t.history = s.history /\ t.chans = s.chans /\ Formed(t)
  BY <1>1 DEF Only, Fields
<1>3. SameNames(s, t) /\ SameModes(s, t) /\ SameWatches(s, t) /\ SamePast(s, t) /\ SameInvites(s, t)
  BY <1>2 DEF SameNames, SameModes, SameWatches, SamePast, SameInvites
<1> QED BY <1>1, <1>2, <1>3, Steady

\* The mode of who is registered with services is taken.
LEMMA CalmPut ==
  ASSUME NEW s, NEW names, Still(s, names), NEW c \in User, NEW t, t = Put(s, c, "r", FALSE)
  PROVE  Calm(s, t, names)
<1>1. Formed(s) /\ Operators(s) /\ Hidden(s)
  BY DEF Still
<1>2. ModePut(s, t, c, "r", FALSE)
  BY <1>1, Puts
<1>3. Operators(t)
  BY <1>1, PutsOther
<1>4. /\ Only({"users", "count", "oper_list"}, s, t) /\ AllBut({"umodes", "oflag", "conf", "tags"}, s, t)
      /\ Spared(s, t, c) /\ t.count = s.count /\ t.users[c].umodes = s.users[c].umodes \ {"r"}
  BY <1>2 DEF ModePut, Touched
<1>5. SameNames(s, t) /\ SameWatches(s, t) /\ t.told = s.told /\ SamePast(s, t) /\ SameInvites(s, t) /\ Formed(t)
  <2> DEFINE F == {"users", "count", "oper_list"}
             G == {"umodes", "oflag", "conf", "tags"}
  <2>1. /\ Only(F, s, t) /\ AllBut(G, s, t) /\ G \cap {"is", "local", "name"} = {}
        /\ "watchTable" \notin F /\ "watches" \notin G /\ "told" \notin F /\ F \cap {"whowas", "cells", "history"} = {}
        /\ "whowas_list" \notin G /\ "invited" \notin G /\ "chans" \notin F
    BY <1>4
  <2> HIDE DEF F, G
  <2>2. SameNames(s, t) /\ SameWatches(s, t) /\ t.told = s.told /\ SamePast(s, t) /\ t.chans = s.chans
    BY <2>1, SameFields
  <2>3. SameInvites(s, t)
    BY <2>1, <2>2, SameFields
  <2> QED BY <2>1, <2>2, <2>3 DEF Only
<1>6. Hidden(t)
  <2>1. HasMode(t, c, "i") <=> HasMode(s, c, "i")
    BY <1>4, <1>5 DEF HasMode, Client, SameNames
  <2>2. "i" \notin OperOnly => s.count.invisi \in Int
    BY <1>1, SlotsAssumption, FS_Subset, FS_CardinalityType DEF With, Hidden
  <2>3. "i" \notin OperOnly => t.count.invisi = s.count.invisi + Num(HasMode(t, c, "i")) - Num(HasMode(s, c, "i"))
    <3> DEFINE had == HasMode(s, c, "i")
               has == HasMode(t, c, "i")
    <3>1. had <=> has
      BY <2>1
    <3>2. t.count.invisi = s.count.invisi
      BY <1>4
    <3> HIDE DEF had, has
    <3>3. Num(has) = Num(had) /\ Num(had) \in Int
      BY <3>1 DEF Num
    <3>4. "i" \notin OperOnly => t.count.invisi = s.count.invisi + Num(has) - Num(had)
      <4>1. \A k, j \in Int : k + j - j = k
        OBVIOUS
      <4> SUFFICES ASSUME "i" \notin OperOnly PROVE s.count.invisi = s.count.invisi + Num(had) - Num(had)
        BY <3>2, <3>3
      <4> QED BY <2>2, <3>3, <4>1
    <3> QED BY <3>4 DEF had, has
  <2> QED BY <1>1, <1>4, <2>3, HiddenAt
<1> QED BY <1>3, <1>5, <1>6, Steady

\* The old name goes into the history.
LEMMA CalmPast ==
  ASSUME NEW s, NEW names, Still(s, names), NEW c \in User, Client(s, c), NEW t, t = whowas_add_history(s, c, TRUE)
  PROVE  Calm(s, t, names)
<1>1. Formed(s) /\ Past(s)
  BY DEF Still
<1>2. Only({"users", "whowas", "cells"}, s, t) /\ AllBut({"whowas_list"}, s, t) /\ Past(t)
  BY <1>1, Remembers
<1>3. SameNames(s, t) /\ SameModes(s, t) /\ SameWatches(s, t) /\ t.told = s.told /\ SameInvites(s, t) /\ Formed(t)
  <2> DEFINE F == {"users", "whowas", "cells"}
             G == {"whowas_list"}
  <2>1. /\ Only(F, s, t) /\ AllBut(G, s, t) /\ G \cap {"is", "local", "name"} = {}
        /\ "watchTable" \notin F /\ "watches" \notin G /\ "told" \notin F /\ F \cap {"count", "oper_list"} = {}
        /\ G \cap {"umodes", "oflag", "conf"} = {} /\ "invited" \notin G /\ "chans" \notin F
    BY <1>2
  <2> HIDE DEF F, G
  <2>2. SameNames(s, t) /\ SameModes(s, t) /\ SameWatches(s, t) /\ t.told = s.told /\ t.chans = s.chans
    BY <2>1, SameFields
  <2>3. SameInvites(s, t)
    BY <2>1, <2>2, SameFields
  <2> QED BY <2>1, <2>2, <2>3 DEF Only
<1> QED BY <1>2, <1>3, Steady

Moved(s, t, c, n, names) ==
  /\ Still(t, names) /\ Used(t) = (Used(s) \ {s.users[c].name}) \cup {n}
  /\ t.users[c].name = n

\* The name is another, which no one else has.
LEMMA CalmNamed ==
  ASSUME NEW s, NEW names, Still(s, names), NEW c \in User, Client(s, c), NEW n \in Nick,
         \A d \in User : d # c /\ s.users[d].is # "none" => s.users[d].name # n,
         NEW t, t = SetTag(s, c, "name", n)
  PROVE  Moved(s, t, c, n, names)
<1>1. Formed(s) /\ Operators(s) /\ Hidden(s) /\ OneName(s) /\ Linked(s) /\ Known(s, names) /\ Past(s) /\ Invited(s)
  BY DEF Still
<1>2. Only({"users"}, s, t) /\ Spared(s, t, c) /\ AllBut({"name"}, s, t) /\ t.users[c]["name"] = n
  <2>1. "name" \in Tags
    BY DEF Tags
  <2> QED BY <1>1, <2>1, PutTag
<1>3. /\ t.count = s.count /\ t.oper_list = s.oper_list /\ t.watchTable = s.watchTable /\ t.told = s.told
      /\ t.whowas = s.whowas /\ t.cells = s.cells /\ t.history = s.history /\ t.chans = s.chans /\ Formed(t)
  BY <1>2 DEF Only, Fields
<1>4. \A d \in User : \A g \in Tags : g # "name" => t.users[d][g] = s.users[d][g]
  BY <1>2 DEF AllBut
<1>5. /\ \A d \in User : /\ t.users[d].is = s.users[d].is /\ t.users[d].local = s.users[d].local
                         /\ t.users[d].umodes = s.users[d].umodes /\ t.users[d].oflag = s.users[d].oflag
                         /\ t.users[d].conf = s.users[d].conf /\ t.users[d].watches = s.users[d].watches
                         /\ t.users[d].whowas_list = s.users[d].whowas_list /\ t.users[d].invited = s.users[d].invited
                         /\ Client(t, d) <=> Client(s, d)
                         /\ Mine(t, d) <=> Mine(s, d)
  BY <1>4 DEF Tags, Client, Mine
<1>6. \A m : With(t, m) = With(s, m)
  BY <1>5 DEF With
<1>7. Operators(t)
  <2>1. {d \in With(t, "o") : t.users[d].local} = {d \in With(s, "o") : s.users[d].local}
    BY <1>5, <1>6 DEF With
  <2> QED BY <1>1, <1>3, <1>5, <1>6, <2>1 DEF Operators, Block
<1>8. Hidden(t)
  BY <1>1, <1>3, <1>6 DEF Hidden
<1>9. OneName(t)
  BY <1>1, <1>2, <1>5 DEF OneName, Spared
<1>10. Linked(t) /\ Known(t, names)
  BY <1>1, <1>3, <1>5 DEF Linked, Known
<1>11. Past(t)
  BY <1>1, <1>3, <1>5 DEF Past, Trail
<1>12. Invited(t)
  <2>1. Lists(t) /\ Few(t)
    BY <1>1, <1>3, <1>5 DEF Invited, Lists, Few
  <2>2. \A d \in User, ch \in Channel : OfClient(t, d, ch) = OfClient(s, d, ch) /\ OfChannel(t, d, ch) = OfChannel(s, d, ch)
    BY <1>3, <1>5 DEF OfClient, OfChannel
  <2> QED BY <1>1, <2>1, <2>2 DEF Invited, Paired
<1>13. Used(t) = (Used(s) \ {s.users[c].name}) \cup {n}
  <2>1. \A d \in User : d # c => t.users[d].name = s.users[d].name
    BY <1>2 DEF Spared
  <2>2. \A d \in User : d # c /\ Client(s, d) => s.users[d].name # s.users[c].name
    BY <1>1 DEF OneName, Client
  <2> QED BY <1>2, <1>5, <2>1, <2>2 DEF Used
<1> QED BY <1>2, <1>3, <1>7, <1>8, <1>9, <1>10, <1>11, <1>12, <1>13 DEF Still, Moved

\* The last calls of a change of name: the history, the name, and the watchers of it.
LEMMA CalmLast ==
  ASSUME NEW s, NEW c \in User, Client(s, c), NEW n \in Nick, Still(s, Used(s) \ {s.users[c].name}),
         \A d \in User : d # c /\ s.users[d].is # "none" => s.users[d].name # n,
         NEW h, h = whowas_add_history(s, c, TRUE), NEW x, x = SetTag(h, c, "name", n),
         NEW t, t = watch_check_hash(x, c, TRUE)
  PROVE  Good(t)
<1> DEFINE names == Used(s) \ {s.users[c].name}
<1>1. Still(s, names)
  OBVIOUS
<1> HIDE DEF names
<1>2. Still(h, names) /\ SameNames(s, h) /\ Used(h) = Used(s)
  BY <1>1, CalmPast DEF Calm
<1>3. /\ Client(h, c) /\ h.users[c].name = s.users[c].name
      /\ \A d \in User : d # c /\ h.users[d].is # "none" => h.users[d].name # n
  BY <1>2 DEF SameNames, Client
<1>4. Moved(h, x, c, n, names)
  BY <1>2, <1>3, CalmNamed
<1>5. Calm(x, t, Said(names, n, TRUE))
  BY <1>4, CalmTold DEF Moved
<1>6. Said(names, n, TRUE) = Used(x)
  BY <1>2, <1>3, <1>4 DEF Said, names, Moved
<1> QED BY <1>5, <1>6 DEF Calm, Still, Good

\* Renamed: the watchers are told that the old name is off, and the new one on.
LEMMA Renames ==
  ASSUME NEW s, Good(s), NEW c \in User, Client(s, c), NEW n \in Nick,
         \A d \in User : d # c /\ s.users[d].is # "none" => s.users[d].name # n,
         NEW t, t = Renamed(s, c, n)
  PROVE  Good(t)
<1>1. Still(s, Used(s)) /\ s.users[c].name \in Nick
  BY DEF Good, Still, OneName, Client
<1>2. CASE s.users[c].name = n
  <2> DEFINE h == whowas_add_history(s, c, TRUE)
  <2>1. h = whowas_add_history(s, c, TRUE)
    OBVIOUS
  <2>2. t = SetTag(h, c, "name", n)
    BY <1>2 DEF Renamed, SetTag, SetUser, SetField
  <2> HIDE DEF h
  <2>3. Still(h, Used(s)) /\ SameNames(s, h) /\ Used(h) = Used(s)
    BY <1>1, <2>1, CalmPast DEF Calm
  <2>4. /\ Client(h, c) /\ h.users[c].name = n
        /\ \A d \in User : d # c /\ h.users[d].is # "none" => h.users[d].name # n
    BY <1>2, <2>3 DEF SameNames, Client
  <2>5. Still(t, Used(s)) /\ Used(t) = (Used(h) \ {n}) \cup {n}
    <3>1. Moved(h, t, c, n, Used(s))
      BY <2>2, <2>3, <2>4, CalmNamed
    <3> QED BY <2>4, <3>1 DEF Moved
  <2>6. n \in Used(h)
    BY <2>4 DEF Used
  <2>7. Used(t) = Used(s)
    BY <2>3, <2>5, <2>6
  <2> QED BY <2>5, <2>7 DEF Still, Good
<1>3. CASE s.users[c].name # n
  <2> DEFINE a == Put(s, c, "r", FALSE)
             b == watch_check_hash(a, c, FALSE)
             h == whowas_add_history(b, c, TRUE)
             x == SetTag(h, c, "name", n)
  <2>1. t = watch_check_hash(x, c, TRUE)
    BY <1>3 DEF Renamed, Put, SetTag, SetUser, SetField
  <2>2. a = Put(s, c, "r", FALSE) /\ b = watch_check_hash(a, c, FALSE) /\ h = whowas_add_history(b, c, TRUE) /\ x = SetTag(h, c, "name", n)
    OBVIOUS
  <2> HIDE DEF a, b, h, x
  <2>3. Still(a, Used(s)) /\ SameNames(s, a) /\ Used(a) = Used(s)
    BY <1>1, <2>2, CalmPut DEF Calm
  <2>4. a.users[c].name = s.users[c].name
    BY <2>3 DEF SameNames
  <2>5. Calm(a, b, Said(Used(s), s.users[c].name, FALSE))
    BY <1>1, <2>2, <2>3, <2>4, CalmTold
  <2>6. Still(b, Used(s) \ {s.users[c].name}) /\ SameNames(a, b) /\ Used(b) = Used(s)
    BY <2>3, <2>5 DEF Calm, Said
  <2>7. /\ Client(b, c) /\ b.users[c].name = s.users[c].name
        /\ \A d \in User : d # c /\ b.users[d].is # "none" => b.users[d].name # n
    BY <2>3, <2>6 DEF SameNames, Client
  <2> QED BY <2>1, <2>2, <2>6, <2>7, CalmLast
<1> QED BY <1>2, <1>3

\* ms_svsnick: the same calls, the mode taken after the watchers of the old name were told.
LEMMA ServiceRenames ==
  ASSUME NEW s, Good(s), NEW c \in User, Client(s, c), NEW n \in Nick,
         \A d \in User : d # c /\ s.users[d].is # "none" => s.users[d].name # n,
         NEW b, b = watch_check_hash(s, c, FALSE), NEW a, a = Put(b, c, "r", FALSE),
         NEW h, h = whowas_add_history(a, c, TRUE), NEW x, x = SetTag(h, c, "name", n),
         NEW t, t = watch_check_hash(x, c, TRUE)
  PROVE  Good(t)
<1>1. Still(s, Used(s)) /\ s.users[c].name \in Nick
  BY DEF Good, Still, OneName, Client
<1>2. Calm(s, b, Said(Used(s), s.users[c].name, FALSE))
  BY <1>1, CalmTold
<1>3. Still(b, Used(s) \ {s.users[c].name}) /\ SameNames(s, b) /\ Used(b) = Used(s)
  BY <1>2 DEF Calm, Said
<1>4. Still(a, Used(s) \ {s.users[c].name}) /\ SameNames(b, a) /\ Used(a) = Used(b)
  <2>1. Calm(b, a, Used(s) \ {s.users[c].name})
    BY <1>3, CalmPut
  <2> QED BY <2>1 DEF Calm
<1>5. /\ Client(a, c) /\ a.users[c].name = s.users[c].name /\ Used(a) = Used(s)
      /\ \A d \in User : d # c /\ a.users[d].is # "none" => a.users[d].name # n
  <2>1. \A d \in User : a.users[d].is = s.users[d].is /\ a.users[d].name = s.users[d].name
    BY <1>3, <1>4 DEF SameNames
  <2> QED BY <1>3, <1>4, <2>1 DEF Client
<1> QED BY <1>4, <1>5, CalmLast

-----------------------------------------------------------------------------
(* The steps. *)

\* The state a handler leaves is the next one.
LEMMA Next ==
  ASSUME UsersInv, NEW t, Good(t), Becomes(t)
  PROVE  UsersInv'
<1>1. Full(Fields, t)
  BY DEF Good, Formed
<1>2. State' = t
  BY <1>1 DEF Becomes, State, Full, Fields
<1>3. Good(State')
  BY <1>2
<1>4. Good(State)'
  BY <1>3
<1> QED BY <1>4 DEF UsersInv, Becomes

\* State: the fields of it are the variables.
LEMMA Now ==
  ASSUME UsersInv
  PROVE  /\ Good(State) /\ Formed(State) /\ time \in Nat
         /\ State.users = users /\ State.chans = chans /\ State.whowas = whowas /\ State.cells = cells
         /\ State.told = told /\ State.watchTable = watchTable /\ State.count = count
         /\ State.oper_list = oper_list /\ State.history = history
BY DEF UsersInv, Good, State

LEMMA WatchingStep == ASSUME UsersInv, Watching PROVE UsersInv'
<1>1. PICK c \in User, n \in Nick, what \in {"+", "-", "C"} : m_watch(c, n, what)
  BY DEF Watching
<1>2. Good(State) /\ State.users = users
  BY Now
<1>3. Mine(State, c)
  BY <1>1, <1>2 DEF m_watch, Person, Mine, Client
<1>4. \/ /\ Cardinality(users[c].watches) < MaxWatch
         /\ Becomes(show_watch(watch_add_to_hash_table(State, n, c), c, n))
      \/ Becomes(watch_del_from_hash_table(State, n, c))
      \/ Becomes(watch_del_watch_list(State, c))
  BY <1>1 DEF m_watch
<1>5. /\ Cardinality(users[c].watches) < MaxWatch => Good(show_watch(watch_add_to_hash_table(State, n, c), c, n))
      /\ Good(watch_del_from_hash_table(State, n, c))
      /\ Good(watch_del_watch_list(State, c))
  BY <1>2, <1>3, WatchStep
<1> QED BY <1>4, <1>5, Next

LEMMA RehashStep == ASSUME UsersInv, NEW length \in 0..Cardinality(Cell), Rehash(length) PROVE UsersInv'
<1> DEFINE t == whowas_trim(State, length)
<1>1. Good(State) /\ Formed(State) /\ Past(State)
  BY Now DEF Good
<1>2. Becomes(t)
  BY DEF Rehash
<1>3. t = whowas_trim(State, length)
  OBVIOUS
<1> HIDE DEF t
<1>4. Only({"users", "whowas", "history"}, State, t) /\ AllBut({"whowas_list"}, State, t) /\ Past(t)
  BY <1>1, <1>3, Trims
<1>5. Only({"users", "whowas", "cells", "history"}, State, t)
  BY <1>4 DEF Only
<1> QED BY <1>1, <1>2, <1>4, <1>5, PastSide, Next

\* INVITE of this server's users and of others.
LEMMA Asked ==
  ASSUME UsersInv, NEW c \in User, NEW d \in User, NEW ch \in Channel, NEW only \in BOOLEAN,
         m_invite(c, d, ch, only) \/ ms_invite(d, ch, only)
  PROVE  UsersInv'
<1>1. Good(State) /\ Formed(State) /\ time \in Nat /\ State.users = users
  BY Now
<1> DEFINE p == Pace(users[c], "invite")
           add(s) == IF users[d].local /\ only THEN invite_add(s, ch, d) ELSE s
           x == [State EXCEPT !.chans[ch].last = time]
           y == [State EXCEPT !.users[c].pace["invite"] = p.reset]
           z == [State EXCEPT !.users[c].pace["invite"] = p.to, !.chans[ch].last = time]
           u == SetTag(State, c, "pace", [State.users[c].pace EXCEPT !["invite"] = p.to])
<1>2. Person(d)
  BY DEF m_invite, ms_invite
<1>3. Becomes(add(x)) \/ Becomes(y) \/ Becomes(add(z))
  BY DEF m_invite, ms_invite
<1>4. x = SetSide(State, ch, "last", time)
  BY <1>1 DEF SetSide, SetField
<1>5. y = SetTag(State, c, "pace", [State.users[c].pace EXCEPT !["invite"] = p.reset])
  BY <1>1 DEF SetTag, SetUser, SetField
<1>6. z = SetSide(u, ch, "last", time)
  BY <1>1 DEF SetSide, SetTag, SetUser, SetField, Formed, Full, Fields
<1> HIDE DEF p, x, y, z, u
<1>7. Good(x) /\ SameNames(State, x)
  BY <1>1, <1>4, IdleSide
<1>8. Good(y)
  BY <1>1, <1>5, IdleTag
<1>9. Good(u) /\ SameNames(State, u)
  <2>1. u = SetTag(State, c, "pace", [State.users[c].pace EXCEPT !["invite"] = p.to])
    BY DEF u
  <2> QED BY <1>1, <2>1, IdleTag
<1>10. Good(z) /\ SameNames(u, z)
  BY <1>6, <1>9, IdleSide
<1>11. ASSUME NEW s, Good(s), SameNames(State, s) PROVE Good(add(s))
  <2>1. CASE users[d].local /\ only
    <3>1. Mine(State, d)
      BY <1>1, <1>2, <2>1 DEF Mine, Client, Person
    <3>2. Mine(s, d)
      BY <1>11, <3>1, NamesFrame
    <3>3. ASSUME NEW t, t = invite_add(s, ch, d) PROVE Good(t)
      BY <1>1, <1>11, <3>2, <3>3, AddGood
    <3> QED BY <2>1, <3>3
  <2> QED BY <1>11, <2>1
<1>12. SameNames(State, z)
  BY <1>9, <1>10 DEF SameNames
<1>13. Good(add(x)) /\ Good(add(z))
  BY <1>7, <1>10, <1>11, <1>12
<1> HIDE DEF add
<1> QED BY <1>3, <1>8, <1>13, Next

LEMMA InvitingStep == ASSUME UsersInv, Inviting PROVE UsersInv'
<1>1. PICK c \in User, d \in User, ch \in Channel, only \in BOOLEAN :
        \/ m_invite(c, d, ch, only) \/ ms_invite(d, ch, only) \/ m_knock(c, ch)
        \/ channel_do_join(c, ch) \/ channel_free(ch) \/ ms_sjoin(ch)
  BY DEF Inviting
<1>2. Good(State) /\ Formed(State)
  BY Now
<1>3. CASE m_invite(c, d, ch, only) \/ ms_invite(d, ch, only)
  BY <1>3, Asked
<1>4. CASE m_knock(c, ch)
  <2> DEFINE p == Pace(users[c], "knock")
             v == [State.users[c].pace EXCEPT !["knock"] = IF p.refused THEN p.reset ELSE p.to]
             t == [State EXCEPT !.users[c].pace["knock"] = IF p.refused THEN p.reset ELSE p.to]
  <2>1. Becomes(State) \/ Becomes(t)
    BY <1>4 DEF m_knock
  <2>2. t = SetTag(State, c, "pace", v)
    BY <1>2 DEF SetTag, SetUser, SetField
  <2> HIDE DEF p, v, t
  <2>3. Good(t)
    BY <1>2, <2>2, IdleTag
  <2> QED BY <1>2, <2>1, <2>3, Next
<1>5. CASE channel_do_join(c, ch)
  <2> DEFINE s == [State EXCEPT !.chans[ch].there = TRUE]
             f == invite_find(s, ch, c)
             g == f.s
             t == invite_del(g, {<<c, ch>>})
  <2>1. Becomes(t) \/ Becomes(g)
    BY <1>5 DEF channel_do_join
  <2>2. s = SetSide(State, ch, "there", TRUE)
    BY <1>2 DEF SetSide, SetField
  <2>3. g = invite_find(s, ch, c).s /\ t = invite_del(g, {<<c, ch>>})
    OBVIOUS
  <2> HIDE DEF s, f, g, t
  <2>4. Good(s)
    BY <1>2, <2>2, IdleSide
  <2>5. Good(g)
    BY <2>3, <2>4, FindGood
  <2>6. Good(t)
    BY <2>3, <2>5, DelGood
  <2> QED BY <2>1, <2>5, <2>6, Next
<1>6. CASE channel_free(ch) \/ ms_sjoin(ch)
  <2> DEFINE D == {<<x.client, ch>> : x \in ToSet(State.chans[ch].invites)}
             s == invite_del(State, D)
             t == [s EXCEPT !.chans[ch].there = FALSE]
  <2>1. Becomes(t) \/ Becomes(s)
    BY <1>6 DEF channel_free, ms_sjoin, invite_clear
  <2>2. t = SetSide(s, ch, "there", FALSE) /\ s = invite_del(State, D)
    BY DEF SetSide, SetField
  <2> HIDE DEF s, t, D
  <2>3. Good(s)
    BY <1>2, <2>2, DelGood
  <2>4. Good(t)
    BY <2>2, <2>3, IdleSide
  <2> QED BY <2>1, <2>3, <2>4, Next
<1> QED BY <1>1, <1>3, <1>4, <1>5, <1>6

\* Changes: what a MODE or SVSMODE may spell are letters of the modes there are.
LEMMA ModeStep ==
  ASSUME UsersInv, NEW Changes, Changes \subseteq Seq(Letters), ModeCommands(Changes)
  PROVE  UsersInv'
<1>1. PICK c \in User, n \in Nick, x \in BOOLEAN, y \in BOOLEAN :
        \/ \E changes \in Changes : set_user_mode(c, changes) \/ ms_svsmode(c, changes)
        \/ oper_up(c, x, y) \/ ms_svstag(c, x) \/ do_away(c, x) \/ m_accept(c, n, x)
  BY DEF ModeCommands
<1>2. Good(State) /\ Formed(State) /\ State.users = users
  BY Now
<1>3. ASSUME NEW l \in Changes, set_user_mode(c, l) PROVE UsersInv'
  <2> DEFINE done == Spelled(State, c, l, FALSE)
             u    == done.users[c]
             kept == IF u.local /\ "a" \in u.umodes /\ ~u.oflag THEN Put(done, c, "a", FALSE) ELSE done
             t    == Counted(kept, c, State.users[c].umodes)
  <2>1. Person(c) /\ Becomes(t)
    BY <1>2, <1>3 DEF set_user_mode
  <2>2. Client(State, c) /\ l \in Seq(Letters)
    BY <1>2, <2>1 DEF Client, Person
  <2>3. kept = done \/ kept = Put(done, c, "a", FALSE)
    OBVIOUS
  <2>4. done = Spelled(State, c, l, FALSE) /\ t = Counted(kept, c, State.users[c].umodes)
    OBVIOUS
  <2> HIDE DEF done, u, kept, t
  <2>5. Good(t)
    BY <1>2, <2>2, <2>3, <2>4, ModeGood
  <2> QED BY <2>1, <2>5, Next
<1>4. ASSUME NEW l \in Changes, ms_svsmode(c, l) PROVE UsersInv'
  <2> DEFINE t == Spelled(State, c, l, TRUE)
  <2>1. Person(c) /\ Becomes(t)
    BY <1>4 DEF ms_svsmode
  <2>2. Client(State, c) /\ l \in Seq(Letters)
    BY <1>2, <2>1 DEF Client, Person
  <2>3. Right(State, State, c, TRUE)
    BY <1>2 DEF Right, Touched, Only, AllBut, Spared
  <2>4. Right(State, t, c, TRUE)
    BY <2>2, <2>3, Spells
  <2> HIDE DEF t
  <2>5. Good(t)
    BY <2>4 DEF Right
  <2> QED BY <2>1, <2>5, Next
<1>5. ASSUME oper_up(c, x, y) PROVE UsersInv'
  <2> DEFINE a == Opered(State, c, x)
             b == Counted(a, c, State.users[c].umodes)
             z == IF x THEN Put(b, c, "a", TRUE) ELSE b
             t == IF y THEN [z EXCEPT !.users[c].tags = @ \cup {"oper"}] ELSE z
  <2>1. Person(c) /\ users[c].local /\ "o" \notin users[c].umodes /\ Becomes(t)
    BY <1>2, <1>5 DEF oper_up
  <2>2. Mine(State, c) /\ "o" \notin State.users[c].umodes
    BY <1>2, <2>1 DEF Mine, Client, Person
  <2>3. a = Opered(State, c, x) /\ b = Counted(a, c, State.users[c].umodes) /\ (z = b \/ z = Put(b, c, "a", TRUE))
    OBVIOUS
  <2> HIDE DEF z
  <2>4. t = z \/ t = SetTag(z, c, "tags", z.users[c].tags \cup {"oper"})
    BY DEF SetTag, SetUser, SetField
  <2> HIDE DEF a, b, t
  <2>5. Good(t)
    BY <1>2, <2>2, <2>3, <2>4, OperGood
  <2> QED BY <2>1, <2>5, Next
<1>6. ASSUME ms_svstag(c, x) PROVE UsersInv'
  <2> DEFINE t == [State EXCEPT !.users[c].tags = IF x THEN {} ELSE @ \cup {"tag"}]
  <2>1. Becomes(t)
    BY <1>6 DEF ms_svstag
  <2>2. t = SetTag(State, c, "tags", IF x THEN {} ELSE State.users[c].tags \cup {"tag"})
    BY DEF SetTag, SetUser, SetField
  <2> HIDE DEF t
  <2>3. Good(t)
    BY <1>2, <2>2, IdleTag
  <2> QED BY <2>1, <2>3, Next
<1>7. ASSUME do_away(c, x) PROVE UsersInv'
  <2> DEFINE p == Pace(users[c], "away")
             off   == SetTag(State, c, "away", FALSE)
             on    == SetTag(State, c, "away", TRUE)
             back  == SetTag(State, c, "pace", [State.users[c].pace EXCEPT !["away"] = p.reset])
             pace  == SetTag(State, c, "pace", [State.users[c].pace EXCEPT !["away"] = p.to])
             both  == SetTag(pace, c, "away", TRUE)
  <2>1. Becomes(off) \/ Becomes(on) \/ Becomes(back) \/ Becomes(both)
    BY <1>7 DEF do_away, SetTag, SetUser, SetField
  <2> HIDE DEF p
  <2>2. ASSUME NEW s, Good(s), NEW g \in {"away", "pace"}, NEW v, NEW t, t = SetTag(s, c, g, v) PROVE Good(t)
    BY <2>2, IdleTag
  <2>3. Good(off) /\ Good(on) /\ Good(back) /\ Good(pace)
    BY <1>2, <2>2
  <2> HIDE DEF off, on, back, pace
  <2>4. Good(both)
    BY <2>2, <2>3
  <2> HIDE DEF both
  <2> QED BY <2>1, <2>3, <2>4, Next
<1>8. ASSUME m_accept(c, n, x) PROVE UsersInv'
  <2> DEFINE t == [State EXCEPT !.users[c].acceptlist = IF x THEN @ \cup {n} ELSE @ \ {n}]
  <2>1. Becomes(t)
    BY <1>8 DEF m_accept
  <2>2. t = SetTag(State, c, "acceptlist", IF x THEN State.users[c].acceptlist \cup {n} ELSE State.users[c].acceptlist \ {n})
    BY DEF SetTag, SetUser, SetField
  <2> HIDE DEF t
  <2>3. Good(t)
    BY <1>2, <2>2, IdleTag
  <2> QED BY <2>1, <2>3, Next
<1> QED BY <1>1, <1>3, <1>4, <1>5, <1>6, <1>7, <1>8

\* Who has a name is no one but c once a connection of that name is gone.
Sole(s, t, n, c) ==
  /\ \A d \in User : d # c /\ t.users[d].is # "none" => t.users[d].name # n
  /\ t.users[c].is = s.users[c].is

LEMMA Alone ==
  ASSUME NEW s, Good(s), NEW n, NEW c \in User, find_person(s.users, n) \subseteq {c}, s.users[c].is # "unknown",
         NEW t, Cleared(s, t, n)
  PROVE  Sole(s, t, n, c)
<1>1. \A d \in User : IF s.users[d].is = "unknown" /\ s.users[d].name = n THEN t.users[d].is = "none"
                      ELSE t.users[d].is = s.users[d].is /\ t.users[d].name = s.users[d].name
  BY DEF Cleared
<1>2. \A d \in User : s.users[d].is \in {"none", "unknown", "client"}
  BY DEF Good, OneName
<1>3. \A d \in User : s.users[d].is = "client" /\ s.users[d].name = n => d = c
  BY DEF find_person, Named
<1> QED BY <1>1, <1>2, <1>3 DEF Sole

LEMMA NamingStep == ASSUME UsersInv, Naming PROVE UsersInv'
<1>1. PICK c \in User, n \in Nick, x \in BOOLEAN, modes \in SUBSET Umode :
        \/ Quit(c) \/ mr_nick(c, n) \/ register_local_user(c, x) \/ uid_from_server(c, n, modes)
        \/ change_local_nick(c, n, x) \/ change_remote_nick(c, n) \/ ms_svsnick(c, n)
  BY DEF Naming
<1>2. Good(State) /\ Formed(State) /\ State.users = users
  BY Now
<1>3. ASSUME Quit(c) PROVE UsersInv'
  <2> DEFINE t == exit_client(State, c)
  <2>1. users[c].is # "none" /\ Becomes(t)
    BY <1>3 DEF Quit
  <2>2. t = exit_client(State, c) /\ State.users[c].is # "none"
    BY <1>2, <2>1
  <2> HIDE DEF t
  <2>3. Left(State, t, c)
    BY <1>2, <2>2, Exits
  <2> QED BY <2>1, <2>3, Next DEF Left
<1>4. ASSUME mr_nick(c, n) PROVE UsersInv'
  <2> DEFINE t == [State EXCEPT !.users[c] = [NoUser EXCEPT !.is = "unknown", !.local = TRUE, !.name = n]]
  <2>1. State.users[c].is = "none" /\ Named(State.users, n) = {} /\ Becomes(t)
    BY <1>2, <1>4 DEF mr_nick
  <2>2. Good(t)
    BY <1>2, <2>1, NickTaken
  <2> HIDE DEF t
  <2> QED BY <2>1, <2>2, Next
<1>5. ASSUME register_local_user(c, x) PROVE UsersInv'
  <2> DEFINE s == [State EXCEPT !.users[c] = [@ EXCEPT !.is = "client", !.umodes = IF x THEN {"i"} ELSE {}],
                                !.count.invisi = IF x THEN @ + 1 ELSE @]
             t == watch_check_hash(s, c, TRUE)
  <2>1. State.users[c].is = "unknown" /\ Becomes(t)
    BY <1>2, <1>5 DEF register_local_user
  <2>2. Good(t)
    BY <1>2, <2>1, Registers
  <2> HIDE DEF t
  <2> QED BY <2>1, <2>2, Next
<1>6. ASSUME uid_from_server(c, n, modes) PROVE UsersInv'
  <2> DEFINE f == Freed(State, n)
             s == [f EXCEPT !.users[c] = [NoUser EXCEPT !.is = "client", !.name = n, !.umodes = modes],
                            !.count.oper = IF "o" \in modes THEN @ + 1 ELSE @,
                            !.count.invisi = IF "i" \in modes THEN @ + 1 ELSE @]
             t == watch_check_hash(s, c, TRUE)
  <2>1. State.users[c].is = "none" /\ find_person(State.users, n) = {} /\ Becomes(t)
    BY <1>2, <1>6 DEF uid_from_server
  <2>2. f = Freed(State, n)
    OBVIOUS
  <2> HIDE DEF f
  <2>3. Cleared(State, f, n)
    BY <1>2, <2>2, Frees
  <2>4. /\ \A d \in User : d # c /\ f.users[d].is # "none" => f.users[d].name # n
        /\ f.users[c].is = "none" /\ Good(f)
    <3>1. Sole(State, f, n, c)
      BY <1>2, <2>1, <2>3, Alone
    <3> QED BY <2>1, <2>3, <3>1 DEF Sole, Cleared
  <2>5. \A d \in User : f.users[d].is # "none" => f.users[d].name # n
    BY <2>4
  <2>6. Good(t)
    BY <2>4, <2>5, UidTaken
  <2> HIDE DEF t
  <2> QED BY <2>1, <2>6, Next
<1>7. ASSUME change_local_nick(c, n, x) PROVE UsersInv'
  <2> DEFINE p == Pace(users[c], "nick")
             back  == [State EXCEPT !.users[c].pace["nick"] = p.reset]
             paced == [State EXCEPT !.users[c].pace["nick"] = p.to]
             t == Renamed(paced, c, n)
  <2>1. Person(c) /\ Named(users, n) \subseteq {c} /\ (Becomes(back) \/ Becomes(t))
    BY <1>7 DEF change_local_nick
  <2>2. /\ back = SetTag(State, c, "pace", [State.users[c].pace EXCEPT !["nick"] = p.reset])
        /\ paced = SetTag(State, c, "pace", [State.users[c].pace EXCEPT !["nick"] = p.to])
        /\ t = Renamed(paced, c, n)
    BY DEF SetTag, SetUser, SetField
  <2> HIDE DEF p, back, paced, t
  <2>3. Good(back)
    BY <1>2, <2>2, IdleTag
  <2>4. Good(paced) /\ SameNames(State, paced)
    BY <1>2, <2>2, IdleTag
  <2>5. \A d \in User : paced.users[d].is = users[d].is /\ paced.users[d].name = users[d].name
    BY <1>2, <2>4 DEF SameNames
  <2>6. Client(paced, c) /\ \A d \in User : d # c /\ paced.users[d].is # "none" => paced.users[d].name # n
    BY <2>1, <2>5 DEF Person, Client, Named
  <2>7. Good(t)
    BY <2>2, <2>4, <2>6, Renames
  <2> QED BY <2>1, <2>3, <2>7, Next
<1>8. ASSUME change_remote_nick(c, n) PROVE UsersInv'
  <2> DEFINE f == Freed(State, n)
             t == Renamed(f, c, n)
  <2>1. Person(c) /\ find_person(users, n) \subseteq {c} /\ Becomes(t)
    BY <1>8 DEF change_remote_nick
  <2>2. f = Freed(State, n) /\ t = Renamed(f, c, n)
    OBVIOUS
  <2> HIDE DEF f, t
  <2>3. Cleared(State, f, n)
    BY <1>2, <2>2, Frees
  <2>4. State.users[c].is = "client" /\ State.users[c].is # "unknown" /\ find_person(State.users, n) \subseteq {c}
    BY <1>2, <2>1 DEF Person
  <2>5. /\ \A d \in User : d # c /\ f.users[d].is # "none" => f.users[d].name # n
        /\ f.users[c].is = "client"
    <3>1. Sole(State, f, n, c)
      BY <1>2, <2>3, <2>4, Alone
    <3> QED BY <2>4, <3>1 DEF Sole
  <2>6. Good(f) /\ Client(f, c)
    BY <2>3, <2>5 DEF Cleared, Client
  <2>7. Good(t)
    BY <2>2, <2>5, <2>6, Renames
  <2> QED BY <2>1, <2>7, Next
<1>9. ASSUME ms_svsnick(c, n) PROVE UsersInv'
  <2> DEFINE e == exit_client(State, c)
             f == Freed(State, n)
             off == watch_check_hash(f, c, FALSE)
             a == Put(off, c, "r", FALSE)
             h == whowas_add_history(a, c, TRUE)
             named == SetTag(h, c, "name", n)
             t == watch_check_hash(named, c, TRUE)
  <2>1. Person(c) /\ (Becomes(e) \/ (find_person(users, n) \ {c} = {} /\ Becomes(t)))
    <3>1. named = [whowas_add_history([off EXCEPT !.users[c].umodes = @ \ {"r"}], c, TRUE) EXCEPT !.users[c].name = n]
      BY DEF Put, SetTag, SetUser, SetField
    <3> QED BY <1>9, <3>1 DEF ms_svsnick
  <2>2. /\ e = exit_client(State, c) /\ f = Freed(State, n) /\ off = watch_check_hash(f, c, FALSE)
        /\ a = Put(off, c, "r", FALSE) /\ h = whowas_add_history(a, c, TRUE) /\ named = SetTag(h, c, "name", n)
        /\ t = watch_check_hash(named, c, TRUE)
    OBVIOUS
  <2> HIDE DEF e, f, off, a, h, named, t
  <2>3. State.users[c].is = "client" /\ State.users[c].is # "unknown" /\ State.users[c].is # "none"
    BY <1>2, <2>1 DEF Person
  <2>4. Left(State, e, c)
    BY <1>2, <2>2, <2>3, Exits
  <2>5. ASSUME find_person(users, n) \ {c} = {} PROVE Good(t)
    <3>1. Cleared(State, f, n)
      BY <1>2, <2>2, Frees
    <3>2. find_person(State.users, n) \subseteq {c}
      BY <1>2, <2>5
    <3>3. /\ \A d \in User : d # c /\ f.users[d].is # "none" => f.users[d].name # n
          /\ f.users[c].is = "client"
      <4>1. Sole(State, f, n, c)
        BY <1>2, <2>3, <3>1, <3>2, Alone
      <4> QED BY <2>3, <4>1 DEF Sole
    <3>4. Good(f) /\ Client(f, c)
      BY <3>1, <3>3 DEF Cleared, Client
    <3> QED BY <2>2, <3>3, <3>4, ServiceRenames
  <2>6. CASE Becomes(e)
    BY <2>4, <2>6, Next DEF Left
  <2>7. CASE find_person(users, n) \ {c} = {} /\ Becomes(t)
    BY <2>5, <2>7, Next
  <2> QED BY <2>1, <2>6, <2>7
<1> QED BY <1>1, <1>3, <1>4, <1>5, <1>6, <1>7, <1>8, <1>9

\* No one is there at first, and nothing is kept.
LEMMA FirstUsers == ASSUME UsersInit PROVE UsersInv
<1> DEFINE s == State
<1>1. /\ s.users = [c \in User |-> NoUser] /\ s.count = [oper |-> 0, invisi |-> 0] /\ s.oper_list = {}
      /\ s.watchTable = [n \in Nick |-> {}] /\ s.told = [c \in User |-> {}]
      /\ s.whowas = <<>> /\ s.cells = [w \in Cell |-> [name |-> "", online |-> "none"]]
      /\ s.history \in 0..Cardinality(Cell) /\ Full(Fields, s)
      /\ s.chans = [ch \in Channel |-> [there |-> FALSE, last |-> 0, invites |-> <<>>]]
  BY DEF UsersInit, State, Full, Fields
<1>2. time \in Nat
  BY DEF UsersInit
<1> HIDE DEF s
<1>3. \A c \in User : s.users[c] = NoUser
  BY <1>1
<1>4. /\ NoUser.is = "none" /\ ~NoUser.local /\ NoUser.watches = {} /\ NoUser.whowas_list = {}
      /\ NoUser.invited = <<>> /\ Full(Tags, NoUser)
  BY DEF NoUser, Full, Tags
<1>5. Formed(s)
  <2>1. IsUsers(s.users)
    BY <1>1, <1>3, <1>4 DEF IsUsers, Full
  <2>2. IsChans(s.chans)
    BY <1>1 DEF IsChans, Full, Sides
  <2>3. IsCells(s.cells) /\ IsCount(s.count)
    <3>1. IsCells(s.cells)
      <4> DEFINE r == [name |-> "", online |-> "none"]
      <4>1. Full({"name", "online"}, r)
        BY DEF Full
      <4>2. s.cells = [w \in Cell |-> r]
        BY <1>1
      <4> HIDE DEF r
      <4> QED BY <4>1, <4>2 DEF IsCells, Full
    <3>2. IsCount(s.count)
      BY <1>1 DEF IsCount, Full
    <3> QED BY <3>1, <3>2
  <2>4. Full(Nick, s.watchTable) /\ Full(User, s.told)
    BY <1>1 DEF Full
  <2> QED BY <1>1, <2>1, <2>2, <2>3, <2>4 DEF Formed
<1>6. \A c \in User : /\ s.users[c].is = "none" /\ ~s.users[c].local /\ ~Client(s, c) /\ ~Mine(s, c)
                      /\ s.users[c].watches = {} /\ s.users[c].whowas_list = {} /\ s.users[c].invited = <<>>
  BY <1>3, <1>4 DEF Client, Mine
<1>7. \A m : With(s, m) = {}
  BY <1>6 DEF With
<1>8. Cardinality({}) = 0 /\ IsFiniteSet({})
  BY FS_EmptySet
<1>9. Operators(s) /\ Hidden(s)
  <2>1. s.count.oper = 0 /\ s.count.invisi = 0 /\ s.oper_list = {}
    <3>1. s.count = [oper |-> 0, invisi |-> 0] /\ s.oper_list = {}
      BY <1>1
    <3> QED BY <3>1
  <2> QED BY <1>6, <1>7, <1>8, <2>1 DEF Operators, Hidden
<1>10. OneName(s) /\ Used(s) = {}
  BY <1>6 DEF OneName, Used
<1>11. Linked(s) /\ Known(s, Used(s))
  <2>1. \A n \in Nick : s.watchTable[n] = {}
    BY <1>1
  <2>2. Linked(s)
    <3> SUFFICES ASSUME NEW c \in User
                 PROVE  /\ s.users[c].watches \in SUBSET Nick /\ IsFiniteSet(s.users[c].watches)
                        /\ Cardinality(s.users[c].watches) <= MaxWatch
                        /\ \A n \in Nick : n \in s.users[c].watches <=> c \in s.watchTable[n]
                        /\ ~Mine(s, c) => s.users[c].watches = {}
      BY DEF Linked
    <3>1. s.users[c].watches = {}
      BY <1>6
    <3> QED BY <1>8, <2>1, <3>1, LimitsAssumption
  <2>3. Known(s, Used(s))
    BY <1>6 DEF Known
  <2> QED BY <2>2, <2>3
<1>12. Past(s)
  <2>1. s.whowas = <<>>
    BY <1>1
  <2>2. Len(s.whowas) = 0 /\ ToSet(s.whowas) = {} /\ s.whowas \in Seq(Cell) /\ Once(s.whowas)
    BY <2>1 DEF ToSet, Once
  <2>3. Trail(s)
    BY <1>6, <2>2 DEF Trail
  <2>4. s.history \in Nat
    <3>1. s.history \in 0..Cardinality(Cell)
      BY <1>1
    <3> QED BY <3>1, SlotsAssumption, FS_CardinalityType
  <2>5. s.history \in 0..Cardinality(Cell)
    BY <1>1
  <2> QED BY <2>2, <2>3, <2>4, <2>5 DEF Past, AtMost
<1>13. Invited(s)
  <2>1. \A ch \in Channel : s.chans[ch].invites = <<>>
    <3>1. s.chans = [ch \in Channel |-> [there |-> FALSE, last |-> 0, invites |-> <<>>]]
      BY <1>1
    <3> QED BY <3>1
  <2>2. Lists(s) /\ Few(s)
    <3>1. \A c \in User : s.users[c].invited = <<>>
      BY <1>6
    <3>2. Len(<<>>) = 0
      OBVIOUS
    <3>3. Lists(s)
      <4>1. <<>> \in Seq(Invitation) /\ <<>> \in Seq(Guest)
        BY EmptySeq
      <4> QED BY <2>1, <3>1, <4>1 DEF Lists
    <3>4. Few(s)
      <4>1. 0 <= MaxInvites
        BY LimitsAssumption
      <4> QED BY <3>1, <3>2, <4>1 DEF Few
    <3> QED BY <3>3, <3>4
  <2>3. Paired(s)
    BY <1>6, <2>1 DEF Paired, OfClient, OfChannel, ToSet
  <2> QED BY <2>2, <2>3 DEF Invited
<1> QED BY <1>2, <1>5, <1>9, <1>10, <1>11, <1>12, <1>13 DEF s, UsersInv, Good

LEMMA UsersStep ==
  ASSUME UsersInv, NEW Changes, Changes \subseteq Seq(Letters), [UsersNext(Changes)]_usersVars
  PROVE  UsersInv'
<1>1. ASSUME UsersTick \/ UNCHANGED usersVars PROVE UsersInv'
  <2>1. State' = State
    BY <1>1 DEF UsersTick, usersVars, State
  <2>2. time' \in Nat
    BY <1>1 DEF UsersTick, usersVars, UsersInv
  <2>3. Good(State')
    BY <2>1 DEF UsersInv
  <2>4. Good(State)'
    BY <2>3
  <2> QED BY <2>2, <2>4 DEF UsersInv
<1> QED BY <1>1, WatchingStep, InvitingStep, ModeStep, NamingStep, RehashStep DEF UsersNext

\* The parts of the invariant hold between any two commands, and each needs others: who leaves is
\* counted out by the modes it had, and told of by the name it had (client.c:643).
THEOREM UsersInvariance ==
  ASSUME NEW Changes, Changes \subseteq Seq(Letters)
  PROVE  UsersSpec(Changes) => []UsersInv
<1>1. UsersInit => UsersInv
  BY FirstUsers
<1>2. UsersInv /\ [UsersNext(Changes)]_usersVars => UsersInv'
  BY UsersStep
<1> QED BY <1>1, <1>2, PTL DEF UsersSpec

-----------------------------------------------------------------------------
(* The theorems. *)

\* The counts of operators and of invisible users, the list of operators, and the block and flags
\* of one, are those of the users who have the modes, whatever was spelled in what order
\* (m_mode.c:171, m_oper.c:61, m_svsmode.c:129, client.c:653).  A mode that SVSMODE takes from who
\* ceases to be an operator is not counted: i must not be one for operators only.
THEOREM UsersAgreeAlways ==
  ASSUME NEW Changes, Changes \subseteq Seq(Letters), "i" \notin OperOnly
  PROVE  UsersSpec(Changes) => []UsersAgree
<1>1. UsersInv => UsersAgree
  <2> SUFFICES ASSUME UsersInv PROVE UsersAgree
    OBVIOUS
  <2>1. /\ Operators(State) /\ Hidden(State) /\ State.users = users /\ State.count = count
        /\ State.oper_list = oper_list
    BY Now DEF Good
  <2>2. \A m : With(State, m) = {c \in User : Person(c) /\ m \in users[c].umodes}
    BY <2>1 DEF With, Client, Person
  <2>3. \A c \in User : users[c].local => /\ users[c].conf = (c \in oper_list)
                                          /\ users[c].oflag => c \in oper_list
    <3> SUFFICES ASSUME NEW c \in User, users[c].local
                 PROVE  users[c].conf = (c \in oper_list) /\ (users[c].oflag => c \in oper_list)
      OBVIOUS
    <3>1. Block(users[c], c \in oper_list)
      BY <2>1 DEF Operators
    <3>2. CASE c \in oper_list
      <4>1. (c \in oper_list) = TRUE
        BY <3>2
      <4> QED BY <3>1, <4>1 DEF Block
    <3>3. CASE c \notin oper_list
      <4>1. (c \in oper_list) = FALSE
        BY <3>3
      <4> QED BY <3>1, <4>1 DEF Block
    <3> QED BY <3>2, <3>3
  <2> QED BY <2>1, <2>2, <2>3 DEF Operators, Hidden, UsersAgree
<1>2. UsersSpec(Changes) => []UsersInv
  BY UsersInvariance
<1> QED BY <1>1, <1>2, PTL

\* What is kept of a user on two sides is the same on both, within its limit, and a watcher was
\* last told of each name what is so (watch.c:72 and 116, whowas.c:57, channel_invite.c:72,
\* client.c:679 and 787).
THEOREM RememberedAlways ==
  ASSUME NEW Changes, Changes \subseteq Seq(Letters)
  PROVE  UsersSpec(Changes) => []Remembered
<1>1. UsersInv => Remembered
  <2> SUFFICES ASSUME UsersInv PROVE Remembered
    OBVIOUS
  <2>1. /\ Linked(State) /\ Known(State, Used(State)) /\ Past(State) /\ Invited(State)
        /\ State.users = users /\ State.chans = chans /\ State.whowas = whowas /\ State.cells = cells
        /\ State.told = told /\ State.watchTable = watchTable /\ State.history = history
    BY Now DEF Good
  <2>2. \A n \in Nick : n \in Used(State) <=> find_person(users, n) # {}
    BY <2>1 DEF Used, find_person, Named, Client
  <2>3. WatchersKnow
    BY <2>1, <2>2 DEF WatchersKnow, Known, Linked
  <2>4. CrossLinked
    <3>1. /\ \A c \in User, n \in Nick : n \in users[c].watches <=> c \in watchTable[n]
          /\ \A c \in User : Cardinality(users[c].watches) <= MaxWatch
      BY <2>1 DEF Linked
    <3>2. /\ \A c \in User, w \in Cell :
               w \in users[c].whowas_list <=> w \in ToSet(whowas) /\ cells[w].online = c
          /\ Len(whowas) <= (IF history = 0 THEN 1 ELSE history)
      BY <2>1 DEF Past, Trail, AtMost
    <3>3. /\ \A c \in User, ch \in Channel :
               {x.when : x \in {y \in ToSet(users[c].invited) : y.channel = ch}}
                 = {x.when : x \in {y \in ToSet(chans[ch].invites) : y.client = c}}
          /\ \A c \in User : Len(users[c].invited) <= MaxInvites \/ Len(users[c].invited) = 1
      BY <2>1 DEF Invited, Paired, Few, OfClient, OfChannel
    <3> QED BY <3>1, <3>2, <3>3 DEF CrossLinked
  <2> QED BY <2>3, <2>4 DEF Remembered
<1>2. UsersSpec(Changes) => []UsersInv
  BY UsersInvariance
<1> QED BY <1>1, <1>2, PTL
=============================================================================
