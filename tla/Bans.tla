-------------------------------- MODULE Bans --------------------------------
(***************************************************************************)
(* The bans of one server: K-lines on users, D-lines on addresses, X-lines  *)
(* on real names and RESVs on nicknames, set by operators, services and     *)
(* servers of shared blocks, read from the configuration, and kept in four  *)
(* database files across restarts.                                          *)
(*                                                                         *)
(* What a ban is compared with (an address, a host, a real name, a nick) is *)
(* one value of Who, and a mask is the set of the values it matches.        *)
(* Addressed masks are written as addresses with a number of bits, masks of *)
(* different sizes differing in the bits a hash bucket is chosen by.        *)
(* A job is a save of the databases: the server does nothing else until it  *)
(* ends, but it may crash in the middle.                                    *)
(***************************************************************************)
EXTENDS Lists, SequencesExt

CONSTANTS
  Slot,        \* connections
  Who,         \* what masks match
  Addressed,   \* masks written as addresses
  Wide,        \* masks refused to operators: too few characters that are no wildcards
  MaxNow,      \* bound of the clock
  MaxBans      \* bound on the bans in the table

Mask == (SUBSET Who) \ {{}}
Base(m) == CHOOSE w \in m : TRUE

ASSUME AddressedAssumption == Addressed \subseteq Mask /\ Wide \subseteq Mask

\* Bans, and the exempt, auth and shared blocks of the configuration.
Kept == {"kline", "dline", "xline", "resv"}
Kinds == Kept \cup {"exempt", "auth", "shared"}
MaskItem == [kind : Kinds, mask : SUBSET Who, until : Nat, db : BOOLEAN,
             exempt : SUBSET {"kline", "xline"}]

VARIABLES
  now, up,
  bans,        \* the tables, earliest first: atable, gecos_list, resv_nick_list
  clients,     \* the connections
  file, temp,  \* database files and the temporary files beside them
  job,         \* the save under way
  kept         \* what the last save of a kind to end well had to save
bansVars == <<now, up, bans, clients, file, temp, job, kept>>

NoClient == [is |-> "none", who |-> CHOOSE w \in Who : TRUE, exempt |-> {}]
NoFile == [records |-> 0, data |-> <<>>]
Idle == [todo |-> <<>>, left |-> <<>>, open |-> FALSE, exits |-> FALSE]

-----------------------------------------------------------------------------
(* Looking a ban up. *)

IsA(b, k) == b.kind = k
Expired(b, t) == b.until # 0 /\ b.until <= t

\* The record of kind k with one of the masks that find_conf_by_address prefers: precedence
\* falls with every record added.  0 when there is none.
find_conf_by_address(bs, k, masks) ==
  LET hits == {i \in DOMAIN bs : IsA(bs[i], k) /\ bs[i].mask \in masks}
  IN IF hits = {} THEN 0 ELSE CHOOSE i \in hits : \A j \in hits : i <= j

Against(w) == {m \in Mask : w \in m}
matches(bs, k, w) == find_conf_by_address(bs, k, Against(w)) # 0

\* A mask as a query: an address lies in the recorded mask, a name is the recorded one.
Queried(q) == IF q \in Addressed THEN {m \in Addressed : Base(q) \in m} ELSE {q}

\* gecos_find and resv_find walk their list from the latest item, and delete the
\* expired ones they meet before the item they return.
list_find(bs, k, t, masks) ==
  LET hits == {i \in DOMAIN bs : IsA(bs[i], k) /\ ~Expired(bs[i], t) /\ bs[i].mask \in masks}
      hit  == IF hits = {} THEN 0 ELSE CHOOSE i \in hits : \A j \in hits : j <= i
      met  == {i \in DOMAIN bs : i > hit /\ IsA(bs[i], k) /\ Expired(bs[i], t)}
      rest == DOMAIN bs \ met
  IN [hit |-> Cardinality({i \in rest : i <= hit}), bans |-> Picked(bs, rest)]

find_dline_conf(bs, w) ==
  IF matches(bs, "exempt", w) THEN "exempt" ELSE IF matches(bs, "dline", w) THEN "dline" ELSE "none"

-----------------------------------------------------------------------------
(* Bans meet connections. *)

conf_try_ban(bs, c, k) ==
  IF \/ k # "dline" /\ k \in c.exempt
     \/ k = "dline" /\ matches(bs, "exempt", c.who)
  THEN c ELSE NoClient

\* A new ban is tried on the registered clients, a D-line also on the unknown.
Tried(bs, cs, b, states) ==
  [s \in Slot |-> IF cs[s].who \in b.mask /\ cs[s].is \in states
                  THEN conf_try_ban(bs, cs[s], b.kind) ELSE cs[s]]
kline_check(bs, cs, b) == Tried(bs, cs, b, {"client"})
\* Mutation: the unknown connections are not tried.
dline_check_registered(bs, cs, b) == Tried(bs, cs, b, {"client"})
dline_check(bs, cs, b) == Tried(bs, cs, b, {"client", "unknown"})
xline_check(bs, cs, b) == Tried(bs, cs, b, {"client"})
check(bs, cs, b) == CASE b.kind = "kline" -> kline_check(bs, cs, b)
                      [] b.kind = "dline" -> dline_check(bs, cs, b)
                      [] b.kind = "xline" -> xline_check(bs, cs, b)
                      [] OTHER -> cs

\* After a rehash each client meets the first of its D-, K- and X-lines only.
check_conf_klines(bs, cs, t) ==
  LET xline(w) == list_find(bs, "xline", t, Against(w)).hit # 0
      First(c) == IF matches(bs, "dline", c.who) THEN conf_try_ban(bs, c, "dline")
                  ELSE IF c.is = "unknown" THEN c
                  ELSE IF matches(bs, "kline", c.who) THEN conf_try_ban(bs, c, "kline")
                  ELSE IF xline(c.who) THEN conf_try_ban(bs, c, "xline") ELSE c
  IN [s \in Slot |-> IF cs[s].is = "none" THEN cs[s] ELSE First(cs[s])]

\* A connection is accepted unless its address has a D-line and no exempt block.
Accept(s, w) ==
  /\ up /\ job = Idle /\ clients[s].is = "none"
  /\ find_dline_conf(bans, w) # "dline"
  /\ clients' = [clients EXCEPT ![s] = [is |-> "unknown", who |-> w, exempt |-> {}]]
  /\ UNCHANGED <<now, up, bans, file, temp, job, kept>>

\* It registers in the first auth block that matches, unless a K-line or an X-line does.
Register(s) ==
  LET w     == clients[s].who
      block == find_conf_by_address(bans, "auth", Against(w))
      found == list_find(bans, "xline", now, Against(w))
      spare == IF block = 0 THEN {} ELSE bans[block].exempt
      killed == block = 0 \/ ("kline" \notin spare /\ matches(bans, "kline", w))
      xlined == "xline" \notin spare /\ found.hit # 0
  IN /\ up /\ job = Idle /\ clients[s].is = "unknown"
     /\ clients' = [clients EXCEPT ![s] = IF killed \/ xlined THEN NoClient
                                          ELSE [@ EXCEPT !.is = "client", !.exempt = spare]]
     /\ bans' = IF killed \/ "xline" \in spare THEN bans ELSE found.bans
     /\ UNCHANGED <<now, up, file, temp, job, kept>>

\* A nick is tried: the RESVs are walked.
TryNick(w) ==
  /\ up /\ job = Idle
  /\ bans' = list_find(bans, "resv", now, Against(w)).bans
  /\ UNCHANGED <<now, up, clients, file, temp, job, kept>>

-----------------------------------------------------------------------------
(* Setting and removing bans. *)

\* Who asks: an operator with the flag for it, a service, or a user of another server,
\* who needs a shared block.
shared_find == \E i \in DOMAIN bans : IsA(bans[i], "shared")
Accepted(src) == src = "service" \/ shared_find

\* What the new ban q falls under: a K- or D-line by address or name, an X-line that
\* matches its text, a RESV of the same text.  The lists lose expired items on the way.
find_address(k, q) == [hit |-> find_conf_by_address(bans, k, Queried(q)), bans |-> bans]
gecos_match(q) == list_find(bans, "xline", now, {m \in Mask : q \subseteq m})
gecos_same(q) == list_find(bans, "xline", now, {q})
resv_same(q) == list_find(bans, "resv", now, {q})

\* The ban is refused when found is there, else added and tried on the connections.
SetBan(k, q, duration, found) ==
  LET b == [kind |-> k, mask |-> q, db |-> TRUE, exempt |-> {},
            until |-> IF duration = 0 THEN 0 ELSE now + duration]
  IN /\ up /\ job = Idle /\ Len(found.bans) < MaxBans /\ now + duration <= MaxNow + 1
     /\ IF found.hit # 0 THEN bans' = found.bans /\ UNCHANGED clients
        ELSE /\ bans' = Append(found.bans, b)
             /\ clients' = check(bans', clients, b)
     /\ UNCHANGED <<now, up, file, temp, job, kept>>

valid_wild_card(src, q) == src = "service" \/ q \notin Wide

kline_handle(src, q, d) == valid_wild_card(src, q) /\ SetBan("kline", q, d, find_address("kline", q))
dline_handle(src, q, d) == /\ q \in Addressed /\ valid_wild_card(src, q)
                           /\ SetBan("dline", q, d, find_address("dline", q))
xline_handle(src, q, d) == valid_wild_card(src, q) /\ SetBan("xline", q, d, gecos_match(q))
resv_handle(src, q, d) == valid_wild_card(src, q) /\ SetBan("resv", q, d, resv_same(q))

mo_kline(q, d) == kline_handle("oper", q, d)
mo_dline(q, d) == dline_handle("oper", q, d)
mo_xline(q, d) == xline_handle("oper", q, d)
mo_resv(q, d) == resv_handle("oper", q, d)
ms_kline(src, q, d) == Accepted(src) /\ kline_handle(src, q, d)
ms_dline(src, q, d) == Accepted(src) /\ dline_handle(src, q, d)
ms_xline(src, q, d) == Accepted(src) /\ xline_handle(src, q, d)
ms_resv(src, q, d) == Accepted(src) /\ resv_handle(src, q, d)

\* The bucket is that of the mask given, which need not be the one the record is in.
delete_one_address_conf(bs, q, i) ==
  IF q \in Addressed /\ Cardinality(q) # Cardinality(bs[i].mask) THEN bs ELSE RemoveAt(bs, i)

\* A ban of the configuration is not removed.
LiftBan(found, without) ==
  /\ up /\ job = Idle
  /\ bans' = IF found.hit = 0 \/ ~found.bans[found.hit].db THEN found.bans ELSE without
  /\ UNCHANGED <<now, up, clients, file, temp, job, kept>>

kline_remove(q) == LET f == find_address("kline", q) IN LiftBan(f, delete_one_address_conf(bans, q, f.hit))
dline_remove(q) == LET f == find_address("dline", q)
                   IN q \in Addressed /\ LiftBan(f, delete_one_address_conf(bans, q, f.hit))
xline_remove(q) == LET f == gecos_same(q) IN LiftBan(f, RemoveAt(f.bans, f.hit))
resv_remove(q) == LET f == resv_same(q) IN LiftBan(f, RemoveAt(f.bans, f.hit))

mo_unkline(q) == kline_remove(q)
mo_undline(q) == dline_remove(q)
mo_unxline(q) == xline_remove(q)
mo_unresv(q) == resv_remove(q)
ms_unkline(src, q) == Accepted(src) /\ kline_remove(q)
ms_undline(src, q) == Accepted(src) /\ dline_remove(q)
ms_unxline(src, q) == Accepted(src) /\ xline_remove(q)
ms_unresv(src, q) == Accepted(src) /\ resv_remove(q)

OperSets(q, d) == mo_kline(q, d) \/ mo_dline(q, d) \/ mo_xline(q, d) \/ mo_resv(q, d)
OperLifts(q) == mo_unkline(q) \/ mo_undline(q) \/ mo_unxline(q) \/ mo_unresv(q)
RemoteSets(src, q, d) == ms_kline(src, q, d) \/ ms_dline(src, q, d) \/ ms_xline(src, q, d) \/ ms_resv(src, q, d)
RemoteLifts(src, q) == ms_unkline(src, q) \/ ms_undline(src, q) \/ ms_unxline(src, q) \/ ms_unresv(src, q)

Tick == /\ up /\ job = Idle /\ now < MaxNow /\ now' = now + 1
        /\ UNCHANGED <<up, bans, clients, file, temp, job, kept>>

hostmask_expire_temporary(bs) ==
  Picked(bs, {i \in DOMAIN bs : bs[i].kind \in {"kline", "dline"} => ~Expired(bs[i], now)})
gecos_expire(bs) == Picked(bs, {i \in DOMAIN bs : bs[i].kind = "xline" => ~Expired(bs[i], now)})
resv_expire(bs) == Picked(bs, {i \in DOMAIN bs : bs[i].kind = "resv" => ~Expired(bs[i], now)})
cleanup_tklines ==
  /\ up /\ job = Idle /\ bans' = resv_expire(gecos_expire(hostmask_expire_temporary(bans)))
  /\ UNCHANGED <<now, up, clients, file, temp, job, kept>>

\* What is in the databases stays when the configuration is read again.
clear_out_address_conf(bs) ==
  Picked(bs, {i \in DOMAIN bs : bs[i].kind \in {"kline", "dline", "exempt", "auth"} => bs[i].db})
gecos_clear(bs) == Picked(bs, {i \in DOMAIN bs : bs[i].kind = "xline" => bs[i].db})
resv_clear(bs) == Picked(bs, {i \in DOMAIN bs : bs[i].kind = "resv" => bs[i].db})
shared_clear(bs) == Picked(bs, {i \in DOMAIN bs : bs[i].kind # "shared"})
conf_clear(bs) == shared_clear(resv_clear(gecos_clear(clear_out_address_conf(bs))))

conf_rehash(blocks) ==
  /\ up /\ job = Idle
  /\ bans' = conf_clear(bans) \o blocks
  /\ clients' = check_conf_klines(bans', clients, now)
  /\ UNCHANGED <<now, up, file, temp, job, kept>>

-----------------------------------------------------------------------------
(* The databases. *)

Stored(bs, k) == Picked(bs, {i \in DOMAIN bs : IsA(bs[i], k) /\ bs[i].db})

\* Lists and buckets are written from the latest item on.
save_kline_database(bs) == Reverse(Stored(bs, "kline"))
save_dline_database(bs) == Reverse(Stored(bs, "dline"))
save_xline_database(bs) == Reverse(Stored(bs, "xline"))
save_resv_database(bs) == Reverse(Stored(bs, "resv"))
Saved(bs, k) == CASE k = "kline" -> save_kline_database(bs) [] k = "dline" -> save_dline_database(bs)
                  [] k = "xline" -> save_xline_database(bs) [] k = "resv" -> save_resv_database(bs)

\* The event, or the end of the server (server_die), begins to save all databases.
save_all_databases(exits) ==
  /\ up /\ job = Idle
  /\ job' = [Idle EXCEPT !.todo = <<"kline", "dline", "xline", "resv">>, !.exits = exits]
  /\ UNCHANGED <<now, up, bans, clients, file, temp, kept>>

Down == up' = FALSE /\ bans' = <<>> /\ clients' = [s \in Slot |-> NoClient] /\ job' = Idle

\* The next database, or back to the loop, or out of main.
Proceed == IF Len(job.todo) > 1 THEN job' = [job EXCEPT !.todo = Tail(@), !.left = <<>>, !.open = FALSE]
                                     /\ UNCHANGED <<up, bans, clients>>
           ELSE IF job.exits THEN Down ELSE job' = Idle /\ UNCHANGED <<up, bans, clients>>

\* Mutation: the database makes room for the file to be written.
open_db_write_over(fails) ==
  LET k == Head(job.todo) IN
  /\ job # Idle /\ ~job.open /\ ~fails
  /\ file' = [file EXCEPT ![k] = NoFile]
  /\ temp' = [temp EXCEPT ![k] = [records |-> Len(Saved(bans, k)), data |-> <<>>]]
  /\ job' = [job EXCEPT !.open = TRUE, !.left = Saved(bans, k)]
  /\ UNCHANGED <<up, bans, clients, now, kept>>

\* The temporary file an earlier save left is removed; the new one must not exist.
\* A save that cannot open it, or write its version, is given up.
open_db_write(fails) ==
  LET k == Head(job.todo) IN
  /\ job # Idle /\ ~job.open
  /\ IF fails THEN temp' = [temp EXCEPT ![k] = NoFile] /\ Proceed
     ELSE /\ temp' = [temp EXCEPT ![k] = [records |-> Len(Saved(bans, k)), data |-> <<>>]]
          /\ job' = [job EXCEPT !.open = TRUE, !.left = Saved(bans, k)]
          /\ UNCHANGED <<up, bans, clients>>
  /\ UNCHANGED <<now, file, kept>>

\* SAFE_WRITE: a write error removes the temporary file and leaves the database.
write_record(fails) ==
  LET k == Head(job.todo) IN
  /\ job.open /\ job.left # <<>>
  /\ IF fails THEN temp' = [temp EXCEPT ![k] = NoFile] /\ Proceed
     ELSE /\ temp' = [temp EXCEPT ![k].data = Append(@, Head(job.left))]
          /\ job' = [job EXCEPT !.left = Tail(@)]
          /\ UNCHANGED <<up, bans, clients>>
  /\ UNCHANGED <<now, file, kept>>

\* fclose writes out what is buffered: when it fails the temporary file stays; when
\* the rename does, the file is removed.
close_db(how) ==
  LET k == Head(job.todo) IN
  /\ job.open /\ job.left = <<>> /\ how \in {"done", "fclose", "rename"}
  /\ temp' = IF how = "fclose" THEN temp ELSE [temp EXCEPT ![k] = NoFile]
  /\ file' = IF how = "done" THEN [file EXCEPT ![k] = temp[k]] ELSE file
  /\ kept' = IF how = "done" THEN [kept EXCEPT ![k] = Stored(bans, k)] ELSE kept
  /\ Proceed /\ UNCHANGED now

Crash == up /\ Down /\ UNCHANGED <<now, file, temp, kept>>

\* The records of a file, as many as it announces.  One that is not there would give the
\* fields of the last one again: SAFE_READ leaves its own loop only.
Records(k) ==
  LET f == file[k]
      Read(i) == IF i <= Len(f.data) THEN f.data[i] ELSE f.data[Len(f.data)]
  IN IF f.data = <<>> THEN <<>> ELSE [i \in 1..f.records |-> Read(i)]

\* A record read sets the ban as it was.
load_kline_database(bs) == bs \o Records("kline")
load_dline_database(bs) == bs \o Records("dline")
load_xline_database(bs) == bs \o Records("xline")
load_resv_database(bs) == bs \o Records("resv")

\* The configuration is read before the databases.
Start(blocks) ==
  /\ ~up /\ up' = TRUE
  /\ bans' = load_resv_database(load_xline_database(load_dline_database(load_kline_database(blocks))))
  /\ UNCHANGED <<now, clients, file, temp, job, kept>>

BansInit ==
  /\ now = 0 /\ up = FALSE /\ bans = <<>> /\ clients = [s \in Slot |-> NoClient]
  /\ file = [k \in Kept |-> NoFile] /\ temp = [k \in Kept |-> NoFile]
  /\ job = Idle /\ kept = [k \in Kept |-> <<>>]

Connections == \E s \in Slot : Register(s) \/ \E w \in Who : Accept(s, w)
BansEvents == Tick \/ cleanup_tklines \/ save_all_databases(FALSE) \/ save_all_databases(TRUE)
Disk == \/ \E fails \in BOOLEAN : open_db_write(fails) \/ write_record(fails)
        \/ \E how \in {"done", "fclose", "rename"} : close_db(how)
Commands == \/ \E q \in Mask : OperLifts(q) \/ \E src \in {"service", "user"} : RemoteLifts(src, q)
            \/ \E q \in Mask : OperSets(q, 0) \/ RemoteSets("user", q, 1) \/ RemoteSets("service", q, 0)

BansNext(Conf) == \/ Connections \/ BansEvents \/ Disk \/ Crash \/ Commands
                  \/ \E w \in Who : TryNick(w)
                  \/ \E blocks \in Conf : conf_rehash(blocks) \/ Start(blocks)
BansSpec(Conf) == BansInit /\ [][BansNext(Conf)]_bansVars

-----------------------------------------------------------------------------
(* Properties *)

\* A connection that no exempt block and no exemption of its auth block spares is not
\* matched by a D-line, nor, once registered, by a K-line or an X-line in force: in
\* whatever order bans are set, expire and are read again and clients connect and
\* register (client.c:338, m_kline.c:47, m_dline.c:46, m_xline.c:46, user.c:288).
BansEnforced ==
  \A s \in Slot :
    LET c == clients[s]
    IN c.is # "none" /\ c.exempt = {} /\ ~matches(bans, "exempt", c.who) =>
         \A i \in DOMAIN bans : c.who \in bans[i].mask =>
           /\ bans[i].kind # "dline"
           /\ c.is = "client" => bans[i].kind # "kline"
                                 /\ (bans[i].kind = "xline" => Expired(bans[i], now))

\* Whatever fails while the databases are saved, and wherever the server is stopped, it
\* starts with the bans the last save to end well had in the table, all of them and no
\* others (conf_db.c:220 and 236, ircd.c:465).
DatabaseKept ==
  [][~up /\ up' => \A k \in Kept : LET read == Stored(bans', k) IN Len(read) = Len(kept[k]) /\ ToSet(read) = ToSet(kept[k])]_bansVars
=============================================================================
