------------------------------- MODULE Config --------------------------------
(***************************************************************************)
(* The configuration of a server: files read in two passes, block by block, *)
(* into settings, lists of items, classes, listeners, log files and new     *)
(* commands; read again while clients hold what was read before.  With it   *)
(* the modules that may be loaded, the commands they add, and the messages   *)
(* of the day.                                                              *)
(***************************************************************************)
EXTENDS Integers, FiniteSets, SequencesExt, TLC

CONSTANTS
  Files,        \* what files hold: blocks [block, items], or [block |-> "include", file]
  Default,      \* value of each setting that has one
  Bounds,       \* settings held within bounds: <<least, most>>
  Texts,        \* settings that are texts without a default
  Once,         \* settings taken only once, at first
  Holder,       \* clients, which hold an auth item's class and a listener
  Module, Core, \* modules, and those of core_module_table
  Resident,     \* those that may not be unloaded
  Adds,         \* the command each module adds
  IncludeDepth  \* MAX_INCLUDE_DEPTH

None == "none"
Kinds_ == {"operator", "auth", "connect", "resv", "service", "shared", "cluster", "kill", "deny", "exempt", "gecos"}
LogTypes == {"user", "oper", "kill"}
Cmd == {Adds[m] : m \in Module}

VARIABLES
  conf,         \* what has been read
  lastRead,     \* the name of the file read last
  holds,        \* what clients hold
  disk          \* module files there are, each in a directory; the texts of messages of the day
configVars == <<conf, lastRead, holds, disk>>

-----------------------------------------------------------------------------
(* Files. *)

\* Files included take the place of the line that names them, so deep and no deeper.
Read[f \in DOMAIN Files, depth \in 0..IncludeDepth] ==
  FlattenSeq([i \in DOMAIN Files[f] |->
    LET e == Files[f][i] IN
    IF e.block # "include" THEN <<e>>
    ELSE IF depth = IncludeDepth \/ e.file \notin DOMAIN Files THEN <<>> ELSE Read[e.file, depth + 1]])

\* What a block has said so far.
reset_block_state ==
  [mask |-> <<>>, hub |-> <<>>, leaf |-> <<>>, flags |-> {}, modes |-> {}, privs |-> {}, type |-> {}, port |-> 0, size |-> 0,
   ping_freq |-> 0, max_total |-> 0, max_recvq |-> 0, cidr |-> 0, number_per_cidr |-> 0, min_idle |-> 0, max_idle |-> 0,
   name |-> "", user |-> "", addr |-> "", rpass |-> "", spass |-> "", class |-> "", path |-> "", command |-> "", target |-> ""]

Says(b, i)          == [b EXCEPT ![i.k] = i.v]
Lists(b, i, list)   == [b EXCEPT ![list] = <<i.v>> \o @]
Flags(b, flag, yes) == [b EXCEPT !.flags = IF yes THEN @ \cup {flag} ELSE @ \ {flag}]
Adding(s, kind, x)  == [s EXCEPT !.lists[kind] = <<x>> \o @]

-----------------------------------------------------------------------------
(* Classes. *)

NoClass == [active |-> TRUE, refs |-> 0, ping_freq |-> 1, max_total |-> 1, max_recvq |-> 1, cidr |-> 0,
            number_per_cidr |-> 0, min_idle |-> 0, max_idle |-> 0, flags |-> {}]
class_find(s, name, active) == name \in DOMAIN s.classes /\ (active => s.classes[name].active)
class_free(s, name) == [s EXCEPT !.classes = Restrict(@, DOMAIN @ \ {name})]
class_mark_for_deletion(s) ==
  [s EXCEPT !.classes = [n \in DOMAIN @ |-> IF n = "default" THEN @[n] ELSE [@[n] EXCEPT !.active = FALSE]]]
class_delete_marked(s) ==
  [s EXCEPT !.classes = Restrict(@, {n \in DOMAIN @ : @[n].active \/ @[n].refs > 0})]
\* Clients of the class are counted anew, by as many bits as it has now.
class_ip_limit_rebuild(s, name) ==
  [s EXCEPT !.counted = [c \in Holder |-> IF holds[c].class = name THEN s.classes[name].cidr ELSE @[c]]]

class_entry == [reset_block_state EXCEPT !.ping_freq = 1, !.max_total = 1, !.max_recvq = 1]
class_item(b, i) ==
  CASE i.k = "max_recvq" -> IF i.v \in Bounds.max_recvq[1]..Bounds.max_recvq[2] THEN Says(b, i) ELSE b
    [] i.k = "cidr" -> [b EXCEPT !.cidr = IF i.v > Bounds.cidr[2] THEN Bounds.cidr[2] ELSE i.v]
    [] i.k \in {"min_idle", "max_idle"} -> Flags(Says(b, i), "fake_idle", TRUE)
    [] i.k = "flags" -> [b EXCEPT !.flags = (@ \cap {"fake_idle"}) \cup i.v]
    [] OTHER -> Says(b, i)

\* A class of that name that is still held by clients is taken up again.
class_exit(s, b) ==
  LET old  == IF class_find(s, b.class, FALSE) THEN s.classes[b.class] ELSE NoClass
      idle == b.min_idle <= b.max_idle
      new  == [old EXCEPT !.active = TRUE, !.ping_freq = b.ping_freq, !.max_total = b.max_total,
                          !.max_recvq = b.max_recvq, !.cidr = b.cidr, !.number_per_cidr = b.number_per_cidr,
                          !.min_idle = IF idle THEN b.min_idle ELSE 0, !.max_idle = IF idle THEN b.max_idle ELSE 0,
                          !.flags = IF idle THEN b.flags ELSE b.flags \ {"fake_idle"}]
      t    == [s EXCEPT !.classes = (b.class :> new) @@ @]
  IN IF b.class = "" THEN s ELSE IF old.cidr # b.cidr THEN class_ip_limit_rebuild(t, b.class) ELSE t

conf_add_class_to_conf(s, name) == IF class_find(s, name, TRUE) THEN name ELSE "default"

-----------------------------------------------------------------------------
(* Blocks that make items: what each begins with, what it says, and what is made. *)

oper_entry == [reset_block_state EXCEPT !.flags = {"encrypted"}]
oper_umodes_items(b, i) == [b EXCEPT !.modes = i.v]
oper_flags_items(b, i)  == [b EXCEPT !.privs = i.v]
oper_item(b, i) ==
  CASE i.k = "mask" -> Lists(b, i, "mask")
    [] i.k \in {"encrypted", "tls"} -> Flags(b, i.k, i.v)
    [] i.k = "modes" -> oper_umodes_items(b, i)
    [] i.k = "privs" -> oper_flags_items(b, i)
    [] OTHER -> Says(b, i)
oper_exit(s, b) ==
  IF b.name = "" \/ b.rpass = "" THEN s
  ELSE FoldLeft(LAMBDA t, m : Adding(t, "operator",
                  [name |-> b.name, mask |-> m, passwd |-> b.rpass, flags |-> b.flags, modes |-> b.modes,
                   privs |-> b.privs, class |-> conf_add_class_to_conf(t, b.class)]), s, b.mask)

\* The flags listed take the place of those before, the two that other items set excepted.
auth_flags_items(b, i) == [b EXCEPT !.flags = (@ \cap {"encrypted", "spoof"}) \cup i.v]
auth_item(b, i) ==
  CASE i.k = "mask"  -> Lists(b, i, "mask")
    [] i.k = "encrypted" -> Flags(b, "encrypted", i.v)
    [] i.k = "flags" -> auth_flags_items(b, i)
    [] i.k = "spoof" -> Flags([b EXCEPT !.name = i.v], "spoof", TRUE)
    [] i.k = "name"  -> Flags(Says(b, i), "redir", TRUE)
    [] i.k = "port"  -> Flags(Says(b, i), "redir", TRUE)
    [] OTHER -> Says(b, i)
auth_exit(s, b) ==
  FoldLeft(LAMBDA t, m : Adding(t, "auth",
    [mask |-> m, passwd |-> b.rpass, name |-> b.name, flags |-> b.flags, port |-> b.port,
     class |-> conf_add_class_to_conf(t, b.class)]), s, b.mask)

connect_entry == [reset_block_state EXCEPT !.port = 1]
connect_flags_items(b, i) == [b EXCEPT !.flags = (@ \cap {"encrypted"}) \cup i.v]
connect_item(b, i) ==
  CASE i.k \in {"hub", "leaf"} -> Lists(b, i, i.k)
    [] i.k = "encrypted" -> Flags(b, "encrypted", i.v)
    [] i.k = "flags" -> connect_flags_items(b, i)
    [] OTHER -> Says(b, i)
connect_exit(s, b) ==
  IF "" \in {b.name, b.addr, b.rpass, b.spass} THEN s
  ELSE Adding(s, "connect", [name |-> b.name, host |-> b.addr, passwd |-> b.rpass, spasswd |-> b.spass, port |-> b.port,
                             flags |-> b.flags, hub |-> b.hub, leaf |-> b.leaf, class |-> conf_add_class_to_conf(s, b.class)])

resv_entry == [reset_block_state EXCEPT !.rpass = "no reason"]
resv_item(b, i) == IF i.k = "exempt" THEN Lists(b, i, "mask") ELSE Says(b, i)
resv_exit(s, b) == Adding(s, "resv", [mask |-> b.name, reason |-> b.rpass, exempt |-> b.mask])

shared_entry == [reset_block_state EXCEPT !.name = "*", !.user = "*", !.type = {"all"}]
cluster_entry == [reset_block_state EXCEPT !.name = "*", !.type = {"all"}]
shared_exit(s, b)  == Adding(s, "shared", [server |-> b.name, user |-> b.user, type |-> b.type])
cluster_exit(s, b) == Adding(s, "cluster", [server |-> b.name, type |-> b.type])

Reason(b) == IF b.rpass = "" THEN "no reason" ELSE b.rpass
kill_exit(s, b)  == IF b.user = "" THEN s ELSE Adding(s, "kill", [mask |-> b.user, reason |-> Reason(b)])
deny_exit(s, b)  == IF b.addr = "" THEN s ELSE Adding(s, "deny", [mask |-> b.addr, reason |-> Reason(b)])
gecos_exit(s, b) == IF b.name = "" THEN s ELSE Adding(s, "gecos", [mask |-> b.name, reason |-> Reason(b)])
service_name(s, i) == Adding(s, "service", i.v)
exempt_ip(s, i)    == IF i.v = "" THEN s ELSE Adding(s, "exempt", i.v)

-----------------------------------------------------------------------------
(* Listeners and log files. *)

Closed_ == [open |-> FALSE, refs |-> 0, flags |-> {}]
\* A port that has a listener, closed or not, keeps it.  Without an address two are made.
listener_add(s, port, addr, flags) ==
  LET keys == {<<port, a>> : a \in IF addr = "" THEN {"::", "0.0.0.0"} ELSE {addr}}
  IN [s EXCEPT !.listeners = [k \in DOMAIN @ \cup keys |->
       IF k \notin keys THEN @[k]
       ELSE [IF k \in DOMAIN @ THEN @[k] ELSE Closed_ EXCEPT !.open = TRUE, !.flags = flags]]]
listener_close_marked(s) ==
  [s EXCEPT !.listeners = [k \in {x \in DOMAIN @ : @[x].refs > 0} |-> [@[k] EXCEPT !.open = FALSE]]]

\* Flags are for the port that comes next only; an address is for all that follow.
listen_item(x, i) ==
  CASE i.k = "port" -> [conf |-> listener_add(x.conf, i.v, x.block.addr, x.block.flags), block |-> [x.block EXCEPT !.flags = {}]]
    [] OTHER -> [x EXCEPT !.block = Says(@, i)]

\* Of the types listed each takes the place of the one before.
logging_file_item(b, i) == IF i.k = "type" THEN [b EXCEPT !.type = {Last(i.v)}] ELSE Says(b, i)
logging_file_exit(s, b) ==
  IF b.type = {} \/ b.path = "" THEN s
  ELSE [s EXCEPT !.logs = [t \in LogTypes |-> IF t \in b.type THEN [@[t] EXCEPT !.path = b.path, !.size = b.size] ELSE @[t]]]
log_free(s)   == [s EXCEPT !.logs = [t \in LogTypes |-> [@[t] EXCEPT !.path = ""]]]
log_reopen(s) == [s EXCEPT !.logs = [t \in LogTypes |-> [@[t] EXCEPT !.file = s.logs[t].path]]]

-----------------------------------------------------------------------------
(* Commands, and the modules that add them. *)

\* A command there is already is not added; who takes one away does not ask whose it is.
mod_add_cmd(s, cmd, owner) == [s EXCEPT !.tree[cmd] = IF @ = None THEN owner ELSE @]
mod_del_cmd(s, cmd) == [s EXCEPT !.tree[cmd] = None]

\* Mutation: the command stays when what it is for goes.
pseudo_clear_half(s) == [s EXCEPT !.pseudos = <<>>]
pseudo_register(s, b) ==
  IF "" \in {b.command, b.name, b.target} \/ s.tree[b.command] # None THEN s
  ELSE mod_add_cmd([s EXCEPT !.pseudos = <<[command |-> b.command, name |-> b.name, target |-> b.target]>> \o @],
                   b.command, "pseudo")
pseudo_clear(s) == FoldLeft(LAMBDA t, p : mod_del_cmd(t, p.command), [s EXCEPT !.pseudos = <<>>], s.pseudos)

Loaded(s, m) == m \in ToSet(s.modules)
unload_one_module(s, m) ==
  IF ~Loaded(s, m) THEN s ELSE [mod_del_cmd(s, Adds[m]) EXCEPT !.modules = SelectSeq(@, LAMBDA x : x # m)]
load_a_module(s, m, dir) ==
  IF Loaded(s, m) \/ <<dir, m>> \notin disk.modules THEN s
  ELSE mod_add_cmd([s EXCEPT !.modules = <<m>> \o @], Adds[m], m)
\* The first directory of the configuration that has the file.
load_one_module(s, m) ==
  LET dirs == SelectSeq(s.paths, LAMBDA d : <<d, m>> \in disk.modules)
  IN IF dirs = <<>> THEN s ELSE load_a_module(s, m, Head(dirs))
load_all_modules(s)  == FoldLeft(LAMBDA t, m : load_a_module(t, m, "auto"), s, SetToSeq(Module))
load_conf_modules(s) == FoldLeft(LAMBDA t, m : IF Loaded(t, m) THEN t ELSE load_one_module(t, m), s, s.wanted)
\* A core module that does not load, or has been loaded already, ends the server.
load_core_modules(s) ==
  FoldLeft(LAMBDA t, m : IF Loaded(t, m) \/ <<"core", m>> \notin disk.modules THEN [t EXCEPT !.up = FALSE]
                         ELSE load_a_module(t, m, "core"), s, Core)

modules_item(s, i) ==
  IF i.k = "path" THEN [s EXCEPT !.paths = IF i.v \in ToSet(@) THEN @ ELSE <<i.v>> \o @]
  ELSE [s EXCEPT !.wanted = <<i.v>> \o @]
modules_conf_clear(s) == [s EXCEPT !.paths = <<>>, !.wanted = <<>>]

-----------------------------------------------------------------------------
(* Messages of the day: each with what it has read of its file, which is shared. *)

motd_create(s, m, path) ==
  [mask |-> m, path |-> path, cached |-> FALSE,
   type |-> IF m = "" THEN "all" ELSE IF class_find(s, m, TRUE) THEN "class" ELSE "host"]
\* The message itself, or what another of the same file has read.
Cached(s, m) == [m EXCEPT !.cached = m.path \in DOMAIN s.caches \/ disk.motd[m.path] # 0]
motd_cache(s, m) ==
  IF m.cached THEN s
  ELSE IF m.path \in DOMAIN s.caches THEN [s EXCEPT !.caches[m.path].refs = @ + 1]
  ELSE IF disk.motd[m.path] = 0 THEN s
  ELSE [s EXCEPT !.caches = (m.path :> [text |-> disk.motd[m.path], refs |-> 1]) @@ @]
motd_decache(s, m) ==
  IF ~m.cached THEN s
  ELSE IF s.caches[m.path].refs = 1 THEN [s EXCEPT !.caches = Restrict(@, DOMAIN @ \ {m.path})]
  ELSE [s EXCEPT !.caches[m.path].refs = @ - 1]

CacheLocal(s) == [motd_cache(s, s.local) EXCEPT !.local = Cached(s, @)]
CacheRemote(s) == [motd_cache(s, s.remote) EXCEPT !.remote = Cached(s, @)]
DecacheBoth(s) ==
  [motd_decache(motd_decache(s, s.local), s.remote) EXCEPT !.local.cached = FALSE, !.remote.cached = FALSE]
motd_init(s) == CacheRemote(CacheLocal(s))
motd_clear(s) == motd_init([FoldLeft(motd_decache, DecacheBoth(s), s.motds) EXCEPT !.motds = <<>>])
motd_recache(s) ==
  motd_init([FoldLeft(motd_decache, DecacheBoth(s), s.motds) EXCEPT !.motds = [i \in DOMAIN @ |-> [@[i] EXCEPT !.cached = FALSE]]])
motd_exit(s, b) ==
  IF b.path = "" THEN s
  ELSE FoldLeft(LAMBDA t, m : [t EXCEPT !.motds = <<motd_create(t, m, b.path)>> \o @], s, b.mask)

-----------------------------------------------------------------------------
(* Settings. *)

Within(k, v) == IF k \notin DOMAIN Bounds THEN v
                ELSE IF v < Bounds[k][1] THEN Bounds[k][1] ELSE IF v > Bounds[k][2] THEN Bounds[k][2] ELSE v
\* A list of user modes takes the place of the default.
general_oper_umodes(s, i)      == [s EXCEPT !.settings.oper_umodes = i.v]
general_oper_only_umodes(s, i) == [s EXCEPT !.settings.oper_only_umodes = i.v]
general_item(s, i) ==
  CASE i.k = "oper_umodes"      -> general_oper_umodes(s, i)
    [] i.k = "oper_only_umodes" -> general_oper_only_umodes(s, i)
    [] OTHER -> [s EXCEPT !.settings[i.k] = i.v]
channel_item(s, i) == [s EXCEPT !.settings[i.k] = i.v]
admin_item(s, i)   == [s EXCEPT !.settings[i.k] = i.v]
logging_item(s, i) == [s EXCEPT !.settings[i.k] = i.v]
serverinfo_item(s, i) ==
  CASE i.k \in Once -> [s EXCEPT !.settings[i.k] = IF @ = "" THEN i.v ELSE @]
    [] i.k = "description" -> [s EXCEPT !.settings[i.k] = i.v, !.info = i.v]
    [] OTHER -> [s EXCEPT !.settings[i.k] = Within(i.k, i.v)]
\* The delay also starts or stops the event that makes LINKS anew.
serverhide_item(s, i) ==
  IF i.k # "flatten_links_delay" THEN [s EXCEPT !.settings[i.k] = i.v]
  ELSE [s EXCEPT !.settings[i.k] = i.v, !.links_event = IF i.v > 0 THEN i.v ELSE IF @ > 0 THEN 0 ELSE @]

\* Those without a default are texts, forgotten with the old configuration.
conf_set_defaults(s) ==
  log_free([s EXCEPT !.settings = [k \in DOMAIN @ |-> IF k \in DOMAIN Default THEN Default[k] ELSE @[k]]])
conf_validate(s) ==
  [s EXCEPT !.settings.network_name = IF @ = "" THEN Default.network_name ELSE @]

-----------------------------------------------------------------------------
(* Reading. *)

\* A block of the file in the first pass: classes, and settings of general.
FirstPass(s, e) ==
  CASE e.block = "class"   -> class_exit(s, FoldLeft(class_item, class_entry, e.items))
    [] e.block = "general" -> FoldLeft(general_item, s, e.items)
    [] OTHER -> s

Block2(s, e) ==
  LET From(b, Item(_, _)) == FoldLeft(Item, b, e.items)
      All(Item(_, _))     == FoldLeft(Item, s, e.items)
  IN CASE e.block = "general"    -> All(general_item)
       [] e.block = "serverinfo" -> All(serverinfo_item)
       [] e.block = "channel"    -> All(channel_item)
       [] e.block = "serverhide" -> All(serverhide_item)
       [] e.block = "admin"      -> All(admin_item)
       [] e.block = "log"        -> All(logging_item)
       [] e.block = "modules"    -> All(modules_item)
       [] e.block = "service"    -> All(service_name)
       [] e.block = "exempt"     -> All(exempt_ip)
       [] e.block = "operator"   -> oper_exit(s, From(oper_entry, oper_item))
       [] e.block = "auth"       -> auth_exit(s, From(reset_block_state, auth_item))
       [] e.block = "connect"    -> connect_exit(s, From(connect_entry, connect_item))
       [] e.block = "resv"       -> resv_exit(s, From(resv_entry, resv_item))
       [] e.block = "shared"     -> shared_exit(s, From(shared_entry, Says))
       [] e.block = "cluster"    -> cluster_exit(s, From(cluster_entry, Says))
       [] e.block = "kill"       -> kill_exit(s, From(reset_block_state, Says))
       [] e.block = "deny"       -> deny_exit(s, From(reset_block_state, Says))
       [] e.block = "gecos"      -> gecos_exit(s, From(reset_block_state, Says))
       [] e.block = "file"       -> logging_file_exit(s, From(reset_block_state, logging_file_item))
       [] e.block = "pseudo"     -> pseudo_register(s, From(reset_block_state, Says))
       [] e.block = "motd"       -> motd_exit(s, From(reset_block_state,
                                      LAMBDA b, i : IF i.k = "mask" THEN Lists(b, i, "mask") ELSE Says(b, i)))
       [] e.block = "listen"     -> FoldLeft(listen_item, [conf |-> s, block |-> reset_block_state], e.items).conf
       [] OTHER -> s

conf_read(s, f) ==
  LET text == Read[f, 0]
  IN class_delete_marked(conf_validate(FoldLeft(Block2, FoldLeft(FirstPass, conf_set_defaults(s), text), text)))

clear_conf(s) ==
  listener_close_marked(pseudo_clear(motd_clear(modules_conf_clear(class_mark_for_deletion(
    [s EXCEPT !.lists = [k \in Kinds_ |-> <<>>],
              !.settings = [k \in DOMAIN @ |-> IF k \in DOMAIN Default \cup Once THEN @[k] ELSE ""]])))))

\* What is announced to clients is made of the settings.
isupport_add(s) == [s EXCEPT !.isupport = [NICKLEN |-> s.settings.max_nick_length, NETWORK |-> s.settings.network_name,
                                            MAXTARGETS |-> s.settings.max_targets]]
\* A file that cannot be read changes nothing.
conf_read_files(s, f, cold) ==
  IF f \notin DOMAIN Files THEN s ELSE isupport_add(log_reopen(conf_read(IF cold THEN s ELSE clear_conf(s), f)))

rehash(f) == /\ conf.up /\ conf' = load_conf_modules(conf_read_files(conf, f, FALSE))
             /\ lastRead' = (IF f \in DOMAIN Files THEN f ELSE lastRead) /\ UNCHANGED <<holds, disk>>
rehash_motd == conf.up /\ conf' = motd_recache(conf) /\ UNCHANGED <<lastRead, holds, disk>>

-----------------------------------------------------------------------------
(* MODULE, SET, and clients that come, are told the message of the day and go. *)

Changed(s) == conf.up /\ conf' = s /\ UNCHANGED <<lastRead, holds, disk>>
module_load(m)   == ~Loaded(conf, m) /\ Changed(load_one_module(conf, m))
module_unload(m) ==
  Loaded(conf, m) /\ m \notin ToSet(Core) \cup Resident /\ Changed(unload_one_module(conf, m))
\* A core module that does not come back ends the server.
module_reload(m) ==
  LET s == load_one_module(unload_one_module(conf, m), m)
  IN /\ Loaded(conf, m) /\ m \notin Resident
     /\ Changed(IF m \in ToSet(Core) /\ ~Loaded(s, m) THEN [s EXCEPT !.up = FALSE] ELSE s)
ReloadAll == Changed(load_core_modules(load_conf_modules(load_all_modules(
               FoldLeft(unload_one_module, conf, SelectSeq(conf.modules, LAMBDA m : m \notin Resident))))))
quote_autoconn(i, on) ==
  /\ i \in DOMAIN conf.lists["connect"]
  /\ Changed([conf EXCEPT !.lists["connect"][i].flags = IF on THEN @ \cup {"autoconn"} ELSE @ \ {"autoconn"}])

\* The message for a class, for a mask, or for all; read from the file unless it has been.
motd_lookup(s, c) ==
  LET hits == {i \in DOMAIN s.motds : s.motds[i].type = "class" /\ s.motds[i].mask = holds[c].class}
  IN IF hits = {} THEN 0 ELSE CHOOSE i \in hits : \A j \in hits : i <= j
motd_send(c) ==
  LET i == motd_lookup(conf, c) IN
  /\ holds[c].class # ""
  /\ Changed(IF i = 0 THEN CacheLocal(conf) ELSE [motd_cache(conf, conf.motds[i]) EXCEPT !.motds[i] = Cached(conf, @)])

conf_attach(c, i, k) ==
  LET x == conf.lists["auth"][i].class IN
  /\ conf.up /\ holds[c].class = "" /\ i \in DOMAIN conf.lists["auth"] /\ k \in DOMAIN conf.listeners /\ conf.listeners[k].open
  /\ conf.classes[x].refs < conf.classes[x].max_total
  /\ conf' = [conf EXCEPT !.classes[x].refs = @ + 1, !.listeners[k].refs = @ + 1, !.counted[c] = conf.classes[x].cidr]
  /\ holds' = [holds EXCEPT ![c] = [class |-> x, listener |-> k]] /\ UNCHANGED <<lastRead, disk>>

listener_release(s, k) ==
  IF s.listeners[k].refs = 1 /\ ~s.listeners[k].open THEN [s EXCEPT !.listeners = Restrict(@, DOMAIN @ \ {k})]
  ELSE [s EXCEPT !.listeners[k].refs = @ - 1]
conf_detach(c) ==
  LET x == holds[c].class
      s == [conf EXCEPT !.classes[x].refs = @ - 1, !.counted[c] = 0]
      t == IF s.classes[x].refs = 0 /\ ~s.classes[x].active THEN class_free(s, x) ELSE s
  IN /\ x # "" /\ conf' = listener_release(t, holds[c].listener)
     /\ holds' = [holds EXCEPT ![c] = [class |-> "", listener |-> <<>>]] /\ UNCHANGED <<lastRead, disk>>

Edit(d) == disk' = d /\ UNCHANGED <<conf, lastRead, holds>>

Blank(texts) ==
  [settings |-> [k \in DOMAIN Default \cup Once \cup texts |-> ""], lists |-> [k \in Kinds_ |-> <<>>],
   classes |-> ("default" :> NoClass), counted |-> [c \in Holder |-> 0], listeners |-> <<>>,
   logs |-> [t \in LogTypes |-> [path |-> "", size |-> 0, file |-> ""]],
   tree |-> [c \in Cmd |-> None], pseudos |-> <<>>, modules |-> <<>>, paths |-> <<>>, wanted |-> <<>>, up |-> TRUE,
   motds |-> <<>>, caches |-> <<>>, info |-> "", links_event |-> 0, isupport |-> <<>>,
   local |-> [mask |-> "", path |-> "motd", cached |-> FALSE, type |-> "all"],
   remote |-> [mask |-> "", path |-> "motd", cached |-> FALSE, type |-> "all"]]

\* The server starts: its file is read before its modules are loaded.
Boot(f) == load_core_modules(load_conf_modules(load_all_modules(conf_read_files(motd_init(Blank(Texts)), f, TRUE))))
\* on: whether it has come up.
ConfigInit(f, on) ==
  /\ disk = [modules |-> {<<"auto", m>> : m \in Module \ ToSet(Core)} \cup {<<"core", m>> : m \in ToSet(Core)},
             motd |-> [p \in {"motd", "other"} |-> IF p = "motd" THEN 1 ELSE 0]]
  /\ holds = [c \in Holder |-> [class |-> "", listener |-> <<>>]]
  /\ lastRead = f /\ conf = [Boot(f) EXCEPT !.up = @ /\ on]

-----------------------------------------------------------------------------
(* Properties *)

\* What a configuration means: the default class, taken by the next configuration as the
\* last one left it, and what is kept on purpose left out.
Meaning(s) ==
  [settings |-> [k \in DOMAIN s.settings \ Once |-> s.settings[k]], lists |-> [s.lists EXCEPT !["connect"] =
     [i \in DOMAIN @ |-> [@[i] EXCEPT !.flags = @ \ {"autoconn"}]]],
   classes |-> [n \in {x \in DOMAIN s.classes \ {"default"} : s.classes[x].active} |-> [s.classes[n] EXCEPT !.refs = 0]],
   listeners |-> [k \in {x \in DOMAIN s.listeners : s.listeners[x].open} |-> s.listeners[k].flags],
   logs |-> s.logs, paths |-> s.paths, wanted |-> s.wanted, isupport |-> s.isupport,
   motds |-> [i \in DOMAIN s.motds |-> [s.motds[i] EXCEPT !.cached = FALSE]]]

\* A configuration read again means what it would mean to a server just started, whatever
\* was read before it (conf.c:576 and 829, conf_parser.y:1263 and 1456, listener.c:237); classes
\* and listeners dropped from it stay while clients hold them, and no longer, and those who
\* are counted are counted by the bits their class has now (conf_class.c:168 and 240,
\* listener.c:300); a command belongs to a module that is loaded or to a pseudo block
\* (parse.c:563 and 580, conf_pseudo.c:112), and core modules are loaded as long as
\* the server runs (m_module.c:77, modules.c:361); a text of the day is kept while any message of
\* the day uses it (motd.c:98 and 177).
ConfigStands ==
  /\ conf.up => Meaning(conf) = Meaning(conf_read_files(motd_init(Blank(Texts)), lastRead, TRUE))
  /\ \A c \in Holder : holds[c].class # "" => /\ holds[c].class \in DOMAIN conf.classes
                                              /\ conf.counted[c] = conf.classes[holds[c].class].cidr
                                              /\ holds[c].listener \in DOMAIN conf.listeners
  /\ \A n \in DOMAIN conf.classes :
       LET of == {c \in Holder : holds[c].class = n}
       IN conf.classes[n].refs = Cardinality(of) /\ (conf.classes[n].active \/ of # {})
  /\ \A k \in DOMAIN conf.listeners :
       LET of == {c \in Holder : holds[c].listener = k}
       IN conf.listeners[k].refs = Cardinality(of) /\ (conf.listeners[k].open \/ of # {})
  /\ \A c \in Cmd : \/ conf.tree[c] \in {None} \cup ToSet(conf.modules)
                    \/ conf.tree[c] = "pseudo" /\ \E i \in DOMAIN conf.pseudos : conf.pseudos[i].command = c
  /\ conf.up => ToSet(Core) \cup Resident \subseteq ToSet(conf.modules)
  /\ LET all == <<conf.local, conf.remote>> \o conf.motds
         of(p) == Cardinality({i \in DOMAIN all : all[i].cached /\ all[i].path = p})
     IN /\ \A i \in DOMAIN all : all[i].cached => all[i].path \in DOMAIN conf.caches
        /\ \A p \in DOMAIN conf.caches : conf.caches[p].refs = of(p) /\ of(p) > 0
=============================================================================
