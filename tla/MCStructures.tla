---------------------------- MODULE MCStructures -----------------------------
(***************************************************************************)
(* The structures a server is built on, for TLC, each in a world of its own. *)
(***************************************************************************)
EXTENDS Buffers, Patricia, Events, TLC

CONSTANTS ca, cb, cv, uv, uw, e1, e2, e3, Worlds

VARIABLES world, left, tick
mcvars == <<net, patriciaVars, eventsVars, world, left, tick>>

\* ca and cb are users and their connections, cv a server with two users behind it.
FromOf == ca :> ca @@ cb :> cb @@ cv :> cv @@ uv :> cv @@ uw :> cv
UserList == <<ca, cb, uv, uw>>
Rooms == <<<<ca, uv, uw>>, <<ca, cb, uv>>>>
OperList == <<ca>>
ServerList == <<uv, uw>>

\* One socket takes a part and then does something; the others take all.
Part(takes, then) == [takes |-> takes, then |-> then]
All == Part(9, "reads")
Only(c, part) == [x \in Client |-> IF x = c THEN part ELSE All]
Sockets == {Only(ca, part) : part \in {Part(0, "blocks"), Part(1, "blocks"), Part(1, "fails")}}
           \cup {Only(cv, part) : part \in {Part(0, "blocks"), Part(1, "fails"), Part(2, "reads")}}

\* In "said" ca is yet to register; the others take what they are sent of it.
Is == [c \in Client |-> IF c = cv THEN "server" ELSE IF c = ca /\ world = "said" THEN "unknown" ELSE "client"]

\* The first message goes to one user, the second to many, the last by any function.
SendsOne(m, sock) == {sendto_one(net, u, m, sock) : u \in {ca, uw}}
SendsMany(m, sock) ==
  UNION {{sendto_channel_butone(net, one, from, ms, skip, m, sock) :
            one \in {ca, cv}, from \in {ca, uv}, ms \in ToSet(Rooms), skip \in {{}, {cb}}},
         {sendto_common_channels_local(net, u, t, skip, m, sock) : u \in {ca, uv}, t \in BOOLEAN, skip \in {{}, {ca}}}}
SendsOther(m, sock) ==
  UNION {{sendto_server(net, one, skip, m, sock) : one \in {ca, cv}, skip \in {{}, {cv}}},
         {sendto_channel_local(net, one, ms, skip, m, sock) : one \in {ca, cv}, ms \in ToSet(Rooms), skip \in {{}, {cb}}},
         {sendto_match_butone(net, one, from, {}, m, sock) : one \in {ca, cv}, from \in {ca, uv}},
         {sendto_match_servs(net, from, {}, m, sock) : from \in {ca, uv}},
         {sendto_anywhere(net, u, from, m, sock) : u \in {cb, uw}, from \in {ca, uv}},
         {sendto_realops_flags(net, {}, <<m, "local">>, sock)}}
Sends(n, sock) ==
  LET m == <<n, "text">> IN
  CASE n = 3 -> SendsOne(m, sock)
    [] n = 2 -> SendsMany(m, sock)
    [] n = 1 -> SendsOne(m, sock) \cup SendsMany(m, sock) \cup SendsOther(m, sock)

\* Addresses that part at the first bit, the second and the third.
Addresses == {<<0, 0, 0>>, <<0, 0, 1>>, <<0, 1, 1>>, <<1, 0, 1>>}
Periods == e1 :> 1 @@ e2 :> 2 @@ e3 :> 1
Spend(k) == left[k] > 0 /\ left' = [left EXCEPT ![k] = @ - 1]

World == [send |-> [texts |-> 3], said |-> [ends |-> 1], flood |-> [ends |-> 1], trie |-> [add |-> 4, drop |-> 2], events |-> [x |-> 0]]

\* One may quit or end with some of what it was sent still queued.
SendWorld ==
  \/ Spend("texts") /\ \E s \in UNION {Sends(left.texts, sock) : sock \in Sockets} : net' = s
  \/ \E sock \in Sockets :
    \/ Spend("texts") /\ \E c \in {ca, cv}, x \in {<<"q", "n">>, <<>>} : read_packet(c, x, sock)
    \/ UNCHANGED left /\ (exit_aborted_clients(sock) \/ \E c \in {d \in Client : sock[d] # All} : sendq_unblocked(c, sock))

\* In "said" all there is to say in so many letters, in "flood" more of it, line by line.
Said == IF world = "said" THEN SeqOf({"n", "r", "s", "g", "q"}, 2) \ {<<>>}
        ELSE {<<"m", "n">>, <<"m">>, <<"g", "n">>, <<"m", "n", "a", "n">>}
SaidWorld ==
  \/ /\ UNCHANGED left
     /\ \E x \in Said, part \in {Part(1, "fails"), All} :
          /\ world = "said" => Len(net.conn[ca].received) + Len(x) <= 5
          /\ read_packet(ca, x, Only(ca, part))
  \/ Spend("ends") /\ \E c \in (IF world = "said" THEN {ca} ELSE Client) : read_packet(c, <<>>, Only(c, All))
  \/ UNCHANGED left /\ exit_aborted_clients(Only(ca, All))

TrieWorld ==
  \/ Spend("add") /\ \E p \in Masked : class_ip_limit_add(p, left.add > 2)
  \/ Spend("drop") /\ \/ \E x \in Address : class_ip_limit_remove(x) \/ ipcache_record_remove(x)
                      \/ patricia_clear

MCInit == /\ world \in Worlds /\ tick = 0 /\ left = World[world]
          /\ BuffersInit(Is) /\ PatriciaInit /\ EventsInit
Steps ==
  \/ world = "send" /\ SendWorld /\ UNCHANGED <<patriciaVars, eventsVars>>
  \/ world \in {"said", "flood"} /\ SaidWorld /\ UNCHANGED <<patriciaVars, eventsVars>>
  \/ world = "trie" /\ TrieWorld /\ UNCHANGED <<net, eventsVars>>
  \/ world = "events" /\ EventsNext /\ UNCHANGED <<net, patriciaVars, left>>
Timer == /\ world \in {"said", "flood"} /\ flood_recalc(ca, Only(ca, All)) /\ tick' = 1 - tick
         /\ UNCHANGED <<patriciaVars, eventsVars, left>>
MCNext == UNCHANGED world /\ (Timer \/ (Steps /\ UNCHANGED tick))

\* The timer of a connection runs every second, as long as the connection has one.
Fairness == []<>~net.conn[ca].timer \/ []<><<tick' # tick>>_tick
MCSpec == MCInit /\ [][MCNext]_mcvars /\ Fairness
=============================================================================
