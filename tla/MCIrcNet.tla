------------------------------ MODULE MCIrcNet ------------------------------
(***************************************************************************)
(* IrcNet for TLC.  A run starts from each of some Worlds: the servers that *)
(* may connect (net), those linked at first, as a star around b, and at    *)
(* rest (members), the users registered at first (online), those who may   *)
(* use KILL and SQUIT (opers), the nicknames each may ask for (names), the *)
(* clocks, and how often the environment may do what (left).               *)
(***************************************************************************)
EXTENDS IrcNet

CONSTANTS a, b, c, d, u1, u2, u3, m1, M1, m2, m3,
          Worlds      \* the names of the worlds of the run

VARIABLES world, left
mcvars == <<vars, world, left>>

MCHome  == [u \in Uid |-> CASE u = u1 -> a [] u = u2 -> b [] OTHER -> c]
MCFold  == [n \in Nick |-> IF n = M1 THEN m1 ELSE n]
Strangers == [u \in Uid |-> u]
Same12  == [u \in Uid |-> IF u = u2 THEN u1 ELSE u]
HubMasks  == [s \in Server |-> Server \cap (CASE s = a -> {b, c, d} [] s = b -> {a, c}
                                           [] s = c -> {a, b, d} [] OTHER -> {})]
LeafMasks == [s \in Server |-> Server \cap (IF s = c THEN {d} ELSE {})]

\* The times of all clocks; what is asked for under which names.
Now       == [s \in Server |-> 1 .. 2]
Ages      == [s \in Server |-> CASE s = a -> {3} [] s = b -> {2} [] OTHER -> {1}]
MCClock   == [s \in Server |-> 1 .. 3]
Only(U, N) == [u \in Uid |-> IF u \in U THEN N ELSE {}]
Reserved(N) == [u \in Uid |-> IF u = u3 THEN {m3} ELSE N]
Cased     == [u \in Uid |-> CASE u = u1 -> {m1, M1} [] u = u2 -> {m1, m2} [] OTHER -> {m3}]
Rivals    == [u \in Uid |-> CASE u = u1 -> {m2} [] u = u2 -> {m1, m2} [] OTHER -> {m1}]

Left(connect, loss, nick, exit, kill, squit) ==
  [connect |-> connect, loss |-> loss, nick |-> nick, exit |-> exit, kill |-> kill, squit |-> squit]

Alone == [net |-> {a, b, c}, members |-> {}, online |-> {}, opers |-> {},
          names |-> Only({}, {}), clock |-> Now, left |-> Left(0, 0, 0, 0, 0, 0)]
Row   == [Alone EXCEPT !.members = {a, b, c}]
Guard == [Row EXCEPT !.online = {u3}, !.opers = {u3}]

World == [
  \* Two servers that burst, split and burst again; users with the same user@host, or not.
  kin      |-> [Alone EXCEPT !.net = {a, b}, !.names = Only({u1, u2}, {m1, m2}),
                             !.left = Left(3, 1, 4, 1, 0, 0)],
  strangers |-> [Alone EXCEPT !.net = {b, c}, !.names = Only({u2, u3}, {m1, m2}),
                             !.left = Left(3, 1, 4, 1, 0, 0)],
  \* Names taken on three servers at once, and a KILL.
  star     |-> [Guard EXCEPT !.names = Cased, !.left = Left(0, 0, 4, 0, 1, 0)],
  \* Three users, two names, fixed ages.
  rivals   |-> [Row EXCEPT !.names = Rivals, !.clock = Ages, !.left = Left(0, 0, 5, 0, 0, 0)],
  \* Operators cut the row apart.
  squit    |-> [Guard EXCEPT !.online = {u1, u3}, !.names = Reserved({m1, m2}),
                             !.left = Left(0, 0, 2, 1, 0, 2)],
  \* All may connect to all.
  triangle |-> [Alone EXCEPT !.left = Left(4, 2, 0, 0, 0, 0)],
  \* A fourth server that a's hub_mask allows, b's does not and c's leaf_mask denies.
  masks    |-> [Row EXCEPT !.net = {a, b, c, d}, !.online = {u1}, !.left = Left(1, 1, 0, 0, 0, 0)],
  \* KILL and SQUIT, and a reconnection of what they parted.
  relink   |-> [Guard EXCEPT !.names = Reserved({m1}), !.left = Left(1, 0, 1, 0, 1, 1)],
  \* An operator who loses a collision after a KILL.
  killed   |-> [Alone EXCEPT !.members = {a, b}, !.online = {u1, u2}, !.opers = {u2},
                             !.names = Only({u1, u2}, {m1, m2, m3}), !.left = Left(0, 0, 3, 0, 1, 0)]]

Center == b
FirstName(u) == CASE u = u1 -> m1 [] u = u2 -> m2 [] OTHER -> m3

Joined(M, s, t) == s # t /\ Center \in {s, t} /\ {s, t} \subseteq M
Star(M, U) ==
  [s \in Server |->
    [user |-> [u \in Uid |-> IF u \in U /\ s \in M THEN [reg |-> "client", nick |-> FirstName(u), ts |-> 1]
                             ELSE NoUser],
     path |-> [x \in Server |-> CASE x = s -> {s} [] Joined(M, s, x) -> {x}
                                  [] {s, x} \subseteq M -> {x, Center} [] OTHER -> {}],
     from |-> [x \in Server |-> IF {s, x} \subseteq M \ {Center} /\ x # s THEN Center ELSE x],
     link |-> [x \in Server |-> IF Joined(M, s, x) THEN "server" ELSE "none"]]]

\* With no members this is Init.
MCInit ==
  /\ world \in Worlds
  /\ left = World[world].left
  /\ srv = Star(World[world].members, World[world].online)
  /\ chan = [s \in Server |-> [t \in Server |-> <<>>]]
  /\ born = World[world].online

Spend(k) == left[k] > 0 /\ left' = [left EXCEPT ![k] = @ - 1]

MCEnvironment ==
  \/ \E s \in Server, u \in Uid :
       \/ \E n \in World[world].names[u], now \in World[world].clock[s] :
            Spend("nick") /\ (mr_nick(s, u, n, now) \/ m_nick(s, u, n, now))
       \/ World[world].names[u] # {} /\ mr_user(s, u) /\ UNCHANGED left
       \/ Spend("exit") /\ exit_local(s, u)
       \/ u \in World[world].opers /\ Spend("kill") /\ \E v \in Uid : mo_kill(s, u, v)
       \/ u \in World[world].opers /\ Spend("squit") /\ \E x \in Server : mo_squit(s, u, x)
  \/ \E s, t \in World[world].net :
       \/ Spend("connect") /\ server_connect(s, t)
       \/ Spend("loss") /\ lose_link(s, t)

MCNext == ((System /\ UNCHANGED left) \/ MCEnvironment) /\ UNCHANGED world

MCFairness == \A s, t \in Server :
  /\ WF_mcvars(Receive(s, t) /\ UNCHANGED <<world, left>>)
  /\ WF_mcvars(Closed(s, t) /\ UNCHANGED <<world, left>>)

MCSpec == MCInit /\ [][MCNext]_mcvars /\ MCFairness

\* Among rivals, u2 is the only user whom the timestamp rules may take a nickname
\* from: u3 is older than the stranger that asks for m1, u1 newer than u2 who has
\* the same user@host.
RightfulOwners ==
  [][world = "rivals" =>
       \A u \in {u1, u3} : IsClient(srv[Home[u]], u) => IsClient(srv[Home[u]], u)']_vars

=============================================================================
