----------------------------- MODULE MCChannel -----------------------------
(***************************************************************************)
(* Channel for TLC, on the line a - b - c.  A run starts from each of some *)
(* Worlds: the servers that may link (net), those linked and at rest at     *)
(* first (up), the channel each has where its users are (old), the users   *)
(* who act (users) and of them those who stay on the channel once they are  *)
(* there (stay), the mode changes they may ask for (changes), the clocks,  *)
(* and how often they and the network may do what (left).                  *)
(***************************************************************************)
EXTENDS Channel

CONSTANTS a, b, c, u1, u2, u3, u4, nt, i, k1, k2,
          Worlds      \* the names of the worlds of the run

VARIABLES world, left
mcvars == <<vars, world, left>>

Behind(s, t) == CASE <<s, t>> = <<a, b>> -> {b, c} [] <<s, t>> = <<c, b>> -> {a, b}
                  [] <<s, t>> = <<b, a>> -> {a} [] <<s, t>> = <<b, c>> -> {c} [] OTHER -> {}
Line   == [s \in Server |-> [t \in Server |-> Behind(s, t)]]
MCHome == [u \in Uid |-> CASE u = u1 -> a [] u = u3 -> c [] OTHER -> b]
Bans   == [k \in Mask |-> IF k = k1 THEN {u1} ELSE {u2, u3}]
MCClock == [s \in Server |-> 1 .. 3]
Ages   == [s \in Server |-> CASE s = a -> {2} [] s = b -> {1, 3} [] OTHER -> {2, 3}]
Ticks  == [s \in Server |-> {1, 2}]

Of(modes) == {d \in Change : d.mode \in modes}
Plus(D)   == {d \in D : d.add}

\* The channel made by u at time ts.
Made(u, ts) == [NoChannel EXCEPT !.ts = ts, !.members = {u}, !.ops = {u}, !.modes = Initial]
None  == [s \in Server |-> NoChannel]
\* Every server its own, made at different times.
Split == [s \in Server |-> CASE s = a -> Made(u1, 2) [] s = b -> Made(u2, 1) [] OTHER -> Made(u3, 3)]
\* That of a is older than the one b and c have.
Rival == [s \in Server |-> IF s = a THEN Made(u1, 2) ELSE Made(u3, 3)]
\* The same everywhere, with three users on it, two of them operators.
Joint == [s \in Server |-> [Made(u1, 2) EXCEPT !.members = {u1, u2, u3}, !.ops = {u1, u3}]]
\* The same everywhere, with one user of b.
Lone  == [s \in Server |-> Made(u2, 2)]

Left(join, part, kick, mode, exit, kill, link, loss) ==
  [join |-> join, part |-> part, kick |-> kick, mode |-> mode, exit |-> exit, kill |-> kill,
   link |-> link, loss |-> loss]

Apart  == [net |-> {a, b, c}, up |-> {}, old |-> Split, users |-> {u1, u2, u3}, stay |-> {u1, u2, u3},
           changes |-> {}, clock |-> Ticks, left |-> Left(0, 0, 0, 0, 0, 0, 0, 0)]
Linked == [Apart EXCEPT !.up = {a, b, c}, !.old = Joint, !.stay = {}]

World == [
  \* Two versions merge, part and merge again, under joins and mode changes.
  pair    |-> [Apart EXCEPT !.net = {a, b}, !.users = {u1, u2, u4}, !.stay = {u1, u2},
                            !.changes = Plus(Change), !.left = Left(2, 0, 0, 2, 0, 0, 2, 1)],
  \* Three versions merge along the line.
  line    |-> [Apart EXCEPT !.changes = Plus(Change), !.left = Left(0, 0, 0, 2, 0, 0, 2, 0)],
  \* Members come and go on linked servers.
  members |-> [Linked EXCEPT !.left = Left(2, 2, 0, 0, 1, 1, 0, 0)],
  \* They do while a link goes and comes back.
  relink  |-> [Linked EXCEPT !.left = Left(2, 1, 0, 0, 1, 0, 1, 1)],
  \* Operators of both ends change modes, bans and statuses.
  linked  |-> [Linked EXCEPT !.stay = {u1, u3}, !.changes = Change, !.left = Left(0, 0, 1, 2, 0, 0, 0, 0)],
  \* From nothing, on two servers that split.
  splits  |-> [Apart EXCEPT !.net = {a, b}, !.old = None, !.users = {u1, u2}, !.stay = {},
                            !.changes = Of({"o"}), !.left = Left(3, 1, 0, 2, 0, 0, 2, 1)],
  kicks   |-> [Apart EXCEPT !.net = {a, b}, !.old = None, !.users = {u1, u2}, !.stay = {},
                            !.changes = Of({"o"}), !.left = Left(3, 0, 1, 2, 0, 0, 2, 1)],
  \* The last member leaves and comes back while another joins.
  rejoin  |-> [Apart EXCEPT !.up = {a, b}, !.old = Lone, !.users = {u1, u2}, !.stay = {}, !.clock = Ages,
                            !.changes = Plus(Of({"b"})), !.left = Left(2, 1, 0, 1, 0, 0, 0, 0)],
  \* A burst of the older version meets a KILL of its user.
  killed  |-> [Apart EXCEPT !.up = {b, c}, !.old = Rival, !.stay = {u3},
                            !.left = Left(0, 0, 0, 0, 0, 1, 1, 0)]]

MCInit ==
  /\ world \in Worlds
  /\ LET w == World[world]
     IN /\ left = w.left
        /\ srv = [s \in Server |->
             [link  |-> {t \in w.up : s \in w.up /\ Line[s][t] # {}},
              users |-> {u \in w.users : Home[u] = s \/ {s, Home[u]} \subseteq w.up},
              ch    |-> w.old[s]]]
        /\ earned = {<<u, w.old[s].ts>> : <<s, u>> \in {p \in Server \X Uid : p[2] \in w.old[p[1]].ops}}
  /\ wire = [x \in Server |-> [y \in Server |-> <<>>]]

Spend(k) == left[k] > 0 /\ left' = [left EXCEPT ![k] = @ - 1]

MCUsers ==
  \E s \in Server, u \in Uid :
    LET leaves == u \notin World[world].stay
    IN \/ Spend("join") /\ \E now \in World[world].clock[s] : channel_do_join(s, u, now)
       \/ leaves /\ Spend("part") /\ m_part(s, u)
       \/ leaves /\ Spend("exit") /\ exit_local(s, u)
       \/ leaves /\ Spend("kill") /\ mo_kill(s, u)
       \/ Spend("kick") /\ \E v \in Uid \ World[world].stay : m_kick(s, u, v)
       \/ Spend("mode") /\ \E d \in World[world].changes : m_mode(s, u, d)

MCNetwork ==
  \E s, t \in World[world].net :
    \/ Spend("link") /\ server_estab(s, t)
    \/ Spend("loss") /\ lose_link(s, t)

MCNext == ((System /\ UNCHANGED left) \/ MCUsers \/ MCNetwork) /\ UNCHANGED world

MCSpec == MCInit /\ [][MCNext]_mcvars
=============================================================================
