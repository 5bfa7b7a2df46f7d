----------------------------- MODULE BansProofs -----------------------------
(***************************************************************************)
(* What holds of Bans for any connections, masks, configurations and clock, *)
(* whatever fails while the databases are saved.                            *)
(***************************************************************************)
EXTENDS Bans, ListLemmas

-----------------------------------------------------------------------------
(* The records. *)

\* Only what was set while the server runs is in a database, and no block of the configuration is.
Entry == {b \in MaskItem : b.db => b.kind \in Kept}
Configured == {b \in MaskItem : ~b.db}

\* A table loses records, but no exempt block.
Thins(r, bs) ==
  /\ r \in Seq(Entry) /\ ToSet(r) \subseteq ToSet(bs)
  /\ \A b \in ToSet(bs) : b.kind = "exempt" => b \in ToSet(r)

\* What is picked is there, and no exempt block is left out.
LEMMA PickedThins ==
  ASSUME NEW bs \in Seq(Entry), NEW S, S \subseteq DOMAIN bs, NEW r, r = Picked(bs, S),
         \A i \in DOMAIN bs : bs[i].kind = "exempt" => i \in S
  PROVE  Thins(r, bs)
<1>1. r \in Seq(Entry) /\ ToSet(r) = {bs[i] : i \in S}
  BY PickedAre
<1>2. ToSet(bs) = {bs[i] : i \in DOMAIN bs}
  BY Elements
<1> QED BY <1>1, <1>2 DEF Thins

LEMMA ThinsTwice ==
  ASSUME NEW a, NEW b, NEW c, Thins(b, a), Thins(c, b)
  PROVE  Thins(c, a)
BY DEF Thins

\* The record found is of the kind and has one of the masks; when none is found there is none.
LEMMA AddressFound ==
  ASSUME NEW bs \in Seq(Entry), NEW k, NEW masks, NEW i, i = find_conf_by_address(bs, k, masks)
  PROVE  /\ i = 0 \/ (i \in DOMAIN bs /\ bs[i].kind = k /\ bs[i].mask \in masks)
         /\ i = 0 => \A j \in DOMAIN bs : ~(bs[j].kind = k /\ bs[j].mask \in masks)
<1> DEFINE hits == {j \in DOMAIN bs : IsA(bs[j], k) /\ bs[j].mask \in masks}
<1>1. Len(bs) \in Nat /\ DOMAIN bs = 1..Len(bs)
  BY Elements
<1>2. \A j \in DOMAIN bs : j \in hits <=> bs[j].kind = k /\ bs[j].mask \in masks
  BY DEF IsA
<1>3. hits \subseteq 1..Len(bs)
  BY <1>1
<1>4. i = IF hits = {} THEN 0 ELSE CHOOSE x \in hits : \A j \in hits : x <= j
  BY DEF find_conf_by_address
<1> HIDE DEF hits
<1>5. CASE hits = {}
  BY <1>2, <1>4, <1>5
<1>6. CASE hits # {}
  <2>1. \E x \in hits : \A j \in hits : x <= j
    BY <1>1, <1>3, <1>6, Extremes
  <2>2. i \in hits
    BY <1>4, <1>6, <2>1
  <2>3. i \in 1..Len(bs)
    BY <1>3, <2>2
  <2> QED BY <1>1, <1>2, <2>2, <2>3
<1> QED BY <1>5, <1>6

LEMMA Matches ==
  ASSUME NEW bs \in Seq(Entry), NEW k, NEW w
  PROVE  matches(bs, k, w) <=> \E b \in ToSet(bs) : b.kind = k /\ w \in b.mask
<1> DEFINE i == find_conf_by_address(bs, k, Against(w))
<1>1. /\ i = 0 \/ (i \in DOMAIN bs /\ bs[i].kind = k /\ bs[i].mask \in Against(w))
      /\ i = 0 => \A j \in DOMAIN bs : ~(bs[j].kind = k /\ bs[j].mask \in Against(w))
  BY AddressFound
<1>2. matches(bs, k, w) <=> i # 0
  BY DEF matches
<1> HIDE DEF i
<1>3. /\ ToSet(bs) = {bs[j] : j \in DOMAIN bs} /\ DOMAIN bs = 1..Len(bs)
      /\ \A j \in DOMAIN bs : bs[j] \in Entry
  BY Elements
<1>4. \A j \in DOMAIN bs : bs[j].mask \in Against(w) <=> w \in bs[j].mask
  <2> TAKE j \in DOMAIN bs
  <2>1. bs[j].mask \in SUBSET Who
    BY <1>3 DEF Entry, MaskItem
  <2>2. w \in bs[j].mask => bs[j].mask \in (SUBSET Who) \ {{}}
    BY <2>1
  <2> QED BY <2>2 DEF Against, Mask
<1>5. 0 \notin DOMAIN bs
  BY <1>3
<1> QED BY <1>1, <1>2, <1>3, <1>4, <1>5

\* The lists are walked: expired items go, and when none is found none is in force.
Found(f, bs, k, t, masks) ==
  /\ Thins(f.bans, bs) /\ f.hit \in Nat
  /\ f.hit # 0 => f.hit \in DOMAIN f.bans
  /\ f.hit = 0 => \A j \in DOMAIN bs : ~(bs[j].kind = k /\ ~Expired(bs[j], t) /\ bs[j].mask \in masks)
LEMMA ListFound ==
  ASSUME NEW bs \in Seq(Entry), NEW k, k # "exempt", NEW t, NEW masks, NEW f, f = list_find(bs, k, t, masks)
  PROVE  Found(f, bs, k, t, masks)
<1> DEFINE hits == {i \in DOMAIN bs : IsA(bs[i], k) /\ ~Expired(bs[i], t) /\ bs[i].mask \in masks}
           hit  == IF hits = {} THEN 0 ELSE CHOOSE i \in hits : \A j \in hits : j <= i
           met  == {i \in DOMAIN bs : i > hit /\ IsA(bs[i], k) /\ Expired(bs[i], t)}
           rest == DOMAIN bs \ met
<1>1. Len(bs) \in Nat /\ DOMAIN bs = 1..Len(bs)
  BY Elements
<1>2. f.bans = Picked(bs, rest) /\ f.hit = Rank(rest, hit)
  BY DEF list_find, Rank
<1>3. \A j \in DOMAIN bs : j \in hits <=> bs[j].kind = k /\ ~Expired(bs[j], t) /\ bs[j].mask \in masks
  BY DEF IsA
<1>4. hits \subseteq 1..Len(bs)
  BY <1>1
<1>5. rest \subseteq DOMAIN bs /\ (\A i \in DOMAIN bs : bs[i].kind = "exempt" => i \in rest) /\ \A i \in hits : i \in rest
  BY DEF IsA
<1>6. hits # {} => hit \in hits
  <2>1. hits # {} => \E i \in hits : \A j \in hits : j <= i
    <3> HIDE DEF hits
    <3> QED BY <1>1, <1>4, Extremes
  <2> QED BY <2>1
<1>7. hits = {} => hit = 0
  OBVIOUS
<1> HIDE DEF hits, hit, rest
<1>8. Thins(f.bans, bs)
  BY <1>2, <1>5, PickedThins
<1>9. CASE hits = {}
  <2> DEFINE A == {j \in rest : j <= 0}
  <2>1. A = {}
    BY <1>1, <1>5
  <2>2. f.hit = 0
    <3> HIDE DEF A
    <3>1. Cardinality(A) = 0
      BY <2>1, FS_EmptySet
    <3> QED BY <3>1, <1>2, <1>7, <1>9 DEF Rank, A
  <2> QED BY <1>3, <1>8, <1>9, <2>2 DEF Found
<1>10. CASE hits # {}
  <2>1. /\ \A i \in rest : Rank(rest, i) \in 1..Len(f.bans)
        /\ f.bans \in Seq(Entry)
    BY <1>2, <1>5, PickedAre
  <2>2. Rank(rest, hit) \in 1..Len(f.bans)
    BY <1>5, <1>6, <1>10, <2>1
  <2>3. DOMAIN f.bans = 1..Len(f.bans) /\ Len(f.bans) \in Nat
    BY <2>1, Elements
  <2>4. f.hit \in Nat /\ f.hit # 0 /\ f.hit \in DOMAIN f.bans
    BY <1>2, <2>2, <2>3
  <2> QED BY <1>8, <2>4 DEF Found
<1> QED BY <1>9, <1>10

\* A record of the table that is in a database is removed.
LEMMA RemovedThins ==
  ASSUME NEW bs \in Seq(Entry), NEW i \in DOMAIN bs, bs[i].db
  PROVE  Thins(RemoveAt(bs, i), bs)
<1> DEFINE r == RemoveAt(bs, i)
<1>1. Len(bs) \in Nat /\ DOMAIN bs = 1..Len(bs) /\ ToSet(bs) = {bs[j] : j \in DOMAIN bs} /\ bs[i] \in Entry
  BY Elements
<1>2. i \in 1..Len(bs)
  BY <1>1
<1>3. /\ r \in Seq(Entry) /\ Len(r) = Len(bs) - 1
      /\ \A k \in 1..Len(r) : r[k] = IF k < i THEN bs[k] ELSE bs[k + 1]
  BY <1>2, Removed
<1> HIDE DEF r
<1>4. Len(r) \in Nat /\ DOMAIN r = 1..Len(r) /\ ToSet(r) = {r[j] : j \in DOMAIN r}
  BY <1>3, Elements
<1>5. \A k \in DOMAIN r : \E j \in DOMAIN bs : r[k] = bs[j]
  <2> TAKE k \in DOMAIN r
  <2>1. k \in DOMAIN bs /\ k + 1 \in DOMAIN bs
    BY <1>1, <1>3, <1>4
  <2>2. r[k] = bs[k] \/ r[k] = bs[k + 1]
    BY <1>3, <1>4
  <2> QED BY <2>1, <2>2
<1>6. \A j \in DOMAIN bs : j # i => \E k \in DOMAIN r : r[k] = bs[j]
  <2> TAKE j \in DOMAIN bs
  <2> HAVE j # i
  <2>1. CASE j < i
    <3>1. j \in 1..Len(r)
      BY <2>1, <1>1, <1>2, <1>3
    <3> QED BY <2>1, <3>1, <1>3, <1>4
  <2>2. CASE j > i
    <3>1. j - 1 \in 1..Len(r) /\ ~(j - 1 < i) /\ (j - 1) + 1 = j
      BY <2>2, <1>1, <1>2, <1>3
    <3>2. r[j - 1] = bs[j]
      BY <3>1, <1>3
    <3> QED BY <3>1, <3>2, <1>4
  <2> QED BY <2>1, <2>2, <1>1
<1>7. bs[i].kind # "exempt"
  BY <1>1 DEF Entry, Kept
<1>8. \A b \in ToSet(bs) : b.kind = "exempt" => b \in ToSet(r)
  BY <1>1, <1>4, <1>6, <1>7
<1>9. ToSet(r) \subseteq ToSet(bs)
  BY <1>1, <1>4, <1>5
<1> QED BY <1>3, <1>8, <1>9 DEF r, Thins

-----------------------------------------------------------------------------
(* Bans and one connection. *)

\* An exemption comes with registration.
Connection ==
  {c \in [is : {"none", "unknown", "client"}, who : Who \cup {NoClient.who}, exempt : SUBSET {"kline", "xline"}] :
     c.is # "client" => c.exempt = {}}

\* No record of B that is in force at t is against the connection.
Hits(b, c, t) ==
  c.who \in b.mask /\ (b.kind = "dline" \/ (c.is = "client" /\ (b.kind = "kline" \/ (b.kind = "xline" /\ ~Expired(b, t)))))
Spared(B, c) == c.is = "none" \/ c.exempt # {} \/ \E b \in B : b.kind = "exempt" /\ c.who \in b.mask
Safe(B, c, t) == Spared(B, c) \/ \A b \in B : ~Hits(b, c, t)

LEMMA NoOne == NoClient \in Connection /\ \A B, t : Safe(B, NoClient, t)
BY DEF NoClient, Connection, Safe, Spared

\* What a table loses and time passing do not bring a connection under a ban.
LEMMA ThinsSafe ==
  ASSUME NEW bs \in Seq(Entry), NEW r, Thins(r, bs), NEW c, NEW t \in Nat, NEW u \in Nat, t <= u,
         Safe(ToSet(bs), c, t)
  PROVE  Safe(ToSet(r), c, u)
<1>1. Spared(ToSet(bs), c) => Spared(ToSet(r), c)
  BY DEF Spared, Thins
<1>2. ASSUME NEW b \in ToSet(r), Hits(b, c, u) PROVE b \in ToSet(bs) /\ Hits(b, c, t)
  <2>1. b \in ToSet(bs)
    BY DEF Thins
  <2>2. b.until \in Nat
    BY <2>1, Elements DEF Entry, MaskItem
  <2>3. Expired(b, t) => Expired(b, u)
    BY <2>2 DEF Expired
  <2> QED BY <1>2, <2>1, <2>3 DEF Hits
<1> QED BY <1>1, <1>2 DEF Safe

\* conf_try_ban lets go those it does not spare.
LEMMA TriedBan ==
  ASSUME NEW bs \in Seq(Entry), NEW c \in Connection, NEW k, NEW r, r = conf_try_ban(bs, c, k)
  PROVE  r = NoClient \/ (r = c /\ Spared(ToSet(bs), c))
<1>1. matches(bs, "exempt", c.who) <=> \E b \in ToSet(bs) : b.kind = "exempt" /\ c.who \in b.mask
  BY Matches
<1> QED BY <1>1 DEF conf_try_ban, Spared

\* A connection as a new ban leaves it.
Checked(bs, c, b) ==
  IF /\ c.who \in b.mask
     /\ \/ b.kind \in {"kline", "xline"} /\ c.is = "client"
        \/ b.kind = "dline" /\ c.is \in {"client", "unknown"}
  THEN conf_try_ban(bs, c, b.kind) ELSE c

LEMMA CheckIs ==
  ASSUME NEW bs, NEW cs \in [Slot -> Connection], NEW b
  PROVE  check(bs, cs, b) = [s \in Slot |-> Checked(bs, cs[s], b)]
<1> USE DEF check, Checked, Tried
<1>1. CASE b.kind = "kline"
  BY <1>1 DEF kline_check
<1>2. CASE b.kind = "dline"
  BY <1>2 DEF dline_check
<1>3. CASE b.kind = "xline"
  BY <1>3 DEF xline_check
<1>4. CASE b.kind \notin {"kline", "dline", "xline"}
  BY <1>4
<1> QED BY <1>1, <1>2, <1>3, <1>4

LEMMA CheckedSafe ==
  ASSUME NEW bs \in Seq(Entry), NEW c \in Connection, NEW b \in Entry, NEW B, NEW t,
         ToSet(bs) = B \cup {b}, Safe(B, c, t), NEW r, r = Checked(bs, c, b)
  PROVE  r \in Connection /\ Safe(ToSet(bs), r, t)
<1>1. r = NoClient \/ r = c
  BY TriedBan DEF Checked
<1>2. CASE r = NoClient
  BY <1>2, NoOne
<1>3. CASE r = c
  <2>1. CASE Spared(B, c)
    BY <1>3, <2>1 DEF Safe, Spared
  <2>2. CASE \A o \in B : ~Hits(o, c, t)
    <3>1. CASE Hits(b, c, t) /\ c.is # "none"
      <4>1. /\ c.who \in b.mask
            /\ \/ b.kind \in {"kline", "xline"} /\ c.is = "client"
               \/ b.kind = "dline" /\ c.is \in {"client", "unknown"}
        BY <3>1 DEF Hits, Connection
      <4>2. r = conf_try_ban(bs, c, b.kind)
        BY <4>1 DEF Checked
      <4>3. r # NoClient
        BY <1>3, <3>1 DEF NoClient
      <4> QED BY <1>3, <4>2, <4>3, TriedBan DEF Safe
    <3>2. CASE c.is = "none"
      BY <1>3, <3>2 DEF Safe, Spared
    <3>3. CASE ~Hits(b, c, t)
      BY <1>3, <2>2, <3>3 DEF Safe
    <3> QED BY <3>1, <3>2, <3>3
  <2> QED BY <2>1, <2>2 DEF Safe
<1> QED BY <1>1, <1>2, <1>3

-----------------------------------------------------------------------------
(* The inductive invariant. *)

StoredOf(k) == {b \in Entry : b.kind = k /\ b.db}
Same(a, b) == Len(a) = Len(b) /\ ToSet(a) = ToSet(b)
File(T) == [records : Nat, data : Seq(T)]

TypeInv ==
  /\ now \in Nat /\ up \in BOOLEAN /\ bans \in Seq(Entry) /\ clients \in [Slot -> Connection]
  /\ file \in [Kept -> File(Entry)] /\ temp \in [Kept -> File(Entry)] /\ kept \in [Kept -> Seq(Entry)]
  /\ job \in [todo : Seq(Kept), left : Seq(Entry), open : BOOLEAN, exits : BOOLEAN]

Enforced == \A s \in Slot : Safe(ToSet(bans), clients[s], now)

\* While the server is down nothing is connected or saved; a save under way has a database to write.
Whole == /\ ~up => job = Idle /\ \A s \in Slot : clients[s].is = "none"
         /\ job # Idle => up /\ job.todo # <<>>

\* A file holds what it announces, which is what was kept.
FileSound(k) == /\ file[k].data \in Seq(StoredOf(k)) /\ file[k].records = Len(file[k].data)
                /\ Same(file[k].data, kept[k])

\* What is written and what is left to write are what is to be saved.
Written(f, left, bs, k) ==
  /\ f.data \in Seq(StoredOf(k)) /\ left \in Seq(StoredOf(k))
  /\ f.records = Len(Stored(bs, k)) /\ Len(f.data) + Len(left) = Len(Stored(bs, k))
  /\ ToSet(f.data) \cup ToSet(left) = ToSet(Stored(bs, k))
Writing == job.open => Written(temp[Head(job.todo)], job.left, bans, Head(job.todo))

BansInv == TypeInv /\ Enforced /\ Whole /\ (\A k \in Kept : FileSound(k)) /\ Writing

-----------------------------------------------------------------------------
(* Operations on the tables: no save is under way. *)

LEMMA IdleIs == /\ Idle.open = FALSE /\ Idle.todo = <<>> /\ Idle.left = <<>> /\ Idle.exits = FALSE
                /\ Idle \in [todo : Seq(Kept), left : Seq(Entry), open : BOOLEAN, exits : BOOLEAN]
BY DEF Idle

\* Such an operation has to keep the connections safe from the table.
LEMMA TableStep ==
  ASSUME BansInv, job' = Idle, UNCHANGED <<file, temp, kept>>,
         now' \in Nat, up' \in BOOLEAN, bans' \in Seq(Entry), clients' \in [Slot -> Connection],
         \A s \in Slot : Safe(ToSet(bans'), clients'[s], now'),
         ~up' => \A s \in Slot : clients'[s].is = "none"
  PROVE  BansInv'
<1>1. TypeInv'
  BY IdleIs DEF BansInv, TypeInv
<1>2. Enforced' /\ Whole'
  BY DEF Enforced, Whole
<1>3. \A k \in Kept : FileSound(k)'
  BY DEF BansInv, FileSound
<1>4. Writing'
  BY IdleIs DEF Writing
<1> QED BY <1>1, <1>2, <1>3, <1>4 DEF BansInv

\* One that only thins the table, or lets time pass.
LEMMA ThinStep ==
  ASSUME BansInv, up, job = Idle, UNCHANGED <<up, clients, file, temp, job, kept>>,
         now' \in Nat, now <= now', Thins(bans', bans)
  PROVE  BansInv'
<1>1. bans \in Seq(Entry) /\ now \in Nat /\ clients \in [Slot -> Connection] /\ bans' \in Seq(Entry)
  BY DEF BansInv, TypeInv, Thins
<1>2. \A s \in Slot : Safe(ToSet(bans'), clients[s], now')
  BY <1>1, ThinsSafe DEF BansInv, Enforced
<1> QED BY <1>1, <1>2, TableStep

LEMMA TickStep == BansInv /\ Tick => BansInv'
<1> SUFFICES ASSUME BansInv, Tick PROVE BansInv'
  OBVIOUS
<1>1. now' \in Nat /\ now <= now' /\ Thins(bans', bans)
  BY DEF Tick, BansInv, TypeInv, Thins
<1> QED BY <1>1, ThinStep DEF Tick

LEMMA TryNickStep == \A w \in Who : BansInv /\ TryNick(w) => BansInv'
<1> SUFFICES ASSUME BansInv, NEW w \in Who, TryNick(w) PROVE BansInv'
  OBVIOUS
<1>1. bans \in Seq(Entry) /\ now \in Nat
  BY DEF BansInv, TypeInv
<1>2. Thins(list_find(bans, "resv", now, Against(w)).bans, bans)
  BY <1>1, ListFound DEF Found
<1> QED BY <1>1, <1>2, ThinStep DEF TryNick

LEMMA AcceptStep == \A s \in Slot, w \in Who : BansInv /\ Accept(s, w) => BansInv'
<1> SUFFICES ASSUME BansInv, NEW s \in Slot, NEW w \in Who, Accept(s, w) PROVE BansInv'
  OBVIOUS
<1> DEFINE c == [is |-> "unknown", who |-> w, exempt |-> {}]
<1>1. bans \in Seq(Entry) /\ now \in Nat /\ clients \in [Slot -> Connection] /\ up \in BOOLEAN
  BY DEF BansInv, TypeInv
<1>2. c \in Connection /\ c.who = w /\ c.is # "client"
  BY DEF Connection
<1>3. clients' = [clients EXCEPT ![s] = c] /\ up /\ job = Idle /\ UNCHANGED <<now, up, bans, file, temp, job, kept>>
  BY DEF Accept
<1>4. Safe(ToSet(bans), c, now)
  <2>1. matches(bans, "exempt", w) \/ ~matches(bans, "dline", w)
    BY DEF Accept, find_dline_conf
  <2> HIDE DEF c
  <2> QED BY <1>1, <1>2, <2>1, Matches DEF Safe, Spared, Hits
<1> HIDE DEF c
<1>5. clients' \in [Slot -> Connection] /\ \A x \in Slot : Safe(ToSet(bans'), clients'[x], now')
  BY <1>1, <1>2, <1>3, <1>4 DEF BansInv, Enforced
<1> QED BY <1>1, <1>3, <1>5, TableStep

LEMMA RegisterStep == \A s \in Slot : BansInv /\ Register(s) => BansInv'
<1> SUFFICES ASSUME BansInv, NEW s \in Slot, Register(s) PROVE BansInv'
  OBVIOUS
<1> DEFINE w     == clients[s].who
           block == find_conf_by_address(bans, "auth", Against(w))
           found == list_find(bans, "xline", now, Against(w))
           spare == IF block = 0 THEN {} ELSE bans[block].exempt
           killed == block = 0 \/ ("kline" \notin spare /\ matches(bans, "kline", w))
           xlined == "xline" \notin spare /\ found.hit # 0
           c == IF killed \/ xlined THEN NoClient ELSE [clients[s] EXCEPT !.is = "client", !.exempt = spare]
<1>1. bans \in Seq(Entry) /\ now \in Nat /\ clients \in [Slot -> Connection] /\ up \in BOOLEAN
  BY DEF BansInv, TypeInv
<1>2. /\ clients' = [clients EXCEPT ![s] = c] /\ clients[s].is = "unknown"
      /\ bans' = bans \/ bans' = found.bans
      /\ up /\ job = Idle /\ UNCHANGED <<now, up, file, temp, job, kept>>
  BY DEF Register
<1>3. Found(found, bans, "xline", now, Against(w))
  BY <1>1, ListFound
<1>4. Thins(bans', bans)
  BY <1>1, <1>2, <1>3 DEF Thins, Found
<1>5. spare \in SUBSET {"kline", "xline"}
  <2>1. block = 0 \/ block \in DOMAIN bans
    BY <1>1, AddressFound
  <2>2. block # 0 => bans[block] \in Entry
    BY <1>1, <2>1, Elements
  <2> HIDE DEF block
  <2> QED BY <2>2 DEF Entry, MaskItem
<1>6. clients[s] \in Connection
  BY <1>1
<1>7. c \in Connection
  <2> HIDE DEF killed, xlined, spare
  <2> QED BY <1>5, <1>6, NoOne DEF Connection
<1>8. Safe(ToSet(bans), c, now)
  <2>1. CASE killed \/ xlined
    BY <2>1, NoOne
  <2>2. CASE ~(killed \/ xlined) /\ spare # {}
    <3>1. c.exempt = spare
      BY <1>6, <2>2 DEF Connection
    <3> HIDE DEF c, spare
    <3> QED BY <2>2, <3>1 DEF Safe, Spared
  <2>3. CASE ~(killed \/ xlined) /\ spare = {}
    <3>1. c.who = w /\ c.is = "client" /\ ~matches(bans, "kline", w) /\ found.hit = 0
      BY <1>6, <2>3 DEF Connection
    <3>2. \A b \in ToSet(bans) : w \in b.mask => b.kind # "kline" /\ (b.kind = "xline" => Expired(b, now))
      <4> SUFFICES ASSUME NEW b \in ToSet(bans), w \in b.mask
                   PROVE  b.kind # "kline" /\ (b.kind = "xline" => Expired(b, now))
        OBVIOUS
      <4>1. b.kind # "kline"
        BY <1>1, <3>1, Matches
      <4>2. PICK j \in DOMAIN bans : b = bans[j]
        BY <1>1, Elements
      <4>3. b \in Entry
        BY <1>1, Elements
      <4>4. b.mask \in (SUBSET Who) \ {{}}
        BY <4>3 DEF Entry, MaskItem
      <4>5. bans[j].mask \in Against(w)
        BY <4>2, <4>4 DEF Against, Mask
      <4> HIDE DEF found, w
      <4> QED BY <1>3, <3>1, <4>1, <4>2, <4>5 DEF Found
    <3>3. Safe(ToSet(bans), clients[s], now)
      BY DEF BansInv, Enforced
    <3>4. CASE Spared(ToSet(bans), clients[s]) /\ clients[s].exempt = {}
      <4>1. \E b \in ToSet(bans) : b.kind = "exempt" /\ w \in b.mask
        BY <1>2, <3>4 DEF Spared
      <4> HIDE DEF c, w
      <4> QED BY <3>1, <4>1 DEF Safe, Spared
    <3>5. CASE ~Spared(ToSet(bans), clients[s])
      <4>1. \A b \in ToSet(bans) : w \in b.mask => b.kind # "dline"
        BY <3>3, <3>5 DEF Safe, Hits
      <4> HIDE DEF c, w
      <4> QED BY <3>1, <3>2, <4>1 DEF Safe, Hits
    <3>6. clients[s].exempt = {}
      BY <1>2, <1>6 DEF Connection
    <3> QED BY <3>4, <3>5, <3>6
  <2> QED BY <2>1, <2>2, <2>3
<1> HIDE DEF c
<1>9. \A x \in Slot : Safe(ToSet(bans), clients'[x], now)
  BY <1>1, <1>2, <1>8 DEF BansInv, Enforced
<1>10. bans' \in Seq(Entry) /\ clients' \in [Slot -> Connection]
  BY <1>1, <1>2, <1>4, <1>7 DEF Thins
<1>11. \A x \in Slot : Safe(ToSet(bans'), clients'[x], now')
  BY <1>1, <1>2, <1>4, <1>9, ThinsSafe
<1> QED BY <1>1, <1>2, <1>10, <1>11, TableStep

LEMMA Appended ==
  ASSUME NEW T, NEW a \in Seq(T), NEW e \in T
  PROVE  Append(a, e) \in Seq(T) /\ Len(Append(a, e)) = Len(a) + 1 /\ ToSet(Append(a, e)) = ToSet(a) \cup {e}
<1> DEFINE r == Append(a, e)
<1>1. r \in Seq(T) /\ Len(r) = Len(a) + 1 /\ (\A i \in 1..Len(a) : r[i] = a[i]) /\ r[Len(a) + 1] = e
  BY AppendProperties
<1> HIDE DEF r
<1>2. Len(a) \in Nat /\ ToSet(a) = {a[i] : i \in 1..Len(a)} /\ ToSet(r) = {r[i] : i \in 1..Len(r)}
  BY <1>1, Elements
<1>3. \A i \in 1..Len(r) : i \in 1..Len(a) \/ i = Len(a) + 1
  BY <1>1, <1>2
<1>4. \A i \in 1..Len(a) : i \in 1..Len(r)
  BY <1>1, <1>2
<1>5. Len(a) + 1 \in 1..Len(r)
  BY <1>1, <1>2
<1>6. ToSet(r) \subseteq ToSet(a) \cup {e}
  BY <1>1, <1>2, <1>3
<1>7. ToSet(a) \subseteq ToSet(r) /\ e \in ToSet(r)
  BY <1>1, <1>2, <1>4, <1>5
<1> QED BY <1>1, <1>6, <1>7 DEF r

\* A new ban is tried on all.
LEMMA SetStep ==
  ASSUME BansInv, NEW k \in Kept, NEW q \in Mask, NEW d \in Nat, NEW found, Thins(found.bans, bans),
         SetBan(k, q, d, found)
  PROVE  BansInv'
<1> DEFINE b == [kind |-> k, mask |-> q, db |-> TRUE, exempt |-> {}, until |-> IF d = 0 THEN 0 ELSE now + d]
<1>1. bans \in Seq(Entry) /\ now \in Nat /\ clients \in [Slot -> Connection] /\ found.bans \in Seq(Entry)
  BY DEF BansInv, TypeInv, Thins
<1>2. b \in Entry
  BY <1>1 DEF Entry, MaskItem, Mask, Kinds
<1>3. /\ up /\ job = Idle /\ UNCHANGED <<now, up, file, temp, job, kept>>
      /\ \/ bans' = found.bans /\ UNCHANGED clients
         \/ bans' = Append(found.bans, b) /\ clients' = check(bans', clients, b)
  BY DEF SetBan
<1> HIDE DEF b
<1>4. CASE bans' = found.bans /\ UNCHANGED clients
  BY <1>1, <1>3, <1>4, ThinStep
<1>5. CASE bans' = Append(found.bans, b) /\ clients' = check(bans', clients, b)
  <2>1. bans' \in Seq(Entry) /\ ToSet(bans') = ToSet(found.bans) \cup {b}
    BY <1>1, <1>2, <1>5, Appended
  <2>2. clients' = [s \in Slot |-> Checked(bans', clients[s], b)]
    <3>1. check(bans', clients, b) = [s \in Slot |-> Checked(bans', clients[s], b)]
      BY <1>1, CheckIs
    <3> QED BY <1>5, <3>1
  <2>3. \A s \in Slot : Safe(ToSet(found.bans), clients[s], now)
    BY <1>1, ThinsSafe DEF BansInv, Enforced
  <2>4. ASSUME NEW s \in Slot PROVE clients'[s] \in Connection /\ Safe(ToSet(bans'), clients'[s], now')
    <3>1. clients[s] \in Connection /\ clients'[s] = Checked(bans', clients[s], b) /\ Safe(ToSet(found.bans), clients[s], now)
      BY <1>1, <2>2, <2>3
    <3>2. now' = now
      BY <1>3
    <3> QED BY <1>2, <2>1, <3>1, <3>2, CheckedSafe
  <2>5. clients' \in [Slot -> Connection]
    BY <2>2, <2>4
  <2> QED BY <1>1, <1>3, <2>1, <2>4, <2>5, TableStep
<1> QED BY <1>3, <1>4, <1>5

LEMMA HandleStep ==
  ASSUME BansInv, NEW src, NEW q \in Mask, NEW d \in Nat,
         kline_handle(src, q, d) \/ dline_handle(src, q, d) \/ xline_handle(src, q, d) \/ resv_handle(src, q, d)
  PROVE  BansInv'
<1>1. bans \in Seq(Entry) /\ Thins(bans, bans)
  BY DEF BansInv, TypeInv, Thins
<1>2. CASE kline_handle(src, q, d)
  <2>1. find_address("kline", q).bans = bans /\ "kline" \in Kept
    BY DEF find_address, Kept
  <2>2. SetBan("kline", q, d, find_address("kline", q))
    BY <1>2 DEF kline_handle
  <2> QED BY <1>1, <2>1, <2>2, SetStep
<1>3. CASE dline_handle(src, q, d)
  <2>1. find_address("dline", q).bans = bans /\ "dline" \in Kept
    BY DEF find_address, Kept
  <2>2. SetBan("dline", q, d, find_address("dline", q))
    BY <1>3 DEF dline_handle
  <2> QED BY <1>1, <2>1, <2>2, SetStep
<1>4. CASE xline_handle(src, q, d)
  <2>1. Thins(gecos_match(q).bans, bans) /\ "xline" \in Kept
    BY <1>1, ListFound DEF gecos_match, Kept, Found
  <2>2. SetBan("xline", q, d, gecos_match(q))
    BY <1>4 DEF xline_handle
  <2> QED BY <2>1, <2>2, SetStep
<1>5. CASE resv_handle(src, q, d)
  <2>1. Thins(resv_same(q).bans, bans) /\ "resv" \in Kept
    BY <1>1, ListFound DEF resv_same, Kept, Found
  <2>2. SetBan("resv", q, d, resv_same(q))
    BY <1>5 DEF resv_handle
  <2> QED BY <2>1, <2>2, SetStep
<1> QED BY <1>2, <1>3, <1>4, <1>5

\* Only what is in a database is removed, so no exempt block is.
LEMMA LiftStep ==
  ASSUME BansInv, NEW found, Thins(found.bans, bans), NEW without,
         found.hit # 0 /\ found.bans[found.hit].db => Thins(without, found.bans),
         LiftBan(found, without)
  PROVE  BansInv'
<1>1. now \in Nat
  BY DEF BansInv, TypeInv
<1>2. Thins(bans', bans)
  BY ThinsTwice DEF LiftBan
<1> QED BY <1>1, <1>2, ThinStep DEF LiftBan

LEMMA RemoveStep ==
  ASSUME BansInv, NEW q \in Mask, kline_remove(q) \/ dline_remove(q) \/ xline_remove(q) \/ resv_remove(q)
  PROVE  BansInv'
<1>1. bans \in Seq(Entry) /\ Thins(bans, bans)
  BY DEF BansInv, TypeInv, Thins
<1>2. ASSUME NEW k, NEW f, f = find_address(k, q), LiftBan(f, delete_one_address_conf(bans, q, f.hit))
      PROVE  BansInv'
  <2>1. f.bans = bans /\ f.hit = find_conf_by_address(bans, k, Queried(q))
    BY <1>2 DEF find_address
  <2>2. f.hit # 0 => f.hit \in DOMAIN bans
    BY <1>1, <2>1, AddressFound
  <2>3. f.hit # 0 /\ bans[f.hit].db => Thins(delete_one_address_conf(bans, q, f.hit), bans)
    BY <1>1, <2>2, RemovedThins DEF delete_one_address_conf
  <2> QED BY <1>1, <1>2, <2>1, <2>3, LiftStep
<1>3. ASSUME NEW k, k # "exempt", NEW f, f = list_find(bans, k, now, {q}), LiftBan(f, RemoveAt(f.bans, f.hit))
      PROVE  BansInv'
  <2>1. Thins(f.bans, bans) /\ (f.hit # 0 => f.hit \in DOMAIN f.bans)
    BY <1>1, <1>3, ListFound DEF Found
  <2>2. f.hit # 0 /\ f.bans[f.hit].db => Thins(RemoveAt(f.bans, f.hit), f.bans)
    BY <2>1, RemovedThins DEF Thins
  <2> QED BY <1>3, <2>1, <2>2, LiftStep
<1>4. CASE kline_remove(q)
  BY <1>2, <1>4 DEF kline_remove
<1>5. CASE dline_remove(q)
  BY <1>2, <1>5 DEF dline_remove
<1>6. CASE xline_remove(q)
  BY <1>3, <1>6 DEF xline_remove, gecos_same
<1>7. CASE resv_remove(q)
  BY <1>3, <1>7 DEF resv_remove, resv_same
<1> QED BY <1>4, <1>5, <1>6, <1>7

LEMMA CommandStep == BansInv /\ Commands => BansInv'
<1> SUFFICES ASSUME BansInv, Commands PROVE BansInv'
  OBVIOUS
<1>1. CASE \E q \in Mask : OperLifts(q) \/ \E src \in {"service", "user"} : RemoteLifts(src, q)
  BY <1>1, RemoveStep DEF OperLifts, RemoteLifts, mo_unkline, mo_undline, mo_unxline, mo_unresv,
                          ms_unkline, ms_undline, ms_unxline, ms_unresv
<1>2. CASE \E q \in Mask : OperSets(q, 0) \/ RemoteSets("user", q, 1) \/ RemoteSets("service", q, 0)
  BY <1>2, HandleStep DEF OperSets, RemoteSets, mo_kline, mo_dline, mo_xline, mo_resv, ms_kline, ms_dline, ms_xline, ms_resv
<1> QED BY <1>1, <1>2 DEF Commands

LEMMA CleanupStep == BansInv /\ cleanup_tklines => BansInv'
<1> SUFFICES ASSUME BansInv, cleanup_tklines PROVE BansInv'
  OBVIOUS
<1> DEFINE a == hostmask_expire_temporary(bans)
           b == gecos_expire(a)
           c == resv_expire(b)
<1>1. bans \in Seq(Entry) /\ now \in Nat
  BY DEF BansInv, TypeInv
<1>2. Thins(a, bans)
  BY <1>1, PickedThins DEF hostmask_expire_temporary
<1> HIDE DEF a
<1>3. Thins(b, a)
  <2>1. a \in Seq(Entry)
    BY <1>2 DEF Thins
  <2> QED BY <2>1, PickedThins DEF gecos_expire
<1> HIDE DEF b
<1>4. Thins(c, b)
  <2>1. b \in Seq(Entry)
    BY <1>3 DEF Thins
  <2> QED BY <2>1, PickedThins DEF resv_expire
<1> HIDE DEF c
<1>5. Thins(c, bans)
  BY <1>2, <1>3, <1>4, ThinsTwice
<1>6. bans' = c /\ up /\ job = Idle /\ UNCHANGED <<now, up, clients, file, temp, job, kept>>
  BY DEF cleanup_tklines, a, b, c
<1> QED BY <1>1, <1>5, <1>6, ThinStep

LEMMA Joined ==
  ASSUME NEW T, NEW a \in Seq(T), NEW b \in Seq(T)
  PROVE  a \o b \in Seq(T) /\ ToSet(a \o b) = ToSet(a) \cup ToSet(b)
<1> DEFINE r == a \o b
<1>1. /\ r \in Seq(T) /\ Len(r) = Len(a) + Len(b)
      /\ \A i \in 1..(Len(a) + Len(b)) : r[i] = IF i <= Len(a) THEN a[i] ELSE b[i - Len(a)]
  BY ConcatProperties
<1> HIDE DEF r
<1>2. /\ Len(a) \in Nat /\ ToSet(a) = {a[i] : i \in 1..Len(a)}
      /\ Len(b) \in Nat /\ ToSet(b) = {b[i] : i \in 1..Len(b)}
      /\ ToSet(r) = {r[i] : i \in 1..Len(r)}
  BY <1>1, Elements
<1>3. \A i \in 1..Len(r) : (i \in 1..Len(a) /\ r[i] = a[i]) \/ (i - Len(a) \in 1..Len(b) /\ r[i] = b[i - Len(a)])
  <2> TAKE i \in 1..Len(r)
  <2>1. CASE i <= Len(a)
    BY <2>1, <1>1, <1>2
  <2>2. CASE ~(i <= Len(a))
    <3>1. i - Len(a) \in 1..Len(b)
      BY <2>2, <1>1, <1>2
    <3> QED BY <2>2, <3>1, <1>1
  <2> QED BY <2>1, <2>2
<1>4. \A i \in 1..Len(a) : i \in 1..Len(r) /\ r[i] = a[i]
  BY <1>1, <1>2
<1>5. \A i \in 1..Len(b) : i + Len(a) \in 1..Len(r) /\ r[i + Len(a)] = b[i]
  <2> TAKE i \in 1..Len(b)
  <2>1. i + Len(a) \in 1..(Len(a) + Len(b)) /\ ~(i + Len(a) <= Len(a)) /\ (i + Len(a)) - Len(a) = i
    BY <1>2
  <2> QED BY <2>1, <1>1
<1>6. ToSet(r) \subseteq ToSet(a) \cup ToSet(b)
  BY <1>2, <1>3
<1>7. ToSet(a) \subseteq ToSet(r) /\ ToSet(b) \subseteq ToSet(r)
  BY <1>2, <1>4, <1>5
<1> QED BY <1>1, <1>6, <1>7 DEF r

LEMMA Configures ==
  ASSUME NEW blocks \in Seq(Configured)
  PROVE  blocks \in Seq(Entry)
<1>1. Configured \subseteq Entry
  BY DEF Configured, Entry
<1> QED BY <1>1, SeqMonotonic

\* After a rehash whoever is left is under no ban.
LEMMA Rechecked ==
  ASSUME NEW bs \in Seq(Entry), NEW cs \in [Slot -> Connection], NEW t, NEW s \in Slot
  PROVE  check_conf_klines(bs, cs, t)[s] \in Connection /\ Safe(ToSet(bs), check_conf_klines(bs, cs, t)[s], t)
<1> DEFINE c == cs[s]
           x == list_find(bs, "xline", t, Against(c.who)).hit
           r == IF c.is = "none" THEN c
                ELSE IF matches(bs, "dline", c.who) THEN conf_try_ban(bs, c, "dline")
                ELSE IF c.is = "unknown" THEN c
                ELSE IF matches(bs, "kline", c.who) THEN conf_try_ban(bs, c, "kline")
                ELSE IF x # 0 THEN conf_try_ban(bs, c, "xline") ELSE c
<1>1. check_conf_klines(bs, cs, t)[s] = r
  BY DEF check_conf_klines
<1>2. c \in Connection
  OBVIOUS
<1>3. \A k : LET d == conf_try_ban(bs, c, k) IN d = NoClient \/ (d = c /\ Spared(ToSet(bs), c))
  BY <1>2, TriedBan
<1>4. Found(list_find(bs, "xline", t, Against(c.who)), bs, "xline", t, Against(c.who))
  BY ListFound
<1> HIDE DEF c, x
<1>5. r = NoClient \/ (r = c /\ Safe(ToSet(bs), c, t))
  <2>1. CASE c.is = "none"
    BY <2>1 DEF Safe, Spared
  <2>2. CASE c.is # "none" /\ matches(bs, "dline", c.who)
    BY <2>2, <1>3 DEF Safe
  <2>3. CASE c.is = "unknown" /\ ~matches(bs, "dline", c.who)
    BY <2>3, Matches DEF Safe, Hits
  <2>4. CASE c.is = "client" /\ ~matches(bs, "dline", c.who) /\ matches(bs, "kline", c.who)
    BY <2>4, <1>3 DEF Safe
  <2>5. CASE c.is = "client" /\ ~matches(bs, "dline", c.who) /\ ~matches(bs, "kline", c.who) /\ x # 0
    BY <2>5, <1>3 DEF Safe
  <2>6. CASE c.is = "client" /\ ~matches(bs, "dline", c.who) /\ ~matches(bs, "kline", c.who) /\ x = 0
    <3>1. \A b \in ToSet(bs) : c.who \in b.mask => b.kind # "dline" /\ b.kind # "kline"
      BY <2>6, Matches
    <3>2. ASSUME NEW b \in ToSet(bs), c.who \in b.mask, b.kind = "xline" PROVE Expired(b, t)
      <4>1. PICK j \in DOMAIN bs : b = bs[j]
        BY Elements
      <4>2. b.mask \in (SUBSET Who) \ {{}}
        BY <3>2, Elements DEF Entry, MaskItem
      <4>3. bs[j].mask \in Against(c.who)
        BY <3>2, <4>1, <4>2 DEF Against, Mask
      <4> QED BY <1>4, <2>6, <3>2, <4>1, <4>3 DEF Found, x
    <3>3. \A b \in ToSet(bs) : ~Hits(b, c, t)
      BY <3>1, <3>2 DEF Hits
    <3> QED BY <2>6, <3>3 DEF Safe
  <2>7. c.is \in {"none", "unknown", "client"}
    BY <1>2 DEF Connection
  <2> QED BY <2>1, <2>2, <2>3, <2>4, <2>5, <2>6, <2>7
<1> HIDE DEF r
<1> QED BY <1>1, <1>2, <1>5, NoOne

LEMMA RehashStep == \A blocks \in Seq(Configured) : BansInv /\ conf_rehash(blocks) => BansInv'
<1> SUFFICES ASSUME BansInv, NEW blocks \in Seq(Configured), conf_rehash(blocks) PROVE BansInv'
  OBVIOUS
<1>1. bans \in Seq(Entry) /\ clients \in [Slot -> Connection] /\ now \in Nat /\ blocks \in Seq(Entry)
  BY Configures DEF BansInv, TypeInv
<1> DEFINE a == clear_out_address_conf(bans)
           b == gecos_clear(a)
           c == resv_clear(b)
           d == shared_clear(c)
<1>2. a \in Seq(Entry)
  BY <1>1, PickedAre DEF clear_out_address_conf
<1> HIDE DEF a
<1>3. b \in Seq(Entry)
  BY <1>2, PickedAre DEF gecos_clear
<1> HIDE DEF b
<1>4. c \in Seq(Entry)
  BY <1>3, PickedAre DEF resv_clear
<1> HIDE DEF c
<1>5. d \in Seq(Entry)
  BY <1>4, PickedAre DEF shared_clear
<1> HIDE DEF d
<1>6. bans' = d \o blocks /\ clients' = check_conf_klines(bans', clients, now)
  BY DEF conf_rehash, conf_clear, a, b, c, d
<1>7. up /\ job = Idle /\ UNCHANGED <<now, up, file, temp, job, kept>>
  BY DEF conf_rehash
<1>8. bans' \in Seq(Entry)
  BY <1>1, <1>5, <1>6, Joined
<1>9. \A s \in Slot : clients'[s] \in Connection /\ Safe(ToSet(bans'), clients'[s], now')
  BY <1>1, <1>6, <1>7, <1>8, Rechecked
<1>10. clients' \in [Slot -> Connection]
  <2>1. DOMAIN clients' = Slot /\ clients' = [s \in DOMAIN clients' |-> clients'[s]]
    BY <1>6 DEF check_conf_klines
  <2> QED BY <1>9, <2>1
<1> QED BY <1>1, <1>7, <1>8, <1>9, <1>10, TableStep

-----------------------------------------------------------------------------
(* What is stored, saved and read. *)

LEMMA Retyped ==
  ASSUME NEW T, NEW U, NEW r \in Seq(T), ToSet(r) \subseteq U
  PROVE  r \in Seq(U)
<1>1. Len(r) \in Nat /\ DOMAIN r = 1..Len(r) /\ \A i \in DOMAIN r : r[i] \in ToSet(r)
  BY Elements
<1>2. r = [i \in 1..Len(r) |-> r[i]]
  BY SeqDef
<1>3. r \in [1..Len(r) -> U]
  BY <1>1, <1>2
<1> QED BY <1>1, <1>3, SeqDef

\* The records of a kind that are in a database, by their places.
Places(bs, k) == {i \in DOMAIN bs : bs[i].kind = k /\ bs[i].db}

LEMMA StoredAre ==
  ASSUME NEW bs \in Seq(Entry), NEW k
  PROVE  /\ Stored(bs, k) \in Seq(StoredOf(k)) /\ Stored(bs, k) \in Seq(Entry)
         /\ Len(Stored(bs, k)) = Cardinality(Places(bs, k)) /\ Len(Stored(bs, k)) \in Nat
         /\ ToSet(Stored(bs, k)) = {b \in ToSet(bs) : b.kind = k /\ b.db}
<1> DEFINE r == Stored(bs, k)
           P == Places(bs, k)
<1>1. r = Picked(bs, P) /\ P \subseteq DOMAIN bs
  BY DEF Stored, Places, IsA
<1>2. \A i \in DOMAIN bs : i \in P <=> bs[i].kind = k /\ bs[i].db
  BY DEF Places
<1> HIDE DEF r, P
<1>3. r \in Seq(Entry) /\ Len(r) = Cardinality(P) /\ Cardinality(P) \in Nat /\ ToSet(r) = {bs[i] : i \in P}
  BY <1>1, PickedAre
<1>4. ToSet(bs) = {bs[i] : i \in DOMAIN bs} /\ ToSet(bs) \subseteq Entry
  BY Elements
<1>5. ToSet(r) = {b \in ToSet(bs) : b.kind = k /\ b.db}
  BY <1>1, <1>2, <1>3, <1>4
<1>6. ToSet(r) \subseteq StoredOf(k)
  BY <1>4, <1>5 DEF StoredOf
<1>7. r \in Seq(StoredOf(k))
  BY <1>3, <1>6, Retyped
<1> QED BY <1>3, <1>5, <1>7 DEF r, P

LEMMA ReverseAre ==
  ASSUME NEW T, NEW a \in Seq(T)
  PROVE  Reverse(a) \in Seq(T) /\ Same(Reverse(a), a)
<1> DEFINE r == Reverse(a)
           n == Len(a)
<1>1. n \in Nat /\ DOMAIN a = 1..n /\ (\A i \in 1..n : a[i] \in T) /\ ToSet(a) = {a[i] : i \in 1..n}
  BY Elements
<1> HIDE DEF n
<1>2. \A i \in 1..n : (n - i) + 1 \in 1..n /\ (n - ((n - i) + 1)) + 1 = i
  BY <1>1
<1>3. r = [i \in 1..n |-> a[(n - i) + 1]]
  BY DEF Reverse, n
<1> HIDE DEF r
<1>4. r \in [1..n -> T]
  BY <1>1, <1>2, <1>3
<1>5. r \in Seq(T)
  BY <1>1, <1>4, SeqDef
<1>6. Len(r) \in Nat /\ DOMAIN r = 1..Len(r) /\ ToSet(r) = {r[i] : i \in DOMAIN r}
  BY <1>5, Elements
<1>7. DOMAIN r = 1..n /\ Len(r) = n
  BY <1>1, <1>4, <1>6
<1>8. \A i \in 1..n : r[i] \in ToSet(a)
  BY <1>1, <1>2, <1>3
<1>9. \A i \in 1..n : a[i] = r[(n - i) + 1]
  BY <1>2, <1>3
<1>10. \A i \in 1..n : a[i] \in ToSet(r)
  BY <1>2, <1>6, <1>7, <1>9
<1>11. ToSet(r) \subseteq ToSet(a) /\ ToSet(a) \subseteq ToSet(r)
  BY <1>1, <1>6, <1>7, <1>8, <1>10
<1> QED BY <1>5, <1>7, <1>11 DEF Same, r, n

LEMMA SavedAre ==
  ASSUME NEW bs \in Seq(Entry), NEW k \in Kept
  PROVE  Saved(bs, k) \in Seq(StoredOf(k)) /\ Saved(bs, k) \in Seq(Entry) /\ Same(Saved(bs, k), Stored(bs, k))
<1>1. Saved(bs, k) = Reverse(Stored(bs, k))
  BY DEF Saved, Kept, save_kline_database, save_dline_database, save_xline_database, save_resv_database
<1>2. Stored(bs, k) \in Seq(StoredOf(k)) /\ Stored(bs, k) \in Seq(Entry)
  BY StoredAre
<1> QED BY <1>1, <1>2, ReverseAre

\* A database that holds what it announces is read record by record.
LEMMA RecordsAre ==
  ASSUME NEW k \in Kept, FileSound(k)
  PROVE  Records(k) = file[k].data
<1> DEFINE d == file[k].data
           Read(i) == IF i <= Len(d) THEN d[i] ELSE d[Len(d)]
<1>1. d \in Seq(StoredOf(k)) /\ file[k].records = Len(d)
  BY DEF FileSound
<1>2. Records(k) = IF d = <<>> THEN <<>> ELSE [i \in 1..file[k].records |-> Read(i)]
  BY DEF Records
<1> HIDE DEF d
<1>3. Len(d) \in Nat
  BY <1>1, Elements
<1>4. d = [i \in 1..Len(d) |-> d[i]]
  BY <1>1, SeqDef
<1>5. \A i \in 1..Len(d) : Read(i) = d[i]
  BY <1>3
<1>6. [i \in 1..Len(d) |-> Read(i)] = [i \in 1..Len(d) |-> d[i]]
  BY <1>5
<1> HIDE DEF Read
<1> QED BY <1>1, <1>2, <1>4, <1>6 DEF d

\* What is stored of a table made of two parts is what is stored of one of them when the
\* other stores nothing.
LEMMA StoredLeft ==
  ASSUME NEW a \in Seq(Entry), NEW b \in Seq(Entry), NEW k, \A e \in ToSet(b) : ~(e.kind = k /\ e.db)
  PROVE  Same(Stored(a \o b, k), Stored(a, k))
<1> DEFINE r == a \o b
<1>1. /\ r \in Seq(Entry) /\ Len(r) = Len(a) + Len(b)
      /\ \A i \in 1..(Len(a) + Len(b)) : r[i] = IF i <= Len(a) THEN a[i] ELSE b[i - Len(a)]
  BY ConcatProperties
<1>2. ToSet(r) = ToSet(a) \cup ToSet(b)
  BY Joined
<1> HIDE DEF r
<1>3. /\ Len(a) \in Nat /\ DOMAIN a = 1..Len(a) /\ Len(b) \in Nat /\ DOMAIN b = 1..Len(b)
      /\ DOMAIN r = 1..Len(r) /\ \A i \in DOMAIN b : b[i] \in ToSet(b)
  BY <1>1, Elements
<1>4. \A i \in DOMAIN r : (i \in DOMAIN a /\ r[i] = a[i]) \/ (i \notin DOMAIN a /\ r[i] \in ToSet(b))
  <2> TAKE i \in DOMAIN r
  <2>1. CASE i <= Len(a)
    BY <2>1, <1>1, <1>3
  <2>2. CASE ~(i <= Len(a))
    <3>1. i - Len(a) \in DOMAIN b /\ i \notin DOMAIN a
      BY <2>2, <1>1, <1>3
    <3> QED BY <2>2, <3>1, <1>1, <1>3
  <2> QED BY <2>1, <2>2
<1>5. \A i \in DOMAIN a : i \in DOMAIN r /\ r[i] = a[i]
  BY <1>1, <1>3
<1>6. Places(r, k) = Places(a, k)
  BY <1>4, <1>5 DEF Places
<1>7. Len(Stored(r, k)) = Len(Stored(a, k))
  BY <1>1, <1>6, StoredAre
<1>8. ToSet(Stored(r, k)) = ToSet(Stored(a, k))
  <2>1. ToSet(Stored(r, k)) = {e \in ToSet(r) : e.kind = k /\ e.db}
    BY <1>1, StoredAre
  <2>2. ToSet(Stored(a, k)) = {e \in ToSet(a) : e.kind = k /\ e.db}
    BY StoredAre
  <2>3. \A e \in ToSet(r) : e.kind = k /\ e.db => e \in ToSet(a)
    BY <1>2
  <2> QED BY <1>2, <2>1, <2>2, <2>3
<1> QED BY <1>7, <1>8 DEF Same, r

LEMMA StoredRight ==
  ASSUME NEW a \in Seq(Entry), NEW b \in Seq(Entry), NEW k, \A e \in ToSet(a) : ~(e.kind = k /\ e.db)
  PROVE  Same(Stored(a \o b, k), Stored(b, k))
<1> DEFINE r == a \o b
           n == Len(a)
<1>1. /\ r \in Seq(Entry) /\ Len(r) = n + Len(b)
      /\ \A i \in 1..(n + Len(b)) : r[i] = IF i <= n THEN a[i] ELSE b[i - n]
  BY ConcatProperties
<1>2. ToSet(r) = ToSet(a) \cup ToSet(b)
  BY Joined
<1>3. /\ n \in Nat /\ DOMAIN a = 1..n /\ Len(b) \in Nat /\ DOMAIN b = 1..Len(b)
      /\ DOMAIN r = 1..Len(r) /\ \A i \in DOMAIN a : a[i] \in ToSet(a)
  BY <1>1, Elements
<1> HIDE DEF r, n
<1>4. \A i \in DOMAIN r : (i \in DOMAIN a /\ r[i] = a[i]) \/ (i - n \in DOMAIN b /\ r[i] = b[i - n])
  <2> TAKE i \in DOMAIN r
  <2>1. CASE i <= n
    BY <2>1, <1>1, <1>3
  <2>2. CASE ~(i <= n)
    <3>1. i - n \in DOMAIN b
      BY <2>2, <1>1, <1>3
    <3> QED BY <2>2, <3>1, <1>1, <1>3
  <2> QED BY <2>1, <2>2
<1>5. \A i \in DOMAIN b : i + n \in DOMAIN r /\ r[i + n] = b[i] /\ (i + n) - n = i
  <2> TAKE i \in DOMAIN b
  <2>1. i + n \in 1..(n + Len(b)) /\ ~(i + n <= n) /\ (i + n) - n = i
    BY <1>3
  <2> QED BY <2>1, <1>1, <1>3
<1> DEFINE P == Places(r, k)
           Q == Places(b, k)
           f == [i \in Q |-> i + n]
<1>6. /\ \A i \in P : i - n \in Q /\ i \in Nat
      /\ \A i \in Q : i + n \in P /\ i \in Nat
  BY <1>3, <1>4, <1>5 DEF Places
<1>7. IsFiniteSet(Q) /\ Q \subseteq DOMAIN b
  <2>1. Q \subseteq 1..Len(b)
    BY <1>3 DEF Places
  <2>2. IsFiniteSet(1..Len(b))
    BY <1>3, FS_Interval
  <2> HIDE DEF Q
  <2> QED BY <1>3, <2>1, <2>2, FS_Subset
<1> HIDE DEF P, Q
<1>8. f \in Bijection(Q, P)
  <2>1. f \in [Q -> P]
    BY <1>6
  <2>2. \A i, j \in Q : f[i] = f[j] => i = j
    BY <1>3, <1>6
  <2>3. \A i \in P : i - n \in Q /\ f[i - n] = i
    BY <1>3, <1>6
  <2> HIDE DEF f
  <2> QED BY <2>1, <2>2, <2>3 DEF Bijection, Injection, Surjection, IsInjective
<1>9. Cardinality(P) = Cardinality(Q)
  BY <1>7, <1>8, FS_Bijection DEF ExistsBijection
<1>10. Len(Stored(r, k)) = Len(Stored(b, k))
  BY <1>1, <1>9, StoredAre DEF P, Q
<1>11. ToSet(Stored(r, k)) = ToSet(Stored(b, k))
  <2>1. ToSet(Stored(r, k)) = {e \in ToSet(r) : e.kind = k /\ e.db}
    BY <1>1, StoredAre
  <2>2. ToSet(Stored(b, k)) = {e \in ToSet(b) : e.kind = k /\ e.db}
    BY StoredAre
  <2>3. \A e \in ToSet(r) : e.kind = k /\ e.db => e \in ToSet(b)
    BY <1>2
  <2> QED BY <1>2, <2>1, <2>2, <2>3
<1> QED BY <1>10, <1>11 DEF Same, r

LEMMA StoredAll ==
  ASSUME NEW k, NEW a \in Seq(StoredOf(k)), a \in Seq(Entry)
  PROVE  Same(Stored(a, k), a)
<1>1. Len(a) \in Nat /\ DOMAIN a = 1..Len(a) /\ (\A i \in DOMAIN a : a[i] \in StoredOf(k)) /\ ToSet(a) \subseteq StoredOf(k)
  BY Elements
<1>2. Places(a, k) = 1..Len(a)
  BY <1>1 DEF Places, StoredOf
<1>3. Cardinality(1..Len(a)) = Len(a)
  BY <1>1, FS_Interval
<1>4. ToSet(a) = {b \in ToSet(a) : b.kind = k /\ b.db}
  BY <1>1 DEF StoredOf
<1> QED BY <1>2, <1>3, <1>4, StoredAre DEF Same

-----------------------------------------------------------------------------
(* The start of the server. *)

\* Nothing of a database is in the table / what was kept of it is.
Unread(bs, k) == \A e \in ToSet(bs) : ~(e.kind = k /\ e.db)
Read(bs, k) == Same(Stored(bs, k), kept[k])

\* Reading one database adds its records and leaves those of the others.
LEMMA Loaded ==
  ASSUME BansInv, NEW bs \in Seq(Entry), NEW j \in Kept, Unread(bs, j)
  PROVE  /\ bs \o Records(j) \in Seq(Entry) /\ Read(bs \o Records(j), j)
         /\ \A k \in Kept : k # j => /\ Unread(bs, k) => Unread(bs \o Records(j), k)
                                     /\ Read(bs, k) => Read(bs \o Records(j), k)
<1> DEFINE d == Records(j)
<1>1. d = file[j].data /\ d \in Seq(StoredOf(j)) /\ Same(d, kept[j])
  BY RecordsAre DEF BansInv, FileSound
<1>2. file[j] \in File(Entry)
  BY DEF BansInv, TypeInv
<1>3. d \in Seq(Entry)
  BY <1>1, <1>2 DEF File
<1> HIDE DEF d
<1>4. bs \o d \in Seq(Entry) /\ ToSet(bs \o d) = ToSet(bs) \cup ToSet(d)
  BY <1>3, Joined
<1>5. Same(Stored(bs \o d, j), Stored(d, j)) /\ Same(Stored(d, j), d)
  BY <1>1, <1>3, StoredRight, StoredAll DEF Unread
<1>6. Read(bs \o d, j)
  BY <1>1, <1>5 DEF Read, Same
<1>7. ASSUME NEW k \in Kept, k # j PROVE \A e \in ToSet(d) : ~(e.kind = k /\ e.db)
  <2>1. ToSet(d) \subseteq StoredOf(j)
    BY <1>1, Elements
  <2> QED BY <1>7, <2>1 DEF StoredOf
<1>8. \A k \in Kept : k # j => /\ Unread(bs, k) => Unread(bs \o d, k)
                               /\ Read(bs, k) => Read(bs \o d, k)
  <2> SUFFICES ASSUME NEW k \in Kept, k # j
               PROVE  (Unread(bs, k) => Unread(bs \o d, k)) /\ (Read(bs, k) => Read(bs \o d, k))
    OBVIOUS
  <2>1. \A e \in ToSet(d) : ~(e.kind = k /\ e.db)
    BY <1>7
  <2>2. Same(Stored(bs \o d, k), Stored(bs, k))
    BY <1>3, <2>1, StoredLeft
  <2>3. Unread(bs, k) => Unread(bs \o d, k)
    BY <1>4, <2>1 DEF Unread
  <2>4. Read(bs, k) => Read(bs \o d, k)
    BY <2>2 DEF Read, Same
  <2> QED BY <2>3, <2>4
<1> QED BY <1>4, <1>6, <1>8 DEF d

LEMMA Started ==
  ASSUME BansInv, NEW blocks \in Seq(Configured), Start(blocks)
  PROVE  bans' \in Seq(Entry) /\ \A k \in Kept : Read(bans', k)
<1> DEFINE a == blocks \o Records("kline")
           b == a \o Records("dline")
           c == b \o Records("xline")
           d == c \o Records("resv")
<1>0. "kline" \in Kept /\ "dline" \in Kept /\ "xline" \in Kept /\ "resv" \in Kept
  BY DEF Kept
<1>1. blocks \in Seq(Entry) /\ \A k : Unread(blocks, k)
  <2>1. ToSet(blocks) \subseteq Configured
    BY Elements
  <2> QED BY <2>1, Configures DEF Unread, Configured
<1>2. a \in Seq(Entry) /\ Unread(a, "dline") /\ Unread(a, "xline") /\ Unread(a, "resv") /\ Read(a, "kline")
  BY <1>0, <1>1, Loaded
<1> HIDE DEF a
<1>3. b \in Seq(Entry) /\ Unread(b, "xline") /\ Unread(b, "resv") /\ Read(b, "kline") /\ Read(b, "dline")
  BY <1>0, <1>2, Loaded
<1> HIDE DEF b
<1>4. c \in Seq(Entry) /\ Unread(c, "resv") /\ Read(c, "kline") /\ Read(c, "dline") /\ Read(c, "xline")
  BY <1>0, <1>3, Loaded
<1> HIDE DEF c
<1>5. d \in Seq(Entry) /\ Read(d, "kline") /\ Read(d, "dline") /\ Read(d, "xline") /\ Read(d, "resv")
  BY <1>0, <1>4, Loaded
<1> HIDE DEF d
<1>6. bans' = d
  BY DEF Start, load_kline_database, load_dline_database, load_xline_database, load_resv_database, a, b, c, d
<1>7. \A k \in Kept : k \in {"kline", "dline", "xline", "resv"}
  BY DEF Kept
<1> QED BY <1>5, <1>6, <1>7

LEMMA StartStep == \A blocks \in Seq(Configured) : BansInv /\ Start(blocks) => BansInv'
<1> SUFFICES ASSUME BansInv, NEW blocks \in Seq(Configured), Start(blocks) PROVE BansInv'
  OBVIOUS
<1>1. ~up /\ up' = TRUE /\ UNCHANGED <<now, clients, file, temp, job, kept>>
  BY DEF Start
<1>2. job = Idle /\ (\A s \in Slot : clients[s].is = "none") /\ now \in Nat /\ clients \in [Slot -> Connection]
  BY <1>1 DEF BansInv, TypeInv, Whole
<1>3. \A s \in Slot : Safe(ToSet(bans'), clients'[s], now')
  BY <1>1, <1>2 DEF Safe, Spared
<1> QED BY <1>1, <1>2, <1>3, Started, TableStep

-----------------------------------------------------------------------------
(* Saving the databases, and being stopped. *)

LEMMA HeadsAndTails ==
  ASSUME NEW T, NEW a \in Seq(T), a # <<>>
  PROVE  /\ Head(a) \in T /\ Tail(a) \in Seq(T) /\ Len(a) = Len(Tail(a)) + 1 /\ Len(Tail(a)) \in Nat
         /\ ToSet(a) = {Head(a)} \cup ToSet(Tail(a))
<1> DEFINE r == Tail(a)
<1>1. Head(a) \in T /\ Head(a) = a[1] /\ r \in Seq(T) /\ Len(r) = Len(a) - 1 /\ \A i \in 1..Len(r) : r[i] = a[i + 1]
  BY HeadTailProperties
<1> HIDE DEF r
<1>2. /\ Len(a) \in Nat /\ ToSet(a) = {a[i] : i \in 1..Len(a)}
      /\ Len(r) \in Nat /\ ToSet(r) = {r[i] : i \in 1..Len(r)}
  BY <1>1, Elements
<1>3. 1 \in 1..Len(a) /\ Len(a) = Len(r) + 1
  BY <1>1, <1>2
<1>4. \A i \in 1..Len(a) : i = 1 \/ (i - 1 \in 1..Len(r) /\ a[i] = r[i - 1])
  <2> TAKE i \in 1..Len(a)
  <2>1. i = 1 \/ (i - 1 \in 1..Len(r) /\ (i - 1) + 1 = i)
    BY <1>2, <1>3
  <2> QED BY <2>1, <1>1
<1>5. \A i \in 1..Len(r) : i + 1 \in 1..Len(a) /\ r[i] = a[i + 1]
  BY <1>1, <1>2, <1>3
<1>6. ToSet(a) \subseteq {a[1]} \cup ToSet(r)
  BY <1>2, <1>4
<1>7. {a[1]} \cup ToSet(r) \subseteq ToSet(a)
  BY <1>2, <1>3, <1>5
<1> QED BY <1>1, <1>2, <1>3, <1>6, <1>7 DEF r

\* With no one connected nothing is left to enforce.
LEMMA DownStep ==
  ASSUME BansInv, Down, UNCHANGED now, file' \in [Kept -> File(Entry)], temp' \in [Kept -> File(Entry)],
         kept' \in [Kept -> Seq(Entry)], \A k \in Kept : FileSound(k)'
  PROVE  BansInv'
<1>1. up' = FALSE /\ bans' = <<>> /\ clients' = [s \in Slot |-> NoClient] /\ job' = Idle
  BY DEF Down
<1>2. clients' \in [Slot -> Connection] /\ \A s \in Slot : clients'[s] = NoClient /\ NoClient.is = "none"
  BY <1>1, NoOne DEF NoClient
<1>3. TypeInv'
  BY <1>1, <1>2, IdleIs DEF BansInv, TypeInv
<1>4. Enforced'
  BY <1>2, NoOne DEF Enforced
<1>5. Whole' /\ Writing'
  BY <1>1, <1>2, IdleIs DEF Whole, Writing
<1> QED BY <1>3, <1>4, <1>5 DEF BansInv

LEMMA CrashStep == BansInv /\ Crash => BansInv'
<1> SUFFICES ASSUME BansInv, Crash PROVE BansInv'
  OBVIOUS
<1>1. Down /\ UNCHANGED <<now, file, temp, kept>>
  BY DEF Crash
<1>2. \A k \in Kept : FileSound(k)'
  BY <1>1 DEF BansInv, FileSound
<1> QED BY <1>1, <1>2, DownStep DEF BansInv, TypeInv

LEMMA SaveStep == \A exits \in BOOLEAN : BansInv /\ save_all_databases(exits) => BansInv'
<1> SUFFICES ASSUME BansInv, NEW exits \in BOOLEAN, save_all_databases(exits) PROVE BansInv'
  OBVIOUS
<1> DEFINE t == <<"kline", "dline", "xline", "resv">>
           j == [Idle EXCEPT !.todo = t, !.exits = exits]
<1>1. up /\ job' = j /\ UNCHANGED <<now, up, bans, clients, file, temp, kept>>
  BY DEF save_all_databases
<1>2. /\ j.todo = t /\ j.open = FALSE
      /\ j \in [todo : Seq(Kept), left : Seq(Entry), open : BOOLEAN, exits : BOOLEAN]
  <2>1. t \in Seq(Kept)
    BY DEF Kept
  <2> HIDE DEF t
  <2> QED BY <2>1, IdleIs
<1>3. j.todo # <<>>
  BY <1>2 DEF t
<1> HIDE DEF j
<1>4. TypeInv'
  BY <1>1, <1>2 DEF BansInv, TypeInv
<1>5. Enforced' /\ Whole' /\ Writing'
  BY <1>1, <1>2, <1>3 DEF BansInv, Enforced, Whole, Writing
<1>6. \A k \in Kept : FileSound(k)'
  BY <1>1 DEF BansInv, FileSound
<1> QED BY <1>4, <1>5, <1>6 DEF BansInv

\* A database is done with: the next, the loop, or the end.
LEMMA ProceedStep ==
  ASSUME BansInv, job # Idle, Proceed, UNCHANGED now,
         file' \in [Kept -> File(Entry)], temp' \in [Kept -> File(Entry)],
         kept' \in [Kept -> Seq(Entry)], \A k \in Kept : FileSound(k)'
  PROVE  BansInv'
<1>1. CASE Down
  BY <1>1, DownStep
<1>2. CASE job' = Idle /\ UNCHANGED <<up, bans, clients>>
  <2>1. TypeInv'
    BY <1>2, IdleIs DEF BansInv, TypeInv
  <2>2. Enforced' /\ Whole' /\ Writing'
    BY <1>2, IdleIs DEF BansInv, Enforced, Whole, Writing
  <2> QED BY <2>1, <2>2 DEF BansInv
<1>3. CASE /\ Len(job.todo) > 1 /\ job' = [job EXCEPT !.todo = Tail(@), !.left = <<>>, !.open = FALSE]
           /\ UNCHANGED <<up, bans, clients>>
  <2>1. job \in [todo : Seq(Kept), left : Seq(Entry), open : BOOLEAN, exits : BOOLEAN] /\ job.todo # <<>>
    BY DEF BansInv, TypeInv, Whole
  <2> DEFINE t == job.todo
             u == Tail(t)
  <2>2. u \in Seq(Kept) /\ Len(t) = Len(u) + 1 /\ Len(u) \in Nat
    <3>1. t \in Seq(Kept) /\ t # <<>>
      BY <2>1
    <3> HIDE DEF t
    <3> QED BY <3>1, HeadsAndTails
  <2>3. u # <<>>
    <3>1. Len(t) > 1
      BY <1>3
    <3> HIDE DEF t, u
    <3>2. Len(u) # 0
      BY <2>2, <3>1
    <3> QED BY <3>2, EmptySeq
  <2>4. job' = [job EXCEPT !.todo = u, !.left = <<>>, !.open = FALSE]
    BY <1>3
  <2>5. <<>> \in Seq(Entry)
    BY EmptySeq
  <2> HIDE DEF u
  <2>6. /\ job' \in [todo : Seq(Kept), left : Seq(Entry), open : BOOLEAN, exits : BOOLEAN]
        /\ job'.todo # <<>> /\ job'.open = FALSE
    BY <2>1, <2>2, <2>3, <2>4, <2>5
  <2>7. TypeInv'
    BY <1>3, <2>6 DEF BansInv, TypeInv
  <2>8. up
    BY DEF BansInv, Whole
  <2>9. Enforced' /\ Whole' /\ Writing'
    BY <1>3, <2>6, <2>8 DEF BansInv, Enforced, Whole, Writing
  <2> QED BY <2>7, <2>9 DEF BansInv
<1> QED BY <1>1, <1>2, <1>3 DEF Proceed

LEMMA OpenStep == \A fails \in BOOLEAN : BansInv /\ open_db_write(fails) => BansInv'
<1> SUFFICES ASSUME BansInv, NEW fails \in BOOLEAN, open_db_write(fails) PROVE BansInv'
  OBVIOUS
<1> DEFINE k == Head(job.todo)
           l == Saved(bans, k)
<1>1. job # Idle /\ UNCHANGED <<now, file, kept>>
  BY DEF open_db_write
<1>2. /\ job \in [todo : Seq(Kept), left : Seq(Entry), open : BOOLEAN, exits : BOOLEAN] /\ job.todo # <<>>
      /\ temp \in [Kept -> File(Entry)] /\ file \in [Kept -> File(Entry)] /\ kept \in [Kept -> Seq(Entry)]
      /\ bans \in Seq(Entry) /\ up
  BY <1>1 DEF BansInv, TypeInv, Whole
<1>3. k \in Kept
  BY <1>2, HeadsAndTails
<1>4. \A x \in Kept : FileSound(x)'
  BY <1>1 DEF BansInv, FileSound
<1>5. CASE temp' = [temp EXCEPT ![k] = NoFile] /\ Proceed
  <2>1. NoFile \in File(Entry)
    BY EmptySeq DEF NoFile, File
  <2>2. temp' \in [Kept -> File(Entry)]
    BY <1>2, <1>5, <2>1
  <2> QED BY <1>1, <1>2, <1>4, <1>5, <2>2, ProceedStep
<1>6. CASE /\ temp' = [temp EXCEPT ![k] = [records |-> Len(l), data |-> <<>>]]
           /\ job' = [job EXCEPT !.open = TRUE, !.left = l]
           /\ UNCHANGED <<up, bans, clients>>
  <2>1. l \in Seq(StoredOf(k)) /\ l \in Seq(Entry) /\ Len(l) = Len(Stored(bans, k)) /\ ToSet(l) = ToSet(Stored(bans, k))
    BY <1>2, <1>3, SavedAre DEF Same
  <2>2. Len(l) \in Nat
    BY <2>1, Elements
  <2> DEFINE f == [records |-> Len(l), data |-> <<>>]
  <2>3. f \in File(Entry) /\ f.data = <<>> /\ f.records = Len(l)
    BY <2>2, EmptySeq DEF File
  <2> HIDE DEF l, f
  <2>4. /\ job' \in [todo : Seq(Kept), left : Seq(Entry), open : BOOLEAN, exits : BOOLEAN]
        /\ job'.todo = job.todo /\ job'.left = l
    BY <1>2, <1>6, <2>1
  <2>5. temp' = [temp EXCEPT ![k] = f]
    BY <1>6 DEF f
  <2>6. TypeInv'
    BY <1>1, <1>2, <1>3, <1>6, <2>3, <2>4, <2>5 DEF BansInv, TypeInv
  <2>7. Enforced' /\ Whole'
    BY <1>1, <1>2, <1>6, <2>4 DEF BansInv, Enforced, Whole
  <2>8. Written(f, l, bans, k)
    <3>1. ToSet(f.data) = {} /\ f.data \in Seq(StoredOf(k)) /\ Len(f.data) = 0
      BY <2>3, EmptySeq DEF ToSet
    <3> HIDE DEF k
    <3> QED BY <2>1, <2>2, <2>3, <3>1 DEF Written
  <2>9. Writing'
    <3>1. temp'[k] = f /\ Head(job'.todo) = k /\ bans' = bans
      BY <1>2, <1>3, <1>6, <2>4, <2>5
    <3> HIDE DEF k
    <3> QED BY <2>4, <2>8, <3>1 DEF Writing
  <2> QED BY <1>4, <2>6, <2>7, <2>9 DEF BansInv
<1> QED BY <1>5, <1>6 DEF open_db_write

LEMMA WriteStep == \A fails \in BOOLEAN : BansInv /\ write_record(fails) => BansInv'
<1> SUFFICES ASSUME BansInv, NEW fails \in BOOLEAN, write_record(fails) PROVE BansInv'
  OBVIOUS
<1> DEFINE k == Head(job.todo)
           e == Head(job.left)
           l == Tail(job.left)
<1>1. job.open /\ job.left # <<>> /\ UNCHANGED <<now, file, kept>>
  BY DEF write_record
<1>2. job # Idle
  BY <1>1, IdleIs
<1>3. /\ job \in [todo : Seq(Kept), left : Seq(Entry), open : BOOLEAN, exits : BOOLEAN] /\ job.todo # <<>>
      /\ temp \in [Kept -> File(Entry)] /\ file \in [Kept -> File(Entry)] /\ kept \in [Kept -> Seq(Entry)]
      /\ bans \in Seq(Entry) /\ up
  BY <1>2 DEF BansInv, TypeInv, Whole
<1>4. k \in Kept
  BY <1>3, HeadsAndTails
<1>5. \A x \in Kept : FileSound(x)'
  BY <1>1 DEF BansInv, FileSound
<1>6. Written(temp[k], job.left, bans, k)
  BY <1>1 DEF BansInv, Writing
<1>7. CASE temp' = [temp EXCEPT ![k] = NoFile] /\ Proceed
  <2>1. NoFile \in File(Entry)
    BY EmptySeq DEF NoFile, File
  <2>2. temp' \in [Kept -> File(Entry)]
    BY <1>3, <1>7, <2>1
  <2> QED BY <1>1, <1>2, <1>3, <1>5, <1>7, <2>2, ProceedStep
<1>8. CASE /\ temp' = [temp EXCEPT ![k].data = Append(@, e)] /\ job' = [job EXCEPT !.left = l]
           /\ UNCHANGED <<up, bans, clients>>
  <2> DEFINE a == temp[k].data
             b == Append(a, e)
  <2>1. temp[k] \in [records : Nat, data : Seq(Entry)]
    BY <1>3, <1>4 DEF File
  <2>2. /\ e \in StoredOf(k) /\ l \in Seq(StoredOf(k)) /\ Len(job.left) = Len(l) + 1 /\ Len(l) \in Nat
        /\ ToSet(job.left) = {e} \cup ToSet(l)
    <3>1. job.left \in Seq(StoredOf(k))
      BY <1>6 DEF Written
    <3> HIDE DEF k
    <3> QED BY <1>1, <3>1, HeadsAndTails
  <2>3. e \in Entry /\ l \in Seq(Entry)
    <3>1. job.left \in Seq(Entry)
      BY <1>3
    <3> QED BY <1>1, <3>1, HeadsAndTails
  <2>4. a \in Seq(StoredOf(k)) /\ a \in Seq(Entry) /\ Len(a) \in Nat
    <3>1. a \in Seq(Entry)
      BY <2>1
    <3> HIDE DEF a
    <3>2. Len(a) \in Nat
      BY <3>1, Elements
    <3> QED BY <1>6, <3>1, <3>2 DEF Written, a
  <2> HIDE DEF k, e, l, a
  <2>5. b \in Seq(StoredOf(k)) /\ b \in Seq(Entry) /\ Len(b) = Len(a) + 1 /\ ToSet(b) = ToSet(a) \cup {e}
    BY <2>2, <2>3, <2>4, Appended
  <2> HIDE DEF b
  <2> DEFINE f == [temp[k] EXCEPT !.data = b]
  <2>6. f \in File(Entry) /\ f.data = b /\ f.records = temp[k].records
    BY <2>1, <2>5 DEF File
  <2>7. temp' = [temp EXCEPT ![k] = f]
    BY <1>8 DEF a, b
  <2> HIDE DEF f
  <2>8. /\ job' \in [todo : Seq(Kept), left : Seq(Entry), open : BOOLEAN, exits : BOOLEAN]
        /\ job'.todo = job.todo /\ job'.left = l
    BY <1>3, <1>8, <2>3
  <2>9. TypeInv'
    BY <1>1, <1>3, <1>8, <2>6, <2>7, <2>8 DEF BansInv, TypeInv
  <2>10. Enforced' /\ Whole'
    BY <1>1, <1>3, <1>8, <2>8 DEF BansInv, Enforced, Whole
  <2>11. Written(f, l, bans, k)
    <3>1. /\ temp[k].records = Len(Stored(bans, k)) /\ Len(a) + Len(job.left) = Len(Stored(bans, k))
          /\ ToSet(a) \cup ToSet(job.left) = ToSet(Stored(bans, k))
      BY <1>6 DEF Written, a
    <3>2. Len(b) + Len(l) = Len(Stored(bans, k))
      BY <2>2, <2>4, <2>5, <3>1
    <3>3. ToSet(b) \cup ToSet(l) = ToSet(Stored(bans, k))
      BY <2>2, <2>5, <3>1
    <3> QED BY <2>2, <2>5, <2>6, <3>1, <3>2, <3>3 DEF Written
  <2>12. Writing'
    <3>1. temp'[k] = f /\ Head(job'.todo) = k /\ bans' = bans
      BY <1>3, <1>4, <1>8, <2>7, <2>8 DEF k
    <3> QED BY <2>8, <2>11, <3>1 DEF Writing
  <2> QED BY <1>5, <2>9, <2>10, <2>12 DEF BansInv
<1> QED BY <1>7, <1>8 DEF write_record

LEMMA CloseStep == \A how \in {"done", "fclose", "rename"} : BansInv /\ close_db(how) => BansInv'
<1> SUFFICES ASSUME BansInv, NEW how \in {"done", "fclose", "rename"}, close_db(how) PROVE BansInv'
  OBVIOUS
<1> DEFINE k == Head(job.todo)
<1>1. /\ job.open /\ job.left = <<>> /\ Proceed /\ UNCHANGED now
      /\ temp' = temp \/ temp' = [temp EXCEPT ![k] = NoFile]
      /\ \/ UNCHANGED <<file, kept>>
         \/ file' = [file EXCEPT ![k] = temp[k]] /\ kept' = [kept EXCEPT ![k] = Stored(bans, k)]
  BY DEF close_db
<1>2. job # Idle
  BY <1>1, IdleIs
<1>3. /\ job \in [todo : Seq(Kept), left : Seq(Entry), open : BOOLEAN, exits : BOOLEAN] /\ job.todo # <<>>
      /\ temp \in [Kept -> File(Entry)] /\ file \in [Kept -> File(Entry)] /\ kept \in [Kept -> Seq(Entry)]
      /\ bans \in Seq(Entry)
  BY <1>2 DEF BansInv, TypeInv, Whole
<1>4. k \in Kept
  BY <1>3, HeadsAndTails
<1>5. Written(temp[k], <<>>, bans, k)
  BY <1>1 DEF BansInv, Writing
<1>6. \A x \in Kept : FileSound(x)
  BY DEF BansInv
<1>7. NoFile \in File(Entry)
  BY EmptySeq DEF NoFile, File
<1> HIDE DEF k
<1>8. temp' \in [Kept -> File(Entry)]
  BY <1>1, <1>3, <1>7
<1>9. Stored(bans, k) \in Seq(Entry)
  BY <1>3, StoredAre
<1>10. file' \in [Kept -> File(Entry)] /\ kept' \in [Kept -> Seq(Entry)]
  BY <1>1, <1>3, <1>4, <1>9
<1>11. \A x \in Kept : FileSound(x)'
  <2>1. CASE UNCHANGED <<file, kept>>
    BY <1>6, <2>1 DEF FileSound
  <2>2. CASE file' = [file EXCEPT ![k] = temp[k]] /\ kept' = [kept EXCEPT ![k] = Stored(bans, k)]
    <3>1. /\ temp[k].data \in Seq(StoredOf(k)) /\ temp[k].records = Len(temp[k].data)
          /\ Same(temp[k].data, Stored(bans, k))
      <4>1. Len(<<>>) = 0 /\ ToSet(<<>>) = {}
        BY EmptySeq DEF ToSet
      <4>2. temp[k].data \in Seq(StoredOf(k)) /\ Len(temp[k].data) \in Nat
        <5>1. temp[k].data \in Seq(StoredOf(k))
          BY <1>5 DEF Written
        <5> QED BY <5>1, LenProperties
      <4>3. /\ temp[k].records = Len(Stored(bans, k)) /\ Len(temp[k].data) + Len(<<>>) = Len(Stored(bans, k))
            /\ ToSet(temp[k].data) \cup ToSet(<<>>) = ToSet(Stored(bans, k))
        BY <1>5 DEF Written
      <4>4. Len(temp[k].data) = Len(Stored(bans, k))
        BY <4>1, <4>2, <4>3
      <4> QED BY <4>1, <4>2, <4>3, <4>4 DEF Same
    <3>2. \A x \in Kept : x # k => file'[x] = file[x] /\ kept'[x] = kept[x]
      BY <1>3, <2>2
    <3>3. file'[k] = temp[k] /\ kept'[k] = Stored(bans, k)
      BY <1>3, <1>4, <2>2
    <3>4. ASSUME NEW x \in Kept, x = k PROVE FileSound(x)'
      BY <3>1, <3>3, <3>4 DEF FileSound
    <3>5. ASSUME NEW x \in Kept, x # k PROVE FileSound(x)'
      <4>1. file'[x] = file[x] /\ kept'[x] = kept[x] /\ FileSound(x)
        BY <1>6, <3>2, <3>5
      <4> QED BY <4>1 DEF FileSound
    <3> QED BY <3>4, <3>5
  <2> QED BY <1>1, <2>1, <2>2
<1> QED BY <1>1, <1>2, <1>8, <1>10, <1>11, ProceedStep

-----------------------------------------------------------------------------
(* What always holds. *)

LEMMA Initially == BansInit => BansInv
<1> SUFFICES ASSUME BansInit PROVE BansInv
  OBVIOUS
<1>1. /\ now = 0 /\ up = FALSE /\ bans = <<>> /\ clients = [s \in Slot |-> NoClient]
      /\ file = [k \in Kept |-> NoFile] /\ temp = [k \in Kept |-> NoFile]
      /\ job = Idle /\ kept = [k \in Kept |-> <<>>]
  BY DEF BansInit
<1>2. NoFile \in File(Entry) /\ NoFile.data = <<>> /\ NoFile.records = 0
  BY EmptySeq DEF NoFile, File
<1>3. <<>> \in Seq(Entry) /\ (\A k : <<>> \in Seq(StoredOf(k))) /\ Len(<<>>) = 0
  BY EmptySeq
<1>4. clients \in [Slot -> Connection] /\ \A s \in Slot : clients[s] = NoClient /\ NoClient.is = "none"
  BY <1>1, NoOne DEF NoClient
<1>5. TypeInv
  BY <1>1, <1>2, <1>3, <1>4, IdleIs DEF TypeInv
<1>6. Enforced /\ Whole /\ Writing
  BY <1>1, <1>4, NoOne, IdleIs DEF Enforced, Whole, Writing
<1>7. \A k \in Kept : FileSound(k)
  BY <1>1, <1>2, <1>3 DEF FileSound, Same
<1> QED BY <1>5, <1>6, <1>7 DEF BansInv

LEMMA NextStep ==
  ASSUME NEW CONSTANT Conf, Conf \subseteq Seq(Configured)
  PROVE  BansInv /\ [BansNext(Conf)]_bansVars => BansInv'
<1> SUFFICES ASSUME BansInv, [BansNext(Conf)]_bansVars PROVE BansInv'
  OBVIOUS
<1>1. CASE Connections
  BY <1>1, RegisterStep, AcceptStep DEF Connections
<1>2. CASE BansEvents
  BY <1>2, TickStep, CleanupStep, SaveStep DEF BansEvents
<1>3. CASE Disk
  BY <1>3, OpenStep, WriteStep, CloseStep DEF Disk
<1>4. CASE Crash
  BY <1>4, CrashStep
<1>5. CASE Commands
  BY <1>5, CommandStep
<1>6. CASE \E w \in Who : TryNick(w)
  BY <1>6, TryNickStep
<1>7. CASE \E blocks \in Conf : conf_rehash(blocks) \/ Start(blocks)
  BY <1>7, RehashStep, StartStep
<1>8. CASE UNCHANGED bansVars
  <2>1. UNCHANGED <<now, up, bans, clients, file, temp, job, kept>>
    BY <1>8 DEF bansVars
  <2>2. TypeInv' /\ Enforced' /\ Whole' /\ Writing'
    BY <2>1 DEF BansInv, TypeInv, Enforced, Whole, Writing
  <2>3. \A k \in Kept : FileSound(k)'
    BY <2>1 DEF BansInv, FileSound
  <2> QED BY <2>2, <2>3 DEF BansInv
<1> QED BY <1>1, <1>2, <1>3, <1>4, <1>5, <1>6, <1>7, <1>8 DEF BansNext

\* The blocks of the configuration are in no database: what reads one (conf_db.c:570, 656, 754
\* and 830) and the commands that set bans are alone in marking a record as stored.
THEOREM BansInvariance ==
  ASSUME NEW CONSTANT Conf, Conf \subseteq Seq(Configured)
  PROVE  BansSpec(Conf) => []BansInv
<1>1. BansInit => BansInv
  BY Initially
<1>2. BansInv /\ [BansNext(Conf)]_bansVars => BansInv'
  BY NextStep
<1> QED BY <1>1, <1>2, PTL DEF BansSpec

LEMMA SafeIsEnforced == BansInv => BansEnforced
<1> SUFFICES ASSUME BansInv, NEW s \in Slot,
                    clients[s].is # "none", clients[s].exempt = {}, ~matches(bans, "exempt", clients[s].who),
                    NEW i \in DOMAIN bans, clients[s].who \in bans[i].mask
             PROVE  /\ bans[i].kind # "dline"
                    /\ clients[s].is = "client" => bans[i].kind # "kline"
                                                   /\ (bans[i].kind = "xline" => Expired(bans[i], now))
  BY DEF BansEnforced
<1>1. bans \in Seq(Entry) /\ Safe(ToSet(bans), clients[s], now)
  BY DEF BansInv, TypeInv, Enforced
<1>2. ~Spared(ToSet(bans), clients[s])
  BY <1>1, Matches DEF Spared
<1>3. bans[i] \in ToSet(bans)
  BY <1>1, Elements
<1>4. ~Hits(bans[i], clients[s], now)
  BY <1>1, <1>2, <1>3 DEF Safe
<1> QED BY <1>4 DEF Hits

\* No connection is left under a ban that does not spare it, in whatever order bans are set,
\* expire and are read again and clients connect and register (client.c:338, user.c:288).
THEOREM BansAreEnforced ==
  ASSUME NEW CONSTANT Conf, Conf \subseteq Seq(Configured)
  PROVE  BansSpec(Conf) => []BansEnforced
BY BansInvariance, SafeIsEnforced, PTL

\* Only the start brings the server up.
LEMMA OnlyStart ==
  ASSUME NEW CONSTANT Conf, Conf \subseteq Seq(Configured), BansInv, [BansNext(Conf)]_bansVars, ~up, up'
  PROVE  \E blocks \in Seq(Configured) : Start(blocks)
<1>0. job = Idle /\ ~job.open
  BY IdleIs DEF BansInv, Whole
<1>1. ~Connections
  BY DEF Connections, Register, Accept
<1>2. ~BansEvents
  BY DEF BansEvents, Tick, cleanup_tklines, save_all_databases
<1>3. ~Disk
  BY <1>0 DEF Disk, open_db_write, write_record, close_db
<1>4. ~Crash
  BY DEF Crash
<1>5. ~Commands
  <2>1. \A found, without : ~LiftBan(found, without)
    BY DEF LiftBan
  <2>2. \A k, q, d, found : ~SetBan(k, q, d, found)
    BY DEF SetBan
  <2>3. \A q : ~(kline_remove(q) \/ dline_remove(q) \/ xline_remove(q) \/ resv_remove(q))
    BY <2>1 DEF kline_remove, dline_remove, xline_remove, resv_remove
  <2>4. \A src, q, d : ~(kline_handle(src, q, d) \/ dline_handle(src, q, d) \/ xline_handle(src, q, d) \/ resv_handle(src, q, d))
    BY <2>2 DEF kline_handle, dline_handle, xline_handle, resv_handle
  <2>5. \A src, q : ~OperLifts(q) /\ ~RemoteLifts(src, q)
    BY <2>3 DEF OperLifts, RemoteLifts, mo_unkline, mo_undline, mo_unxline, mo_unresv,
                ms_unkline, ms_undline, ms_unxline, ms_unresv
  <2>6. \A src, q, d : ~OperSets(q, d) /\ ~RemoteSets(src, q, d)
    BY <2>4 DEF OperSets, RemoteSets, mo_kline, mo_dline, mo_xline, mo_resv, ms_kline, ms_dline, ms_xline, ms_resv
  <2> QED BY <2>5, <2>6 DEF Commands
<1>6. ~\E w \in Who : TryNick(w)
  BY DEF TryNick
<1>7. ~\E blocks \in Conf : conf_rehash(blocks)
  BY DEF conf_rehash
<1>8. ~UNCHANGED bansVars
  BY DEF bansVars
<1> QED BY <1>1, <1>2, <1>3, <1>4, <1>5, <1>6, <1>7, <1>8 DEF BansNext

\* The server starts with the bans of the last save to end well, whatever failed while the
\* databases were saved and wherever the server was stopped (conf_db.c:220 and 236, ircd.c:465).
THEOREM DatabasesAreKept ==
  ASSUME NEW CONSTANT Conf, Conf \subseteq Seq(Configured)
  PROVE  BansSpec(Conf) => DatabaseKept
<1>1. ASSUME BansInv, [BansNext(Conf)]_bansVars
      PROVE  [~up /\ up' => \A k \in Kept : LET read == Stored(bans', k)
                                            IN Len(read) = Len(kept[k]) /\ ToSet(read) = ToSet(kept[k])]_bansVars
  <2>1. ASSUME ~up, up' PROVE \A k \in Kept : Len(Stored(bans', k)) = Len(kept[k]) /\ ToSet(Stored(bans', k)) = ToSet(kept[k])
    BY <1>1, <2>1, OnlyStart, Started DEF Read, Same
  <2> QED BY <2>1
<1>2. BansSpec(Conf) => []BansInv
  BY BansInvariance
<1> QED BY <1>1, <1>2, PTL DEF BansSpec, DatabaseKept
=============================================================================
