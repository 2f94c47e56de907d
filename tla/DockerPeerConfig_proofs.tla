---------------------- MODULE DockerPeerConfig_proofs ----------------------
(***************************************************************************)
(* Proofs about the Docker runtime's config file.  The state has its type  *)
(* whatever number of processes works on the file; that no address is      *)
(* given out twice and that the node serves the active devices is proved   *)
(* for one process at a time (Solo): with two, the run ip_race refutes the *)
(* first, because requests work on the file without a lock.                *)
(***************************************************************************)
EXTENDS DockerPeerConfig, FiniteSetTheorems, WellFoundedInduction, TLAPS

\* At most one process works on the file.
Solo == \A p, q \in Procs : p = q

-----------------------------------------------------------------------------
(* The inductive invariant.                                                *)

\* A request under way is about a key pair.
BusyHasKey ==
    \A p \in Procs :
        pc[p] # "idle" => job[p].key \in Keys /\ job[p].kind \in Applying \cup Removing

\* Only a grant waits for the lock before it reads the file.
ListedIsGrant == \A p \in Procs : pc[p] = "listed" => job[p].kind = "grant"

Known == KeysOf(file) \cup live \cup ReservedKeys

KnownHasAddress == \A k \in Known : address[k] # NoAddress

\* What AllowedIPs say is a beginning of the address in the peer's config.
Lower(f) ==
    \A b \in ToSet(f.blocks) : b.key # NoKey /\ b.ip \in Hosts => b.ip <= address[b.key]
NoneIsHigher == Lower(file)

\* A file that lost the address of its [Interface] lost all of its blocks.
EmptyWithoutInterface == file.interface = "none" => file.blocks = << >>

\* An interface that is down serves nobody.
DownServesNobody == ~up => live = {}

\* The row a request found is as it was when the request began.
RowAsFound ==
    \A p \in Procs : pc[p] # "idle" =>
        LET k == job[p].key IN
            /\ job[p].kind = "grant" => k \notin ReservedKeys
            /\ job[p].kind \in {"disable", "add_missing"} => row[k] = "active"
            /\ job[p].kind = "enable" => row[k] = "disabled"
            /\ job[p].kind = "revoke" =>
                  row[k] = "active" \/ (row[k] = "disabled" /\ pc[p] = "local")

\* Until the file is written a granted key pair and its address are nowhere.
GrantIsFresh ==
    \A p \in Procs : job[p].kind = "grant" /\ pc[p] \in {"listed", "read", "write"} =>
        LET k == job[p].key IN
            /\ k \notin Known
            /\ address[k] \in Hosts
            /\ \A j \in PeersOf(file) \cup ReservedKeys : address[j] # address[k]

\* What is edited is the file as it still is.
CopyIsFile ==
    \A p \in Procs : pc[p] = "write" =>
        /\ copy[p] = file
        /\ job[p].kind \in Applying => file.interface # "none"

\* A removal that went through the node, as all do but the revocation of a
\* disabled device.
ViaNode(p) == job[p].kind \in Removing /\ (job[p].kind = "revoke" => row[job[p].key] = "active")

\* The written file, then the restarted interface, has what was asked.
EditLanded ==
    \A p \in Procs : pc[p] \in {"restart", "local"} =>
        LET k == job[p].key IN
            /\ job[p].kind \in Applying => file.interface # "none" /\ k \in Routed(file)
            /\ job[p].kind \in Applying /\ pc[p] = "local" => (up => k \in live)
            /\ ViaNode(p) => k \notin PeersOf(file)
            /\ ViaNode(p) /\ pc[p] = "local" => k \notin live

\* The node agrees with the registry on a peer.  An active one is the last of
\* the file that names its address, so that the next restart serves it.
Agrees(k) ==
    /\ k \in ActiveKeys => k \in Routed(file)
    /\ k \notin ActiveKeys => k \notin PeersOf(file)
    /\ up => (k \in ActiveKeys <=> k \in live)

\* A request has written the file about this peer and not yet the registry.
InHand(k) == \E p \in Procs : pc[p] \in {"restart", "local"} /\ job[p].key = k

ServedUnlessInHand ==
    \A k \in Keys \ (Foreign \cup doubt) : ~InHand(k) => Agrees(k)

\* The revocation of a disabled device leaves a node that agreed already.
OffNodeAgrees ==
    \A p \in Procs : pc[p] = "local" /\ job[p].kind = "revoke" =>
        LET k == job[p].key IN
            row[k] = "disabled" /\ k \notin Foreign \cup doubt
                => k \notin PeersOf(file) \cup live

TypeInv == TypeOK /\ BusyHasKey

RequestInv ==
    /\ ListedIsGrant
    /\ EmptyWithoutInterface /\ DownServesNobody
    /\ RowAsFound
    /\ CopyIsFile
    /\ EditLanded

AddressInv == KnownHasAddress /\ NoneIsHigher /\ GrantIsFresh /\ AddressUnique

ServiceInv == ServedUnlessInHand /\ OffNodeAgrees

IInv == TypeInv /\ RequestInv /\ AddressInv /\ ServiceInv

-----------------------------------------------------------------------------
(* Sequences and minima.                                                   *)

\* A finite set has an enumeration without repetition, so that SetToSeq is
\* one.
LEMMA SetToSeqEnumerates ==
    ASSUME NEW S, IsFiniteSet(S)
    PROVE  /\ SetToSeq(S) \in Seq(S)
           /\ IsInjective(SetToSeq(S))
           /\ ToSet(SetToSeq(S)) = S
<1> DEFINE n == Cardinality(S)
<1>1. n \in Nat /\ ExistsBijection(1 .. n, S)
  BY FS_CardinalityType
<1>2. PICK g \in Bijection(1 .. n, S) : TRUE
  BY <1>1 DEF ExistsBijection
<1>3. g \in [1 .. n -> S] /\ IsInjective(g)
  BY <1>2 DEF Bijection, Injection, IsInjective
<1> DEFINE e == SetToSeq(S)
<1>4. e \in [1 .. n -> S] /\ IsInjective(e)
  BY <1>3 DEF SetToSeq
<1>5. e \in Injection(1 .. n, S)
  BY <1>4 DEF Injection, IsInjective
<1>6. IsFiniteSet(1 .. n) /\ Cardinality(1 .. n) = n
  BY <1>1, FS_Interval
<1>7. e \in Surjection(1 .. n, S)
  BY <1>5, <1>6, FS_Injection
<1>8. \A x \in S : \E i \in 1 .. n : e[i] = x
  BY <1>7 DEF Surjection
<1>9. e \in Seq(S) /\ DOMAIN e = 1 .. n
  BY <1>1, <1>4
<1>10. ToSet(e) = S
  BY <1>4, <1>8, <1>9 DEF ToSet
<1> QED
  BY <1>4, <1>9, <1>10

\* A nonempty set of numbers has a least element, which Min picks.
LEMMA MinIsLeast ==
    ASSUME NEW S, S \subseteq Nat, S # {}
    PROVE  Min(S) \in S
<1>1. PICK x \in S : \A y \in S : <<y, x>> \notin OpToRel(<, Nat)
  BY NatLessThanWellFounded, WFMin
<1>2. \A y \in S : ~ (y < x)
  BY <1>1 DEF OpToRel
<1>3. \A y \in S : x <= y
  BY <1>2
<1> QED
  BY <1>3 DEF Min

\* RemoveAt takes one element out and moves those behind it up.
LEMMA RemoveAtShifts ==
    ASSUME NEW S, NEW s \in Seq(S), NEW i \in 1 .. Len(s)
    PROVE  LET t == RemoveAt(s, i) IN
              /\ t \in Seq(S) /\ Len(t) = Len(s) - 1
              /\ \A j \in 1 .. Len(t) : t[j] = IF j < i THEN s[j] ELSE s[j + 1]
<1> DEFINE u == SubSeq(s, 1, i - 1)
           v == SubSeq(s, i + 1, Len(s))
           t == RemoveAt(s, i)
<1>1. u \in Seq(S) /\ Len(u) = i - 1 /\ \A j \in 1 .. i - 1 : u[j] = s[j]
  OBVIOUS
<1>2. v \in Seq(S) /\ Len(v) = Len(s) - i /\ \A j \in 1 .. Len(s) - i : v[j] = s[j + i]
  OBVIOUS
<1>3. t = u \o v
  BY DEF RemoveAt
<1> HIDE DEF u, v, t
<1>4. t \in Seq(S) /\ Len(t) = Len(s) - 1
  <2>1. u \in Seq(S) /\ v \in Seq(S)
    BY <1>1, <1>2
  <2>2. t \in Seq(S) /\ Len(t) = Len(u) + Len(v)
    BY <1>3, <2>1
  <2> QED
    BY <1>1, <1>2, <2>2
<1>5. ASSUME NEW j \in 1 .. Len(t)
      PROVE  t[j] = IF j < i THEN s[j] ELSE s[j + 1]
  <2>1. j <= Len(u) => t[j] = u[j]
    BY <1>1, <1>2, <1>3, <1>4
  <2>2. j > Len(u) => t[j] = v[j - Len(u)]
    BY <1>1, <1>2, <1>3, <1>4
  <2>3. CASE j < i
    BY <1>1, <1>4, <2>3, <2>1
  <2>4. CASE j >= i
    <3>1. t[j] = v[j - (i - 1)] /\ j - (i - 1) \in 1 .. Len(s) - i
      BY <1>1, <1>2, <1>4, <2>4, <2>2
    <3>2. v[j - (i - 1)] = s[j - (i - 1) + i] /\ j - (i - 1) + i = j + 1
      BY <1>2, <3>1
    <3> QED
      BY <2>4, <3>1, <3>2
  <2> QED
    BY <2>3, <2>4
<1> QED
  BY <1>4, <1>5 DEF t

-----------------------------------------------------------------------------
(* The config file.                                                        *)

LEMMA EmptySeqSet == ToSet(<< >>) = {}
BY DEF ToSet

LEMMA NoElements ==
    ASSUME NEW S, NEW s \in Seq(S), ToSet(s) = {}
    PROVE  s = << >>
<1>1. DOMAIN s = 1 .. Len(s) /\ Len(s) \in Nat
  OBVIOUS
<1>2. \A i \in 1 .. Len(s) : FALSE
  BY <1>1 DEF ToSet
<1>3. Len(s) = 0
  BY <1>1, <1>2
<1> QED
  BY <1>3

LEMMA FileShape ==
    ASSUME NEW f \in ConfigFile
    PROVE  /\ f.blocks \in Seq(Block) /\ OneBlockEach(f.blocks)
           /\ DOMAIN f.blocks = 1 .. Len(f.blocks)
           /\ f.interface \in {"whole", "torn", "none"}
           /\ f = [interface |-> f.interface, blocks |-> f.blocks]
BY DEF ConfigFile

LEMMA EmptyFile == NoFile \in ConfigFile /\ ToSet(NoFile.blocks) = {}
<1>1. << >> \in Seq(Block) /\ OneBlockEach(<< >>) /\ ToSet(<< >>) = {}
  BY DEF OneBlockEach, ToSet
<1> QED
  BY <1>1 DEF NoFile, ConfigFile

\* The routed peers are peers, and the peers have a block.
LEMMA RoutedPeersKeys ==
    ASSUME NEW f
    PROVE  Routed(f) \subseteq PeersOf(f) /\ PeersOf(f) \subseteq KeysOf(f) \cap Keys
<1>1. ASSUME NEW k \in Routed(f)
      PROVE  k \in PeersOf(f)
  <2>1. PICK i \in DOMAIN f.blocks : Names(f.blocks[i], k)
    BY DEF Routed
  <2>2. f.blocks[i] \in ToSet(f.blocks) /\ k \in Keys
    BY DEF ToSet, Routed
  <2> QED
    BY <2>1, <2>2 DEF PeersOf
<1>2. ASSUME NEW k \in PeersOf(f)
      PROVE  k \in KeysOf(f) \cap Keys
  <2>1. PICK b \in ToSet(f.blocks) : Names(b, k)
    BY DEF PeersOf
  <2>2. b.key = k /\ k \in Keys /\ k # NoKey
    BY <2>1, DockerAssumption DEF Names, PeersOf
  <2> QED
    BY <2>1, <2>2 DEF KeysOf
<1> QED
  BY <1>1, <1>2

\* Removing a peer takes out the block of its key and nothing else.
LEMMA RemoveRemoves ==
    ASSUME NEW f \in ConfigFile, NEW k \in Keys
    PROVE  LET g == RemovePeerBlock(f, k) IN
              /\ g \in ConfigFile /\ g.interface = f.interface
              /\ ToSet(g.blocks) = BlocksBut(f, k)
              /\ Routed(f) \ {k} \subseteq Routed(g)
              /\ f.blocks = << >> => g.blocks = << >>
<1> DEFINE s == f.blocks
           g == RemovePeerBlock(f, k)
<1>1. s \in Seq(Block) /\ OneBlockEach(s) /\ DOMAIN s = 1 .. Len(s) /\ k # NoKey
  BY FileShape, DockerAssumption
<1>2. CASE k \notin KeysOf(f)
  <2>1. g = f
    BY <1>2, FileShape DEF RemovePeerBlock
  <2>2. \A b \in ToSet(s) : b.key # k
    BY <1>1, <1>2 DEF KeysOf
  <2> QED
    BY <2>1, <2>2 DEF BlocksBut
<1>3. CASE k \in KeysOf(f)
  <2> DEFINE i == BlockOf(s, k)
             t == RemoveAt(s, i)
  <2>1. i \in 1 .. Len(s) /\ s[i].key = k
    BY <1>1, <1>3 DEF KeysOf, ToSet, BlockOf
  <2>2. g = [f EXCEPT !.blocks = t]
    BY <1>3 DEF RemovePeerBlock
  <2>3. g.blocks = t /\ g.interface = f.interface /\ f.blocks # << >>
    BY <1>1, <2>1, <2>2, FileShape
  <2> HIDE DEF i
  <2>4. /\ t \in Seq(Block) /\ Len(t) = Len(s) - 1 /\ DOMAIN t = 1 .. Len(t)
        /\ \A j \in 1 .. Len(t) : t[j] = IF j < i THEN s[j] ELSE s[j + 1]
    BY <1>1, <2>1, RemoveAtShifts
  <2> HIDE DEF t
  <2>5. \A a \in 1 .. Len(s) : s[a].key = k => a = i
    BY <1>1, <2>1 DEF OneBlockEach
  <2>6. \A j \in 1 .. Len(t) : \E a \in 1 .. Len(s) :
            a # i /\ t[j] = s[a] /\ a = IF j < i THEN j ELSE j + 1
    BY <1>1, <2>1, <2>4
  <2>7. \A a \in 1 .. Len(s) : a # i => \E j \in 1 .. Len(t) :
            t[j] = s[a] /\ j = IF a < i THEN a ELSE a - 1
    <3> TAKE a \in 1 .. Len(s)
    <3>1. CASE a < i
      BY <1>1, <2>1, <2>4, <3>1
    <3>2. CASE a > i
      <4>1. a - 1 \in 1 .. Len(t) /\ t[a - 1] = s[a] /\ ~(a < i)
        BY <1>1, <2>1, <2>4, <3>2
      <4> QED
        BY <4>1
    <3> QED
      BY <2>1, <3>1, <3>2
  <2>8. OneBlockEach(t)
    <3> SUFFICES ASSUME NEW m \in 1 .. Len(t), NEW n \in 1 .. Len(t),
                        t[m].key = t[n].key, t[m].key # NoKey
                 PROVE  m = n
      BY <2>4 DEF OneBlockEach
    <3>1. PICK a \in 1 .. Len(s) : t[m] = s[a] /\ a = IF m < i THEN m ELSE m + 1
      BY <2>6
    <3>2. PICK b \in 1 .. Len(s) : t[n] = s[b] /\ b = IF n < i THEN n ELSE n + 1
      BY <2>6
    <3>3. a = b
      BY <1>1, <3>1, <3>2 DEF OneBlockEach
    <3> QED
      BY <1>1, <2>1, <2>4, <3>1, <3>2, <3>3
  <2>9. g \in ConfigFile
    BY <2>2, <2>4, <2>8, FileShape DEF ConfigFile
  <2>10. ToSet(t) = BlocksBut(f, k)
    <3>1. ASSUME NEW b \in ToSet(t) PROVE b \in BlocksBut(f, k)
      <4>1. PICK j \in 1 .. Len(t) : t[j] = b
        BY <2>4 DEF ToSet
      <4>2. PICK a \in 1 .. Len(s) : a # i /\ t[j] = s[a]
        BY <2>6
      <4> QED
        BY <1>1, <2>5, <4>1, <4>2 DEF BlocksBut, ToSet
    <3>2. ASSUME NEW b \in BlocksBut(f, k) PROVE b \in ToSet(t)
      <4>1. PICK a \in 1 .. Len(s) : s[a] = b /\ a # i
        BY <1>1, <2>1 DEF BlocksBut, ToSet
      <4>2. PICK j \in 1 .. Len(t) : t[j] = s[a]
        BY <2>7, <4>1
      <4> QED
        BY <2>4, <4>1, <4>2 DEF ToSet
    <3> QED
      BY <3>1, <3>2
  <2>11. Routed(f) \ {k} \subseteq Routed(g)
    <3> SUFFICES ASSUME NEW x \in Routed(f), x # k
                 PROVE  x \in Routed(g)
      OBVIOUS
    <3>1. PICK a \in 1 .. Len(s) :
             /\ Names(s[a], x) /\ x \in Keys
             /\ \A b \in 1 .. Len(s) : b > a => s[b].ip # address[x]
      BY <1>1 DEF Routed
    <3>2. a # i
      BY <2>1, <3>1 DEF Names
    <3>3. PICK j \in 1 .. Len(t) : t[j] = s[a] /\ j = IF a < i THEN a ELSE a - 1
      BY <2>7, <3>2
    <3>4. ASSUME NEW m \in 1 .. Len(t), m > j
          PROVE  t[m].ip # address[x]
      <4>1. PICK b \in 1 .. Len(s) : t[m] = s[b] /\ b = IF m < i THEN m ELSE m + 1
        BY <2>6
      <4>2. b > a
        BY <1>1, <2>1, <2>4, <3>2, <3>3, <3>4, <4>1
      <4> QED
        BY <3>1, <4>1, <4>2
    <3> QED
      BY <2>3, <2>4, <3>1, <3>3, <3>4 DEF Routed
  <2> QED
    BY <2>3, <2>9, <2>10, <2>11
<1> QED
  BY <1>2, <1>3

\* Adding a peer leaves one block of its key, at the end, and the others as
\* they were.
LEMMA UpsertAdds ==
    ASSUME NEW f \in ConfigFile, NEW k \in Keys,
           address \in [Keys -> Hosts \cup {NoAddress}]
    PROVE  LET g == UpsertPeerBlock(f, k) IN
              /\ g \in ConfigFile /\ g.interface = f.interface
              /\ ToSet(g.blocks) = BlocksBut(f, k) \cup {NewBlock(k)}
              /\ address[k] \in Hosts => k \in Routed(g)
              /\ \A j \in Routed(f) \ {k} : address[j] # address[k] => j \in Routed(g)
<1> DEFINE r == RemovePeerBlock(f, k)
           s == r.blocks
           t == Append(s, NewBlock(k))
           g == UpsertPeerBlock(f, k)
<1>1. /\ r \in ConfigFile /\ r.interface = f.interface
      /\ ToSet(s) = BlocksBut(f, k)
      /\ Routed(f) \ {k} \subseteq Routed(r)
  BY RemoveRemoves
<1>2. g = [r EXCEPT !.blocks = t]
  BY DEF UpsertPeerBlock
<1> HIDE DEF r
<1>3. s \in Seq(Block) /\ OneBlockEach(s) /\ DOMAIN s = 1 .. Len(s)
  BY <1>1, FileShape
<1>4. NewBlock(k) \in Block /\ NewBlock(k).key = k /\ NewBlock(k).ip = address[k]
  BY DEF NewBlock, Block
<1>5. /\ t \in Seq(Block) /\ Len(t) = Len(s) + 1 /\ DOMAIN t = 1 .. Len(t)
      /\ t[Len(s) + 1] = NewBlock(k)
      /\ \A j \in 1 .. Len(s) : t[j] = s[j]
  BY <1>3, <1>4
<1> HIDE DEF t
<1>6. \A j \in 1 .. Len(s) : s[j].key # k
  BY <1>1, <1>3 DEF ToSet, BlocksBut
<1>7. OneBlockEach(t)
  <2> HIDE DEF s
  <2> SUFFICES ASSUME NEW m \in 1 .. Len(t), NEW n \in 1 .. Len(t),
                      t[m].key = t[n].key, t[m].key # NoKey
               PROVE  m = n
    BY <1>5 DEF OneBlockEach
  <2>1. CASE m = Len(s) + 1 \/ n = Len(s) + 1
    BY <1>3, <1>4, <1>5, <1>6, <2>1
  <2>2. CASE m # Len(s) + 1 /\ n # Len(s) + 1
    <3>1. m \in 1 .. Len(s) /\ n \in 1 .. Len(s)
      BY <1>3, <1>5, <2>2
    <3> QED
      BY <1>3, <1>5, <3>1 DEF OneBlockEach
  <2> QED
    BY <2>1, <2>2
<1>8. ToSet(t) = ToSet(s) \cup {NewBlock(k)}
  BY <1>3, <1>5 DEF ToSet
<1>9. g \in ConfigFile /\ g.blocks = t /\ g.interface = f.interface
  BY <1>1, <1>2, <1>5, <1>7, FileShape DEF ConfigFile
<1> HIDE DEF g
<1>10. ASSUME address[k] \in Hosts
       PROVE  k \in Routed(g)
  <2>1. Names(t[Len(s) + 1], k)
    BY <1>4, <1>5, <1>10 DEF Names
  <2>2. Len(s) + 1 \in 1 .. Len(t) /\ \A j \in 1 .. Len(t) : ~(j > Len(s) + 1)
    BY <1>3, <1>5
  <2> QED
    BY <1>5, <1>9, <2>1, <2>2 DEF Routed
<1>11. ASSUME NEW j \in Routed(f) \ {k}, address[j] # address[k]
       PROVE  j \in Routed(g)
  <2>1. PICK a \in 1 .. Len(s) :
           /\ Names(s[a], j) /\ j \in Keys
           /\ \A b \in 1 .. Len(s) : b > a => s[b].ip # address[j]
    BY <1>1, <1>3 DEF Routed
  <2>2. a \in 1 .. Len(t) /\ t[a] = s[a]
    BY <1>3, <1>5
  <2>3. ASSUME NEW m \in 1 .. Len(t), m > a
        PROVE  t[m].ip # address[j]
    <3>1. CASE m = Len(s) + 1
      BY <1>4, <1>5, <1>11, <3>1
    <3>2. CASE m # Len(s) + 1
      <4>1. m \in 1 .. Len(s)
        BY <1>3, <1>5, <3>2
      <4> QED
        BY <1>5, <2>1, <2>3, <4>1
    <3> QED
      BY <3>1, <3>2
  <2> QED
    BY <1>5, <1>9, <2>1, <2>2, <2>3 DEF Routed
<1> QED
  BY <1>1, <1>8, <1>9, <1>10, <1>11 DEF g

\* What a block is a part of: nothing of it is left, or its key, with the
\* address or a beginning of it, or with none.
PartOf(b, c) ==
    b.key # NoKey =>
        /\ b.key = c.key
        /\ b.ip \in Hosts => c.ip \in Hosts /\ b.ip <= c.ip

LEMMA RemainsArePart ==
    ASSUME NEW c \in Block, NEW b \in Remains(c)
    PROVE  b \in Block /\ PartOf(b, c)
<1>1. PoolSize \in Nat /\ Hosts \subseteq Nat /\ NoAddress \notin Hosts /\ BadAddress \notin Hosts
  BY DockerAssumption DEF Hosts, NoAddress, BadAddress
<1>2. CASE b \in [key : {NoKey}, ip : {NoAddress}, sound : {FALSE}]
  BY <1>2 DEF Block, PartOf
<1>3. CASE b \notin [key : {NoKey}, ip : {NoAddress}, sound : {FALSE}]
  <2> DEFINE none  == {NoAddress} \cup {a \in {BadAddress} : c.ip \in Hosts \cup {BadAddress}}
             other == {a \in Hosts : c.ip \in Hosts /\ a \in Truncated[c.ip]}
  <2>1. c.key # NoKey /\ (\/ b \in [key : {c.key}, ip : none, sound : BOOLEAN]
                          \/ b \in [key : {c.key}, ip : other, sound : {TRUE}])
    BY <1>3 DEF Remains
  <2>2. \A a \in none : a \in {NoAddress, BadAddress}
    OBVIOUS
  <2>3. \A a \in other : a \in Hosts /\ c.ip \in Hosts /\ a <= c.ip
    <3> TAKE a \in other
    <3>1. c.ip \in Hosts /\ a \in Hosts /\ a \in Truncated[c.ip]
      OBVIOUS
    <3>2. a < c.ip
      BY <3>1, DockerAssumption
    <3>3. c.ip \in Nat /\ a \in Nat
      BY <1>1, <3>1
    <3>4. a <= c.ip
      <4> HIDE DEF other
      <4> QED
        BY <3>2, <3>3
    <3> QED
      BY <3>1, <3>4
  <2> HIDE DEF none, other
  <2>4. CASE b \in [key : {c.key}, ip : none, sound : BOOLEAN]
    <3>1. b.key = c.key /\ b.ip \in none /\ b \in Block
      BY <2>2, <2>4 DEF Block
    <3> QED
      BY <1>1, <2>2, <3>1 DEF PartOf
  <2>5. CASE b \in [key : {c.key}, ip : other, sound : {TRUE}]
    <3>1. b.key = c.key /\ b.ip \in other /\ b \in Block
      BY <2>3, <2>5 DEF Block
    <3> QED
      BY <2>3, <3>1 DEF PartOf
  <2> QED
    BY <2>1, <2>4, <2>5
<1> QED
  BY <1>2, <1>3

LEMMA PrefixShape ==
    ASSUME NEW S, NEW s \in Seq(S), NEW n \in 0 .. Len(s)
    PROVE  LET t == SubSeq(s, 1, n) IN
              /\ t \in Seq(S) /\ Len(t) = n /\ DOMAIN t = 1 .. n
              /\ \A i \in 1 .. n : t[i] = s[i]
OBVIOUS

\* Blocks that are each a part of the one at their place have different keys.
LEMMA PartsHaveKeysOnce ==
    ASSUME NEW s \in Seq(Block), OneBlockEach(s), NEW t \in Seq(Block), Len(t) <= Len(s),
           \A i \in 1 .. Len(t) : PartOf(t[i], s[i])
    PROVE  OneBlockEach(t) /\ \A b \in ToSet(t) : \E c \in ToSet(s) : PartOf(b, c)
<1>1. /\ DOMAIN s = 1 .. Len(s) /\ DOMAIN t = 1 .. Len(t)
      /\ \A i \in 1 .. Len(t) : i \in 1 .. Len(s)
  OBVIOUS
<1>2. OneBlockEach(t)
  <2> SUFFICES ASSUME NEW m \in 1 .. Len(t), NEW n \in 1 .. Len(t),
                      t[m].key = t[n].key, t[m].key # NoKey
               PROVE  m = n
    BY <1>1 DEF OneBlockEach
  <2>1. s[m].key = t[m].key /\ s[n].key = t[n].key
    BY DEF PartOf
  <2> QED
    BY <1>1, <2>1 DEF OneBlockEach
<1>3. ASSUME NEW b \in ToSet(t)
      PROVE  \E c \in ToSet(s) : PartOf(b, c)
  <2>1. PICK i \in 1 .. Len(t) : b = t[i]
    BY <1>1 DEF ToSet
  <2>2. s[i] \in ToSet(s)
    BY <1>1 DEF ToSet
  <2> QED
    BY <2>1, <2>2
<1> QED
  BY <1>2, <1>3

\* A write that breaks off leaves blocks, each a part of the one that was to
\* stand at its place.
LEMMA CutOffIsPart ==
    ASSUME NEW f \in ConfigFile, NEW g \in CutOff(f)
    PROVE  /\ g \in ConfigFile
           /\ g.interface = "none" => g.blocks = << >> \/ f.interface = "none"
           /\ g.blocks = << >> \/ g.interface = f.interface
           /\ \A b \in ToSet(g.blocks) : \E c \in ToSet(f.blocks) : PartOf(b, c)
<1> DEFINE s == f.blocks
           first(n) == SubSeq(s, 1, n)
           cut1 == {first(n) : n \in 0 .. Len(s)}
           cut2 == {[first(n) EXCEPT ![n].sound = FALSE] : n \in 1 .. Len(s) - 1}
           cut3 == UNION {{Append(first(n - 1), b) : b \in Remains(s[n])} : n \in 1 .. Len(s)}
<1>1. s \in Seq(Block) /\ OneBlockEach(s) /\ DOMAIN s = 1 .. Len(s)
      /\ f.interface \in {"whole", "torn", "none"} /\ Len(s) \in Nat
  BY FileShape
<1>2. CASE g = NoFile
  <2>1. NoFile.blocks = << >> /\ NoFile.interface = "none"
    BY DEF NoFile
  <2> QED
    BY <1>2, <2>1, EmptyFile
<1>3. CASE g = [f EXCEPT !.interface = "torn", !.blocks = << >>]
  <2>1. g = [interface |-> "torn", blocks |-> << >>]
    BY <1>3 DEF ConfigFile
  <2>2. << >> \in Seq(Block) /\ OneBlockEach(<< >>) /\ ToSet(<< >>) = {}
    BY DEF OneBlockEach, ToSet
  <2> QED
    BY <2>1, <2>2 DEF ConfigFile
<1>4. ASSUME NEW t \in cut1 \cup cut2 \cup cut3, g = [f EXCEPT !.blocks = t]
      PROVE  /\ g \in ConfigFile /\ g.interface = f.interface
             /\ \A b \in ToSet(g.blocks) : \E c \in ToSet(f.blocks) : PartOf(b, c)
  <2>1. \A n \in 0 .. Len(s) :
            /\ first(n) \in Seq(Block) /\ Len(first(n)) = n /\ DOMAIN first(n) = 1 .. n
            /\ \A i \in 1 .. n : first(n)[i] = s[i]
    BY <1>1, PrefixShape
  <2> HIDE DEF s, first
  <2>2. \A i \in 1 .. Len(s) : s[i] \in Block /\ PartOf(s[i], s[i])
    <3>1. Hosts \subseteq Nat
      BY DockerAssumption DEF Hosts
    <3> QED
      BY <1>1, <3>1 DEF PartOf
  <2>3. /\ t \in Seq(Block) /\ Len(t) <= Len(s) /\ DOMAIN t = 1 .. Len(t)
        /\ \A i \in 1 .. Len(t) : PartOf(t[i], s[i])
    <3>1. CASE t \in cut1
      <4>1. PICK n \in 0 .. Len(s) : t = first(n)
        BY <3>1
      <4> QED
        BY <1>1, <2>1, <2>2, <4>1
    <3>2. CASE t \in cut2
      <4>1. PICK n \in 1 .. Len(s) - 1 : t = [first(n) EXCEPT ![n].sound = FALSE]
        BY <3>2
      <4>2. n \in 0 .. Len(s) /\ n \in 1 .. n /\ n \in 1 .. Len(s)
        BY <1>1
      <4> DEFINE b == [s[n] EXCEPT !.sound = FALSE]
      <4>3. s[n] \in Block
        BY <2>2, <4>2
      <4>4. b \in Block /\ b.key = s[n].key /\ b.ip = s[n].ip
        BY <4>3 DEF Block
      <4>5. PartOf(b, s[n])
        BY <2>2, <4>2, <4>4 DEF PartOf
      <4>6. t = [first(n) EXCEPT ![n] = b]
        BY <2>1, <4>1, <4>2
      <4> HIDE DEF b
      <4>7. t \in [1 .. n -> Block] /\ t[n] = b /\ \A i \in 1 .. n : i # n => t[i] = s[i]
        BY <2>1, <4>2, <4>4, <4>6
      <4>8. t \in Seq(Block) /\ Len(t) = n /\ DOMAIN t = 1 .. n
        BY <4>2, <4>7
      <4>9. ASSUME NEW i \in 1 .. n PROVE PartOf(t[i], s[i])
        BY <1>1, <2>2, <4>5, <4>7
      <4> QED
        BY <1>1, <4>8, <4>9
    <3>3. CASE t \in cut3
      <4>1. PICK n \in 1 .. Len(s) : t \in {Append(first(n - 1), c) : c \in Remains(s[n])}
        BY <3>3
      <4>6. PICK b \in Remains(s[n]) : t = Append(first(n - 1), b)
        BY <4>1
      <4>2. n - 1 \in 0 .. Len(s) /\ s[n] \in Block
        BY <1>1, <2>2
      <4>3. b \in Block /\ PartOf(b, s[n])
        BY <4>2, RemainsArePart
      <4>4. /\ t \in Seq(Block) /\ Len(t) = n /\ DOMAIN t = 1 .. n
            /\ t[n] = b /\ \A i \in 1 .. n - 1 : t[i] = s[i]
        BY <2>1, <4>2, <4>3, <4>6
      <4>5. ASSUME NEW i \in 1 .. n PROVE PartOf(t[i], s[i])
        <5>1. CASE i = n
          BY <4>3, <4>4, <5>1
        <5>2. CASE i # n
          BY <1>1, <2>2, <4>4, <5>2
        <5> QED
          BY <5>1, <5>2
      <4> QED
        BY <1>1, <4>4, <4>5
    <3> QED
      BY <3>1, <3>2, <3>3
  <2>4. OneBlockEach(t) /\ \A b \in ToSet(t) : \E c \in ToSet(s) : PartOf(b, c)
    BY <1>1, <2>3, PartsHaveKeysOnce
  <2>5. g \in ConfigFile /\ g.blocks = t /\ g.interface = f.interface
    BY <1>1, <1>4, <2>3, <2>4, FileShape DEF ConfigFile
  <2> QED
    BY <2>4, <2>5 DEF s
<1>5. \/ g = NoFile
      \/ g = [f EXCEPT !.interface = "torn", !.blocks = << >>]
      \/ \E t \in cut1 \cup cut2 \cup cut3 : g = [f EXCEPT !.blocks = t]
  BY DEF CutOff
<1> QED
  BY <1>2, <1>3, <1>4, <1>5

-----------------------------------------------------------------------------
(* The type, for any number of processes.                                  *)

\* The file at the start holds the foreign peers under their addresses, and
\* the interface routes them all.
LEMMA InitialFile ==
    ASSUME Init
    PROVE  /\ file \in ConfigFile /\ file.interface = "whole"
           /\ KeysOf(file) = Foreign /\ PeersOf(file) \subseteq Foreign
           /\ Lower(file)
<1>1. /\ Foreign \subseteq Keys /\ IsFiniteSet(Foreign) /\ NoKey \notin Foreign
      /\ ForeignAddress \in [Foreign -> Hosts] /\ Hosts \subseteq Nat
  BY DockerAssumption DEF Hosts
<1> DEFINE s == SetToSeq(Foreign)
<1>2. s \in Seq(Foreign) /\ IsInjective(s) /\ ToSet(s) = Foreign
  BY <1>1, SetToSeqEnumerates
<1> HIDE DEF s
<1> DEFINE t == [i \in DOMAIN s |-> [key |-> s[i], ip |-> ForeignAddress[s[i]], sound |-> TRUE]]
<1>3. file = [interface |-> "whole", blocks |-> t]
  BY DEF Init, ForeignBlocks, s
<1>4. DOMAIN s = 1 .. Len(s) /\ Len(s) \in Nat /\ \A i \in 1 .. Len(s) : s[i] \in Foreign
  BY <1>2
<1>5. /\ t \in Seq(Block) /\ DOMAIN t = 1 .. Len(s)
      /\ \A i \in 1 .. Len(s) : t[i].key = s[i] /\ t[i].ip = ForeignAddress[s[i]]
  <2>1. \A i \in 1 .. Len(s) : t[i] \in Block
    BY <1>1, <1>4 DEF Block
  <2> QED
    BY <1>4, <2>1
<1> HIDE DEF t
<1>6. OneBlockEach(t)
  BY <1>2, <1>4, <1>5 DEF OneBlockEach, IsInjective
<1>7. ToSet(file.blocks) = {t[i] : i \in 1 .. Len(s)}
  BY <1>3, <1>5 DEF ToSet
<1>8. Foreign = {s[i] : i \in 1 .. Len(s)}
  BY <1>2, <1>4 DEF ToSet
<1>9. KeysOf(file) = Foreign
  <2>1. {b.key : b \in ToSet(file.blocks)} = {t[i].key : i \in 1 .. Len(s)}
    BY <1>7
  <2>2. {t[i].key : i \in 1 .. Len(s)} = {s[i] : i \in 1 .. Len(s)}
    BY <1>5
  <2> QED
    BY <1>1, <1>8, <2>1, <2>2 DEF KeysOf
<1>10. PeersOf(file) \subseteq Foreign
  BY <1>9, RoutedPeersKeys
<1>11. \A b \in ToSet(file.blocks) : b.ip <= address[b.key]
  <2> SUFFICES ASSUME NEW i \in 1 .. Len(s)
               PROVE  t[i].ip <= address[t[i].key]
    BY <1>7
  <2>1. s[i] \in Foreign /\ s[i] \in Keys
    BY <1>1, <1>4
  <2>2. address[s[i]] = ForeignAddress[s[i]] /\ ForeignAddress[s[i]] \in Nat
    BY <1>1, <2>1 DEF Init
  <2> QED
    BY <1>5, <2>2
<1>12. file \in ConfigFile
  BY <1>3, <1>5, <1>6 DEF ConfigFile
<1> QED
  BY <1>3, <1>9, <1>10, <1>11, <1>12 DEF Lower

\* What an edit writes is a config file.
LEMMA EditedFile ==
    ASSUME TypeInv, NEW p \in Procs, pc[p] = "write"
    PROVE  Edited(p) \in ConfigFile
<1>1. copy[p] \in ConfigFile /\ job[p].key \in Keys /\ address \in [Keys -> Hosts \cup {NoAddress}]
  BY DEF TypeInv, TypeOK, BusyHasKey
<1>2. CASE job[p].kind \in Applying
  BY <1>1, <1>2, UpsertAdds DEF Edited
<1>3. CASE job[p].kind \notin Applying
  BY <1>1, <1>3, RemoveRemoves DEF Edited
<1> QED
  BY <1>2, <1>3

\* An address that a grant picks is a free host of the network.
LEMMA AllocatedIsFree ==
    ASSUME FreeAddresses # {}
    PROVE  AllocateVpnIp \in FreeAddresses /\ AllocateVpnIp \in Hosts
<1>1. FreeAddresses \subseteq Hosts /\ Hosts \subseteq Nat
  BY DockerAssumption DEF FreeAddresses, Hosts
<1> QED
  BY <1>1, MinIsLeast DEF AllocateVpnIp

LEMMA TypeInit == Init => TypeInv
<1> SUFFICES ASSUME Init PROVE TypeInv
  OBVIOUS
<1>1. file \in ConfigFile
  BY InitialFile
<1>2. NoFile \in ConfigFile
  BY EmptyFile
<1>3. address \in [Keys -> Hosts \cup {NoAddress}] /\ live \subseteq Keys
  BY DockerAssumption DEF Init
<1>4. NoJob \in Job
  BY DEF NoJob, Job
<1>5. TypeOK
  BY <1>1, <1>2, <1>3, <1>4 DEF Init, TypeOK, RowStatus, PC
<1> QED
  BY <1>5 DEF Init, TypeInv, BusyHasKey

\* The end of a request, whichever it is, leaves its process without a job.
LEMMA StopTyped ==
    ASSUME TypeInv, NEW p \in Procs, Stop(p)
    PROVE  /\ pc' \in [Procs -> PC] /\ job' \in [Procs -> Job]
           /\ copy' \in [Procs -> ConfigFile]
           /\ readers' \subseteq Procs /\ holder' \in Procs \cup {NoProc}
           /\ BusyHasKey'
<1>1. NoFile \in ConfigFile
  BY EmptyFile
<1>2. NoJob \in Job
  BY DEF NoJob, Job
<1> QED
  BY <1>1, <1>2 DEF TypeInv, TypeOK, BusyHasKey, Stop, Goto, PC

\* A start of the container that took effect.
LEMMA RestartsTyped ==
    ASSUME Restarts
    PROVE  up' \in BOOLEAN /\ live' \subseteq Keys
<1>1. up' \in BOOLEAN
  BY DEF Restarts, Loads
<1>2. live' \subseteq Keys
  BY DEF Restarts, Serves, Routed
<1> QED
  BY <1>1, <1>2

LEMMA TypeNext == TypeInv /\ [Next]_vars => TypeInv'
<1> SUFFICES ASSUME TypeInv, [Next]_vars PROVE TypeInv'
  OBVIOUS
<1> USE DEF TypeInv
<1>1. ASSUME NEW p \in Procs, NEW k \in Keys, StartGrant(p, k)
      PROVE  TypeInv'
  <2>1. AllocateVpnIp \in Hosts
    BY <1>1, AllocatedIsFree DEF StartGrant
  <2>2. [kind |-> "grant", key |-> k] \in Job
    BY DEF Job, Applying
  <2> QED
    BY <1>1, <2>1, <2>2
    DEF TypeOK, BusyHasKey, StartGrant, Begin, Goto, PC, node, Applying
<1>2. ASSUME NEW p \in Procs, NEW k \in Keys,
             NEW label \in {"read", "local"}, NEW kind \in Applying \cup Removing,
             Start(p, label, kind, k)
      PROVE  TypeInv'
  <2>1. [kind |-> kind, key |-> k] \in Job
    BY DEF Job
  <2> QED
    BY <1>2, <2>1 DEF TypeOK, BusyHasKey, Start, Begin, Goto, PC, node, registry
<1>3. ASSUME NEW p \in Procs, NEW k \in Keys,
             \/ StartRevoke(p, k) \/ StartDisable(p, k) \/ StartEnable(p, k)
             \/ StartAddMissing(p, k) \/ StartRemoveUnknown(p, k)
      PROVE  TypeInv'
  BY <1>2, <1>3
  DEF StartRevoke, StartDisable, StartEnable, StartAddMissing, StartRemoveUnknown,
      Applying, Removing
<1>4. ASSUME NEW p \in Procs, InsertRow(p)
      PROVE  TypeInv'
  BY <1>4 DEF TypeOK, BusyHasKey, InsertRow, Goto, PC, node
<1>5. ASSUME NEW p \in Procs, ReadDockerConfig(p)
      PROVE  TypeInv'
  BY <1>5 DEF TypeOK, BusyHasKey, ReadDockerConfig, Goto, PC, node, registry
<1>6. ASSUME NEW p \in Procs, WriteDockerConfig(p)
      PROVE  TypeInv'
  <2>1. Edited(p) \in ConfigFile
    BY <1>6, EditedFile DEF WriteDockerConfig
  <2> QED
    BY <1>6, <2>1 DEF TypeOK, BusyHasKey, WriteDockerConfig, Goto, PC, registry
<1>7. ASSUME NEW p \in Procs, RestartDockerContainer(p)
      PROVE  TypeInv'
  <2>1. up' \in BOOLEAN /\ live' \subseteq Keys
    BY <1>7, RestartsTyped DEF RestartDockerContainer
  <2> QED
    BY <1>7, <2>1 DEF TypeOK, BusyHasKey, RestartDockerContainer, Goto, PC, registry
<1>8. ASSUME NEW p \in Procs, WriteLocal(p)
      PROVE  TypeInv'
  <2> DEFINE k == job[p].key
  <2>1. k \in Keys /\ job[p].kind \in Applying \cup Removing
    BY <1>8 DEF WriteLocal, BusyHasKey
  <2>2. RowAfter(k, job[p].kind) \in RowStatus
    BY <2>1 DEF RowAfter, RowStatus, TypeOK
  <2>3. row' \in [Keys -> RowStatus] /\ doubt' \subseteq Keys
    BY <1>8, <2>1, <2>2 DEF WriteLocal, TypeOK
  <2>4. Stop(p)
    BY <1>8 DEF WriteLocal
  <2> QED
    BY <1>8, <2>3, <2>4, StopTyped DEF WriteLocal, TypeOK, node
<1>9. ASSUME NEW p \in Procs, FailEarly(p)
      PROVE  TypeInv'
  <2>1. Stop(p) /\ address' \in [Keys -> Hosts \cup {NoAddress}]
    BY <1>9 DEF FailEarly, TypeOK
  <2> QED
    BY <1>9, <2>1, StopTyped DEF FailEarly, TypeOK, node
<1>10. ASSUME NEW p \in Procs, FailWrite(p)
       PROVE  TypeInv'
  <2>1. Edited(p) \in ConfigFile
    BY <1>10, EditedFile DEF FailWrite
  <2>2. file' \in ConfigFile
    BY <1>10, <2>1, CutOffIsPart DEF FailWrite
  <2>3. doubt' \subseteq Keys
    BY <1>10, RoutedPeersKeys DEF FailWrite, Doubts, TypeOK, BusyHasKey
  <2>4. Stop(p)
    BY <1>10 DEF FailWrite
  <2> QED
    BY <1>10, <2>2, <2>3, <2>4, StopTyped DEF FailWrite, TypeOK
<1>11. ASSUME NEW p \in Procs, FailRestart(p)
       PROVE  TypeInv'
  <2>1. up' \in BOOLEAN /\ live' \subseteq Keys
    BY <1>11, RestartsTyped DEF FailRestart, TypeOK
  <2>2. Stop(p) /\ doubt' \subseteq Keys
    BY <1>11 DEF FailRestart, Doubts, TypeOK, BusyHasKey
  <2> QED
    BY <1>11, <2>1, <2>2, StopTyped DEF FailRestart, TypeOK
<1>12. ASSUME NEW p \in Procs, FailLocal(p)
       PROVE  TypeInv'
  <2>1. Stop(p) /\ doubt' \subseteq Keys
    BY <1>12 DEF FailLocal, Doubts, TypeOK, BusyHasKey
  <2> QED
    BY <1>12, <2>1, StopTyped DEF FailLocal, TypeOK, node
<1>13. CASE UNCHANGED vars
  BY <1>13 DEF TypeOK, BusyHasKey, vars, node, registry
<1> QED
  BY <1>1, <1>3, <1>4, <1>5, <1>6, <1>7, <1>8, <1>9, <1>10, <1>11, <1>12, <1>13
  DEF Next, Work

\* Whatever fails, and wherever in a block a write breaks off, the config
\* file holds one block for a key at most, a request under way is about a key
\* pair, and every status is one the schema allows.
THEOREM TypeCorrect == Spec => []TypeOK
<1>1. TypeInv => TypeOK
  BY DEF TypeInv
<1> QED
  BY <1>1, TypeInit, TypeNext, PTL DEF Spec

-----------------------------------------------------------------------------
(* One request at a time.                                                  *)

LEMMA KnownAreKeys ==
    ASSUME TypeInv
    PROVE  KeysOf(file) \subseteq Known /\ Known \subseteq Keys
<1>1. KeysOf(file) \subseteq Keys
  <2> SUFFICES ASSUME NEW b \in ToSet(file.blocks), b.key # NoKey
               PROVE  b.key \in Keys
    BY DEF KeysOf
  <2>1. b \in Block
    BY FileShape DEF TypeInv, TypeOK, ToSet
  <2> QED
    BY <2>1 DEF Block
<1> QED
  BY <1>1 DEF TypeInv, TypeOK, Known, ReservedKeys

\* What the next state says of its file, when no address changes.
LEMMA PrimedFile ==
    ASSUME UNCHANGED address
    PROVE  /\ PeersOf(file)' = PeersOf(file') /\ Routed(file)' = Routed(file')
           /\ KeysOf(file)' = KeysOf(file')
           /\ NoneIsHigher' <=> Lower(file')
<1>1. PeersOf(file)' = PeersOf(file')
  BY DEF PeersOf, Names
<1>2. Routed(file)' = Routed(file')
  BY DEF Routed, Names
<1>3. KeysOf(file)' = KeysOf(file')
  BY DEF KeysOf
<1>4. NoneIsHigher' <=> Lower(file')
  BY DEF NoneIsHigher, Lower
<1> QED
  BY <1>1, <1>2, <1>3, <1>4

\* A file is read as before when no address of its keys changes.
LEMMA FileStays ==
    ASSUME UNCHANGED file, \A x \in KeysOf(file) : address'[x] = address[x]
    PROVE  /\ PeersOf(file)' = PeersOf(file) /\ Routed(file)' = Routed(file)
           /\ KeysOf(file)' = KeysOf(file)
           /\ NoneIsHigher' <=> NoneIsHigher
<1>1. KeysOf(file)' = KeysOf(file)
  BY DEF KeysOf
<1>2. \A b \in ToSet(file.blocks), x \in Keys :
          b.key = x => (Names(b, x)' <=> Names(b, x)) /\ x \in KeysOf(file)
  <2> TAKE b \in ToSet(file.blocks), x \in Keys
  <2> HAVE b.key = x
  <2>1. x \in KeysOf(file)
    BY DockerAssumption DEF KeysOf
  <2> QED
    BY <2>1 DEF Names
<1>3. \A b \in ToSet(file.blocks), x \in Keys : Names(b, x)' <=> Names(b, x)
  BY <1>2 DEF Names
<1>4. PeersOf(file)' = PeersOf(file)
  BY <1>3 DEF PeersOf
<1>5. Routed(file)' = Routed(file)
  <2>1. \A i \in DOMAIN file.blocks : file.blocks[i] \in ToSet(file.blocks)
    BY DEF ToSet
  <2>2. ASSUME NEW x \in Keys, NEW i \in DOMAIN file.blocks
        PROVE  (/\ Names(file.blocks[i], x)
                /\ \A j \in DOMAIN file.blocks : j > i => file.blocks[j].ip # address[x])'
               <=>
               (/\ Names(file.blocks[i], x)
                /\ \A j \in DOMAIN file.blocks : j > i => file.blocks[j].ip # address[x])
    <3>1. CASE file.blocks[i].key = x
      <4>1. address'[x] = address[x]
        BY <1>2, <2>1, <3>1
      <4> QED
        BY <4>1 DEF Names
    <3>2. CASE file.blocks[i].key # x
      BY <3>2 DEF Names
    <3> QED
      BY <3>1, <3>2
  <2> QED
    BY <2>2 DEF Routed
<1>6. NoneIsHigher' <=> NoneIsHigher
  <2>1. \A b \in ToSet(file.blocks) : b.key # NoKey => b.key \in KeysOf(file)
    BY DEF KeysOf
  <2> QED
    BY <2>1 DEF NoneIsHigher, Lower
<1> QED
  BY <1>1, <1>4, <1>5, <1>6

\* Parts of blocks name no key or peer that the blocks did not.
LEMMA PartsNameLess ==
    ASSUME NEW f, NEW g, Lower(f), address \in [Keys -> Hosts \cup {NoAddress}],
           \A b \in ToSet(g.blocks) : \E c \in ToSet(f.blocks) : PartOf(b, c),
           KeysOf(f) \subseteq Keys
    PROVE  /\ KeysOf(g) \subseteq KeysOf(f) /\ PeersOf(g) \subseteq PeersOf(f)
           /\ Lower(g)
<1>1. Hosts \subseteq Nat /\ NoKey \notin Keys
      /\ \A x \in Keys : address[x] \in Nat
  BY DockerAssumption DEF Hosts, NoAddress
<1>2. KeysOf(g) \subseteq KeysOf(f)
  BY DEF KeysOf, PartOf
<1>3. ASSUME NEW b \in ToSet(g.blocks), b.key # NoKey, b.ip \in Hosts
      PROVE  \E c \in ToSet(f.blocks) :
                /\ c.key = b.key /\ c.ip \in Hosts /\ c.key \in Keys
                /\ b.ip <= c.ip /\ c.ip <= address[c.key]
  <2>1. PICK c \in ToSet(f.blocks) : PartOf(b, c)
    OBVIOUS
  <2>2. c.key = b.key /\ c.ip \in Hosts /\ b.ip <= c.ip
    BY <1>3, <2>1 DEF PartOf
  <2>3. c.ip <= address[c.key] /\ c.key \in Keys
    BY <1>3, <2>2 DEF Lower, KeysOf
  <2> QED
    BY <2>2, <2>3
<1>4. ASSUME NEW x \in PeersOf(g)
      PROVE  x \in PeersOf(f)
  <2>1. PICK b \in ToSet(g.blocks) : Names(b, x) /\ x \in Keys
    BY DEF PeersOf
  <2>2. b.key = x /\ b.ip = address[x] /\ b.ip \in Hosts /\ b.key # NoKey
    BY <1>1, <2>1 DEF Names
  <2>3. PICK c \in ToSet(f.blocks) :
           /\ c.key = b.key /\ c.ip \in Hosts
           /\ b.ip <= c.ip /\ c.ip <= address[c.key]
    BY <1>3, <2>2
  <2>4. c.ip = address[x]
    BY <1>1, <2>2, <2>3
  <2> QED
    BY <2>1, <2>2, <2>3, <2>4 DEF PeersOf, Names
<1>5. Lower(g)
  <2> SUFFICES ASSUME NEW b \in ToSet(g.blocks), b.key # NoKey, b.ip \in Hosts
               PROVE  b.ip <= address[b.key]
    BY DEF Lower
  <2>1. PICK c \in ToSet(f.blocks) :
           /\ c.key = b.key /\ c.ip \in Hosts /\ c.key \in Keys
           /\ b.ip <= c.ip /\ c.ip <= address[c.key]
    BY <1>3
  <2>2. b.ip \in Nat /\ c.ip \in Nat /\ address[b.key] \in Nat
    BY <1>1, <2>1
  <2>3. c.ip <= address[b.key]
    BY <2>1
  <2> QED
    BY <2>1, <2>2, <2>3
<1> QED
  BY <1>2, <1>4, <1>5

LEMMA InvInit == Init => IInv
<1> SUFFICES ASSUME Init PROVE IInv
  OBVIOUS
<1>1. TypeInv
  BY TypeInit
<1>2. /\ PeersOf(file) \subseteq Foreign /\ KeysOf(file) = Foreign /\ live = Foreign
      /\ file.interface = "whole" /\ NoneIsHigher /\ up
  BY InitialFile DEF Init, NoneIsHigher
<1>3. ReservedKeys = {} /\ ActiveKeys = {}
  BY DEF Init, ReservedKeys, ActiveKeys
<1>4. \A k \in Foreign : address[k] = ForeignAddress[k] /\ address[k] # NoAddress
  BY DockerAssumption DEF Init, Hosts, NoAddress
<1>5. RequestInv
  BY <1>2 DEF Init, RequestInv, ListedIsGrant, EmptyWithoutInterface, DownServesNobody,
              RowAsFound, CopyIsFile, EditLanded
<1>6. AddressUnique
  BY <1>2, <1>3, <1>4, DockerAssumption DEF AddressUnique, DistinctAddresses, IsInjective
<1>7. AddressInv
  BY <1>2, <1>3, <1>4, <1>6
  DEF Init, AddressInv, KnownHasAddress, GrantIsFresh, Known, NoJob
<1>8. ServiceInv
  BY <1>2, <1>3 DEF Init, ServiceInv, ServedUnlessInHand, OffNodeAgrees, Agrees
<1> QED
  BY <1>1, <1>5, <1>7, <1>8 DEF IInv

\* A request begins from rest, by a read of the file or, when a disabled
\* device is revoked, by the registry at once.
LEMMA StartsFromRest ==
    ASSUME NEW p \in Procs, NEW k \in Keys,
           \/ StartRevoke(p, k) \/ StartDisable(p, k) \/ StartEnable(p, k)
           \/ StartAddMissing(p, k) \/ StartRemoveUnknown(p, k)
    PROVE  \E label \in {"read", "local"}, kind \in (Applying \cup Removing) \ {"grant"} :
              /\ Start(p, label, kind, k)
              /\ label = "local" => kind = "revoke" /\ row[k] = "disabled"
              /\ kind \in {"disable", "add_missing"} => row[k] = "active"
              /\ kind = "enable" => row[k] = "disabled"
              /\ kind = "revoke" /\ label = "read" => row[k] = "active"
BY DEF StartRevoke, StartDisable, StartEnable, StartAddMissing, StartRemoveUnknown,
       Applying, Removing

\* When its only request has ended, no clause about a request is left to
\* show.
LEMMA StopClears ==
    ASSUME Solo, TypeInv, NEW p \in Procs, Stop(p)
    PROVE  /\ ListedIsGrant' /\ RowAsFound' /\ CopyIsFile' /\ EditLanded'
           /\ GrantIsFresh' /\ OffNodeAgrees'
           /\ \A k \in Keys : ~InHand(k)'
<1>1. \A q \in Procs : pc'[q] = "idle"
  BY DEF Solo, TypeInv, TypeOK, Stop, Goto
<1> QED
  BY <1>1 DEF ListedIsGrant, RowAsFound, CopyIsFile, EditLanded, GrantIsFresh,
              OffNodeAgrees, InHand

\* The clauses that speak of the state, given that a request's action left
\* the node, the rows and the addresses alone.
LEMMA NothingMoved ==
    ASSUME IInv, UNCHANGED <<file, up, live, row, address>>
    PROVE  /\ Known' = Known /\ ReservedKeys' = ReservedKeys /\ ActiveKeys' = ActiveKeys
           /\ PeersOf(file)' = PeersOf(file) /\ Routed(file)' = Routed(file)
           /\ EmptyWithoutInterface' /\ DownServesNobody'
           /\ KnownHasAddress' /\ NoneIsHigher' /\ AddressUnique'
           /\ \A k \in Keys : Agrees(k)' <=> Agrees(k)
<1>1. UNCHANGED <<file, up, live>>
  OBVIOUS
<1>2. /\ PeersOf(file)' = PeersOf(file) /\ Routed(file)' = Routed(file)
      /\ KeysOf(file)' = KeysOf(file) /\ NoneIsHigher'
  BY <1>1, FileStays DEF IInv, AddressInv
<1>3. Known' = Known /\ ReservedKeys' = ReservedKeys /\ ActiveKeys' = ActiveKeys
  BY <1>1, <1>2 DEF Known, ReservedKeys, ActiveKeys
<1>4. EmptyWithoutInterface' /\ DownServesNobody' /\ KnownHasAddress'
  BY <1>1, <1>3
  DEF IInv, RequestInv, AddressInv, EmptyWithoutInterface, DownServesNobody, KnownHasAddress
<1>5. AddressUnique'
  BY <1>1, <1>2, <1>3 DEF IInv, AddressInv, AddressUnique, DistinctAddresses
<1>6. \A k \in Keys : Agrees(k)' <=> Agrees(k)
  BY <1>1, <1>2, <1>3 DEF Agrees
<1> QED
  BY <1>2, <1>3, <1>4, <1>5, <1>6

\* A grant begins with a key pair and an address that are nowhere.
LEMMA StartGrantKeeps ==
    ASSUME Solo, IInv, TypeInv', NEW p \in Procs, NEW k \in Keys, StartGrant(p, k)
    PROVE  IInv'
<1> USE DEF Solo, IInv, TypeInv, TypeOK
<1>1. /\ UNCHANGED <<file, up, live, row, doubt>>
      /\ pc[p] = "idle" /\ pc' = [pc EXCEPT ![p] = "listed"]
      /\ job' = [job EXCEPT ![p] = [kind |-> "grant", key |-> k]]
      /\ address[k] = NoAddress
      /\ address' = [address EXCEPT ![k] = AllocateVpnIp]
  BY DEF StartGrant, Begin, Goto, node
<1>2. \A q \in Procs : pc'[q] = "listed" /\ job'[q] = [kind |-> "grant", key |-> k]
  BY <1>1
<1>3. k \notin Known
  BY <1>1 DEF AddressInv, KnownHasAddress
<1>4. \A j \in Known : address'[j] = address[j]
  BY <1>1, <1>3, KnownAreKeys
<1>5. /\ PeersOf(file)' = PeersOf(file) /\ Routed(file)' = Routed(file)
      /\ KeysOf(file)' = KeysOf(file) /\ NoneIsHigher'
  BY <1>1, <1>4, KnownAreKeys, FileStays DEF AddressInv
<1>6. Known' = Known /\ ReservedKeys' = ReservedKeys /\ ActiveKeys' = ActiveKeys
  BY <1>1, <1>5 DEF Known, ReservedKeys, ActiveKeys
<1>7. AllocateVpnIp \in FreeAddresses /\ AllocateVpnIp \in Hosts
  BY AllocatedIsFree DEF StartGrant
<1>8. address'[k] = AllocateVpnIp /\ AllocateVpnIp # NoAddress
  BY <1>1, <1>7, DockerAssumption DEF Hosts, NoAddress
<1>9. \A j \in PeersOf(file) \cup ReservedKeys : address[j] # AllocateVpnIp
  <2>1. \A j \in ReservedKeys : address[j] # AllocateVpnIp
    BY <1>7 DEF FreeAddresses, AddressesOf
  <2>2. ASSUME NEW j \in PeersOf(file)
        PROVE  address[j] # AllocateVpnIp
    <3>1. PICK b \in ToSet(file.blocks) : Names(b, j)
      BY DEF PeersOf
    <3>2. address[j] \in Hosts /\ AllocateVpnIp > address[j]
      BY <1>7, <3>1 DEF FreeAddresses, Names
    <3>3. address[j] \in Nat
      BY <3>2, DockerAssumption DEF Hosts
    <3> QED
      BY <3>2, <3>3
  <2> QED
    BY <2>1, <2>2
<1>10. PeersOf(file) \subseteq Known /\ ReservedKeys \subseteq Known
  BY RoutedPeersKeys DEF Known
<1>11. RequestInv'
  <2>1. /\ EmptyWithoutInterface' /\ DownServesNobody' /\ ListedIsGrant'
        /\ CopyIsFile' /\ EditLanded'
    BY <1>1, <1>2 DEF RequestInv, EmptyWithoutInterface, DownServesNobody, ListedIsGrant,
                      CopyIsFile, EditLanded
  <2>2. RowAsFound'
    BY <1>2, <1>3, <1>6 DEF RowAsFound, Known
  <2> QED
    BY <2>1, <2>2 DEF RequestInv
<1>12. KnownHasAddress'
  BY <1>4, <1>6 DEF AddressInv, KnownHasAddress
<1>13. GrantIsFresh'
  <2>1. \A j \in PeersOf(file) \cup ReservedKeys : address'[j] # AllocateVpnIp
    BY <1>4, <1>9, <1>10
  <2> QED
    BY <1>1, <1>2, <1>3, <1>5, <1>6, <1>7, <1>8, <2>1 DEF GrantIsFresh, Hosts
<1>14. AddressUnique'
  BY <1>1, <1>4, <1>5, <1>6, <1>10 DEF AddressInv, AddressUnique, DistinctAddresses, Known
<1>15. ServiceInv'
  <2>1. \A j \in Keys : Agrees(j)' <=> Agrees(j)
    BY <1>1, <1>5, <1>6 DEF Agrees
  <2>2. \A j \in Keys : ~InHand(j)
    BY <1>1 DEF InHand
  <2>3. ServedUnlessInHand'
    BY <1>1, <2>1, <2>2 DEF ServiceInv, ServedUnlessInHand
  <2> QED
    BY <1>2, <2>3 DEF ServiceInv, OffNodeAgrees
<1> QED
  BY <1>5, <1>11, <1>12, <1>13, <1>14, <1>15 DEF AddressInv

\* Any other request begins with a device in the status the request is for.
LEMMA StartKeeps ==
    ASSUME Solo, IInv, TypeInv', NEW p \in Procs, NEW k \in Keys,
           \/ StartRevoke(p, k) \/ StartDisable(p, k) \/ StartEnable(p, k)
           \/ StartAddMissing(p, k) \/ StartRemoveUnknown(p, k)
    PROVE  IInv'
<1> USE DEF Solo, IInv, TypeInv, TypeOK
<1>1. PICK label \in {"read", "local"}, kind \in (Applying \cup Removing) \ {"grant"} :
         /\ Start(p, label, kind, k)
         /\ label = "local" => kind = "revoke" /\ row[k] = "disabled"
         /\ kind \in {"disable", "add_missing"} => row[k] = "active"
         /\ kind = "enable" => row[k] = "disabled"
         /\ kind = "revoke" /\ label = "read" => row[k] = "active"
  BY StartsFromRest
<1>2. /\ UNCHANGED <<node, file, up, live, row, address, doubt>>
      /\ pc[p] = "idle" /\ pc' = [pc EXCEPT ![p] = label]
      /\ job' = [job EXCEPT ![p] = [kind |-> kind, key |-> k]]
  BY <1>1 DEF Start, Begin, Goto, node, registry
<1>3. \A q \in Procs : q = p /\ pc'[q] = label /\ job'[q].kind = kind /\ job'[q].key = k
  BY <1>2
<1>4. /\ Known' = Known /\ ReservedKeys' = ReservedKeys /\ ActiveKeys' = ActiveKeys
      /\ PeersOf(file)' = PeersOf(file)
      /\ EmptyWithoutInterface' /\ DownServesNobody'
      /\ KnownHasAddress' /\ NoneIsHigher' /\ AddressUnique'
      /\ \A j \in Keys : Agrees(j)' <=> Agrees(j)
  BY <1>2, NothingMoved
<1>5. RequestInv'
  <2>1. ListedIsGrant' /\ CopyIsFile'
    BY <1>3 DEF ListedIsGrant, CopyIsFile
  <2>2. RowAsFound'
    BY <1>1, <1>2, <1>3 DEF RowAsFound, Removing
  <2>3. EditLanded'
    BY <1>1, <1>2, <1>3 DEF EditLanded, ViaNode, Applying, Removing
  <2> QED
    BY <1>4, <2>1, <2>2, <2>3 DEF RequestInv
<1>6. AddressInv'
  BY <1>3, <1>4 DEF AddressInv, GrantIsFresh
<1>7. ServedUnlessInHand /\ \A j \in Keys : ~InHand(j)
  BY <1>2 DEF ServiceInv, InHand
<1>8. ServedUnlessInHand'
  BY <1>2, <1>4, <1>7 DEF ServedUnlessInHand
<1>9. OffNodeAgrees'
  <2> SUFFICES ASSUME label = "local", kind = "revoke", k \notin Foreign \cup doubt
               PROVE  k \notin PeersOf(file) \cup live
    BY <1>2, <1>3, <1>4 DEF OffNodeAgrees
  <2>1. Agrees(k) /\ row[k] = "disabled"
    BY <1>1, <1>7 DEF ServedUnlessInHand
  <2> QED
    BY <2>1 DEF Agrees, ActiveKeys, RequestInv, DownServesNobody
<1> QED
  BY <1>5, <1>6, <1>8, <1>9 DEF ServiceInv

\* The lock changes nothing a clause speaks of.
LEMMA InsertKeeps ==
    ASSUME Solo, IInv, TypeInv', NEW p \in Procs, InsertRow(p)
    PROVE  IInv'
<1> USE DEF Solo, IInv, TypeInv, TypeOK
<1>1. UNCHANGED <<node, file, up, live, row, address, doubt, job, copy>>
  BY DEF InsertRow, node
<1>2. pc[p] = "listed" /\ \A q \in Procs : q = p /\ pc'[q] = "read"
  BY DEF InsertRow, Goto
<1>3. /\ Known' = Known /\ ReservedKeys' = ReservedKeys /\ ActiveKeys' = ActiveKeys
      /\ PeersOf(file)' = PeersOf(file)
      /\ EmptyWithoutInterface' /\ DownServesNobody'
      /\ KnownHasAddress' /\ NoneIsHigher' /\ AddressUnique'
      /\ \A j \in Keys : Agrees(j)' <=> Agrees(j)
  BY <1>1, NothingMoved
<1>4. RequestInv'
  <2>1. ListedIsGrant' /\ CopyIsFile' /\ EditLanded'
    BY <1>2 DEF ListedIsGrant, CopyIsFile, EditLanded
  <2>2. RowAsFound'
    BY <1>1, <1>2, <1>3 DEF RequestInv, RowAsFound, ListedIsGrant
  <2> QED
    BY <1>3, <2>1, <2>2 DEF RequestInv
<1>5. AddressInv'
  BY <1>1, <1>2, <1>3 DEF AddressInv, GrantIsFresh
<1>6. \A j \in Keys : ~InHand(j)
  BY <1>2 DEF InHand
<1>7. ServiceInv'
  BY <1>1, <1>2, <1>3, <1>6 DEF ServiceInv, ServedUnlessInHand, OffNodeAgrees
<1> QED
  BY <1>4, <1>5, <1>7

\* What was read is the file; a peer is added only to one with an address in
\* its [Interface].
LEMMA ReadKeeps ==
    ASSUME Solo, IInv, TypeInv', NEW p \in Procs, ReadDockerConfig(p)
    PROVE  IInv'
<1> USE DEF Solo, IInv, TypeInv, TypeOK
<1>1. /\ UNCHANGED <<node, file, up, live, row, address, doubt, job>>
      /\ pc[p] = "read" /\ pc' = [pc EXCEPT ![p] = "write"]
      /\ copy' = [copy EXCEPT ![p] = file]
      /\ job[p].kind \in Applying => file.interface # "none"
  BY DEF ReadDockerConfig, Goto, NetworkMatches, node, registry
<1>2. \A q \in Procs : q = p /\ pc'[q] = "write" /\ copy'[q] = file
  BY <1>1
<1>3. /\ Known' = Known /\ ReservedKeys' = ReservedKeys /\ ActiveKeys' = ActiveKeys
      /\ PeersOf(file)' = PeersOf(file)
      /\ EmptyWithoutInterface' /\ DownServesNobody'
      /\ KnownHasAddress' /\ NoneIsHigher' /\ AddressUnique'
      /\ \A j \in Keys : Agrees(j)' <=> Agrees(j)
  BY <1>1, NothingMoved
<1>4. RequestInv'
  <2>1. ListedIsGrant' /\ CopyIsFile' /\ EditLanded'
    BY <1>1, <1>2 DEF ListedIsGrant, CopyIsFile, EditLanded
  <2>2. RowAsFound'
    BY <1>1, <1>2, <1>3 DEF RequestInv, RowAsFound
  <2> QED
    BY <1>3, <2>1, <2>2 DEF RequestInv
<1>5. AddressInv'
  BY <1>1, <1>2, <1>3 DEF AddressInv, GrantIsFresh
<1>6. \A j \in Keys : ~InHand(j)
  BY <1>1 DEF InHand
<1>7. ServiceInv'
  BY <1>1, <1>2, <1>3, <1>6 DEF ServiceInv, ServedUnlessInHand, OffNodeAgrees
<1> QED
  BY <1>4, <1>5, <1>7

\* A key pair that may be added has an address of its own: it is a granted
\* one, or of a device that keeps its address.
LEMMA AddedIsDistinct ==
    ASSUME IInv, NEW p \in Procs, pc[p] = "write", job[p].kind \in Applying
    PROVE  LET k == job[p].key IN
              /\ address[k] \in Hosts
              /\ DistinctAddresses(PeersOf(file) \cup {k} \cup ReservedKeys)
<1> DEFINE k == job[p].key
<1>1. DistinctAddresses(PeersOf(file) \cup ReservedKeys)
  BY DEF IInv, AddressInv, AddressUnique
<1>2. CASE job[p].kind = "grant"
  <2>1. /\ address[k] \in Hosts
        /\ \A j \in PeersOf(file) \cup ReservedKeys : address[j] # address[k]
    BY <1>2, RoutedPeersKeys DEF IInv, AddressInv, GrantIsFresh
  <2> QED
    BY <1>1, <2>1 DEF DistinctAddresses
<1>3. CASE job[p].kind # "grant"
  <2>1. row[k] \in {"active", "disabled"} /\ k \in Keys
    BY <1>3 DEF IInv, TypeInv, BusyHasKey, RequestInv, RowAsFound, Applying
  <2>2. k \in ReservedKeys
    BY <2>1 DEF ReservedKeys
  <2>3. PeersOf(file) \cup {k} \cup ReservedKeys = PeersOf(file) \cup ReservedKeys
    BY <2>2
  <2> QED
    BY <1>1, <2>1, <2>2, <2>3 DEF IInv, TypeInv, TypeOK, AddressInv, KnownHasAddress, Known
<1> QED
  BY <1>2, <1>3

\* What a request that has read the file is about to write: its own peer
\* more, or less, than the file has, and the blocks of others as they were.
LEMMA EditOfFile ==
    ASSUME IInv, NEW p \in Procs, pc[p] = "write"
    PROVE  LET k == job[p].key
               E == Edited(p) IN
              /\ E \in ConfigFile /\ Lower(E) /\ KeysOf(E) \subseteq KeysOf(file) \cup {k}
              /\ E.interface = file.interface
              /\ E.interface = "none" => E.blocks = << >>
              /\ BlocksBut(E, k) = BlocksBut(file, k)
              /\ PeersOf(E) \ {k} = PeersOf(file) \ {k}
              /\ Routed(file) \ {k} \subseteq Routed(E)
              /\ job[p].kind \in Applying => k \in Routed(E)
              /\ job[p].kind \notin Applying => k \notin KeysOf(E) /\ k \notin PeersOf(E)
<1> DEFINE k == job[p].key
           E == Edited(p)
<1>1. /\ copy[p] = file /\ (job[p].kind \in Applying => file.interface # "none")
      /\ file \in ConfigFile /\ k \in Keys /\ k # NoKey
      /\ address \in [Keys -> Hosts \cup {NoAddress}]
      /\ file.interface = "none" => file.blocks = << >>
      /\ Lower(file)
  BY DockerAssumption
  DEF IInv, TypeInv, TypeOK, BusyHasKey, RequestInv, CopyIsFile, EmptyWithoutInterface,
      AddressInv, NoneIsHigher
<1>2. address[k] \in Nat
  BY <1>1, DockerAssumption DEF Hosts, NoAddress
<1>3. NewBlock(k).key = k /\ NewBlock(k).ip = address[k]
  BY DEF NewBlock
<1>4. /\ E \in ConfigFile /\ E.interface = file.interface
      /\ E.interface = "none" => E.blocks = << >>
      /\ ToSet(E.blocks) = BlocksBut(file, k)
                           \cup (IF job[p].kind \in Applying THEN {NewBlock(k)} ELSE {})
      /\ Routed(file) \ {k} \subseteq Routed(E)
      /\ job[p].kind \in Applying => k \in Routed(E)
  <2>1. CASE job[p].kind \in Applying
    <3>1. E = UpsertPeerBlock(file, k)
      BY <1>1, <2>1 DEF Edited
    <3>2. address[k] \in Hosts /\ DistinctAddresses(PeersOf(file) \cup {k} \cup ReservedKeys)
      BY <2>1, AddedIsDistinct
    <3>3. \A j \in Routed(file) \ {k} : address[j] # address[k]
      BY <3>2, RoutedPeersKeys DEF DistinctAddresses
    <3> QED
      BY <1>1, <2>1, <3>1, <3>2, <3>3, UpsertAdds
  <2>2. CASE job[p].kind \notin Applying
    <3>1. E = RemovePeerBlock(file, k)
      BY <1>1, <2>2 DEF Edited
    <3> QED
      BY <1>1, <2>2, <3>1, RemoveRemoves
  <2> QED
    BY <2>1, <2>2
<1> HIDE DEF E, k
<1>5. BlocksBut(E, k) = BlocksBut(file, k)
  BY <1>3, <1>4 DEF BlocksBut
<1>6. Lower(E)
  BY <1>1, <1>2, <1>3, <1>4 DEF Lower, BlocksBut
<1>7. KeysOf(E) \subseteq KeysOf(file) \cup {k}
  BY <1>3, <1>4 DEF KeysOf, BlocksBut
<1>8. PeersOf(E) \ {k} = PeersOf(file) \ {k}
  <2>1. ASSUME NEW x \in Keys, x # k
        PROVE  x \in PeersOf(E) <=> x \in PeersOf(file)
    <3>1. \A b : b \in BlocksBut(E, k) <=> b \in BlocksBut(file, k)
      BY <1>5
    <3> QED
      BY <2>1, <3>1 DEF PeersOf, BlocksBut, Names
  <2> QED
    BY <2>1 DEF PeersOf
<1>9. ASSUME job[p].kind \notin Applying
      PROVE  k \notin KeysOf(E) /\ k \notin PeersOf(E)
  <2>1. k \notin KeysOf(E)
    BY <1>4, <1>9 DEF KeysOf, BlocksBut
  <2> QED
    BY <2>1, RoutedPeersKeys
<1> QED
  BY <1>4, <1>5, <1>6, <1>7, <1>8, <1>9 DEF E, k

\* Addresses stay distinct when the file becomes an edit of itself, or a
\* part of one.
LEMMA EditKeepsAddresses ==
    ASSUME IInv, NEW p \in Procs, pc[p] = "write", UNCHANGED <<live, row, address>>,
           KeysOf(file') \subseteq KeysOf(Edited(p)),
           PeersOf(file') \subseteq PeersOf(Edited(p)),
           Lower(file')
    PROVE  KnownHasAddress' /\ NoneIsHigher' /\ AddressUnique'
<1> DEFINE k == job[p].key
<1>1. ReservedKeys' = ReservedKeys /\ NoAddress \notin Hosts
  BY DockerAssumption DEF ReservedKeys, Hosts, NoAddress
<1>2. /\ PeersOf(file)' = PeersOf(file') /\ KeysOf(file)' = KeysOf(file')
      /\ NoneIsHigher'
  BY PrimedFile
<1>3. /\ KeysOf(file') \subseteq KeysOf(file) \cup {k}
      /\ PeersOf(file') \subseteq PeersOf(file) \cup {k}
      /\ job[p].kind \notin Applying => k \notin KeysOf(file') /\ k \notin PeersOf(file')
  BY EditOfFile
<1>4. CASE job[p].kind \in Applying
  <2>1. /\ address[k] \in Hosts
        /\ DistinctAddresses(PeersOf(file) \cup {k} \cup ReservedKeys)
    BY <1>4, AddedIsDistinct
  <2>2. KnownHasAddress'
    BY <1>1, <1>2, <1>3, <2>1 DEF IInv, AddressInv, KnownHasAddress, Known
  <2> QED
    BY <1>1, <1>2, <1>3, <2>1, <2>2 DEF IInv, AddressInv, AddressUnique, DistinctAddresses
<1>5. CASE job[p].kind \notin Applying
  <2>1. KeysOf(file') \subseteq KeysOf(file) /\ PeersOf(file') \subseteq PeersOf(file)
    BY <1>3, <1>5
  <2> QED
    BY <1>1, <1>2, <2>1
    DEF IInv, AddressInv, KnownHasAddress, Known, AddressUnique, DistinctAddresses
<1> QED
  BY <1>4, <1>5

\* Writing the file changes the one peer the request is about.
LEMMA WriteKeeps ==
    ASSUME Solo, IInv, TypeInv', NEW p \in Procs, WriteDockerConfig(p)
    PROVE  IInv'
<1> USE DEF Solo, IInv, TypeInv, TypeOK
<1> DEFINE k == job[p].key
<1>1. /\ UNCHANGED <<up, live, row, address, doubt, job>>
      /\ pc[p] = "write" /\ pc' = [pc EXCEPT ![p] = "restart"]
      /\ file' = Edited(p)
  BY DEF WriteDockerConfig, Goto, registry
<1>2. \A q \in Procs : q = p /\ pc'[q] = "restart" /\ pc[q] = "write"
  BY <1>1
<1>3. /\ file'.interface = file.interface /\ EmptyWithoutInterface' /\ Lower(file')
      /\ PeersOf(file') \ {k} = PeersOf(file) \ {k}
      /\ Routed(file) \ {k} \subseteq Routed(file')
      /\ job[p].kind \in Applying => k \in Routed(file')
      /\ job[p].kind \notin Applying => k \notin PeersOf(file')
  BY <1>1, EditOfFile DEF EmptyWithoutInterface
<1>4. /\ PeersOf(file)' = PeersOf(file') /\ Routed(file)' = Routed(file')
      /\ ReservedKeys' = ReservedKeys /\ ActiveKeys' = ActiveKeys
  BY <1>1, PrimedFile DEF ReservedKeys, ActiveKeys
<1>5. RequestInv'
  <2>1. ListedIsGrant' /\ CopyIsFile' /\ DownServesNobody'
    BY <1>1, <1>2 DEF RequestInv, ListedIsGrant, CopyIsFile, DownServesNobody
  <2>2. RowAsFound'
    BY <1>1, <1>2, <1>4 DEF RequestInv, RowAsFound
  <2>3. EditLanded'
    <3>1. job[p].kind \in Applying => file.interface # "none"
      BY <1>1 DEF RequestInv, CopyIsFile
    <3> QED
      BY <1>1, <1>2, <1>3, <1>4, <3>1 DEF EditLanded, ViaNode, Applying, Removing
  <2> QED
    BY <1>3, <2>1, <2>2, <2>3 DEF RequestInv
<1>6. AddressInv'
  <2>1. KnownHasAddress' /\ NoneIsHigher' /\ AddressUnique'
    BY <1>1, <1>3, EditKeepsAddresses
  <2>2. GrantIsFresh'
    BY <1>2 DEF GrantIsFresh
  <2> QED
    BY <2>1, <2>2 DEF AddressInv
<1>7. ServiceInv'
  <2>1. \A j \in Keys \ {k} : Agrees(j) => Agrees(j)'
    BY <1>1, <1>3, <1>4 DEF Agrees
  <2>2. \A j \in Keys : ~InHand(j)
    BY <1>2 DEF InHand
  <2>3. InHand(k)'
    BY <1>1, <1>2 DEF InHand
  <2>4. ServedUnlessInHand'
    BY <1>1, <2>1, <2>2, <2>3 DEF ServiceInv, ServedUnlessInHand
  <2>5. OffNodeAgrees'
    BY <1>2 DEF OffNodeAgrees
  <2> QED
    BY <2>4, <2>5 DEF ServiceInv
<1> QED
  BY <1>5, <1>6, <1>7

\* A restart that took effect serves the routed peers of the file, or nobody.
LEMMA RestartedServes ==
    ASSUME IInv, Restarts, UNCHANGED <<file, row, address>>
    PROVE  /\ live' \subseteq PeersOf(file)
           /\ up' => live' = Routed(file)
           /\ PeersOf(file)' = PeersOf(file) /\ Routed(file)' = Routed(file)
           /\ ReservedKeys' = ReservedKeys /\ ActiveKeys' = ActiveKeys
           /\ EmptyWithoutInterface' /\ DownServesNobody'
           /\ KnownHasAddress' /\ NoneIsHigher' /\ AddressUnique'
           /\ \A j \in Keys : (j \in ActiveKeys => j \in Routed(file))
                              /\ (j \notin ActiveKeys => j \notin PeersOf(file)) => Agrees(j)'
<1>1. /\ live' \subseteq PeersOf(file)
      /\ up' => live' = Routed(file)
      /\ ~up' => live' = {}
  BY RoutedPeersKeys DEF Restarts, Serves
<1>2. /\ PeersOf(file)' = PeersOf(file) /\ Routed(file)' = Routed(file)
      /\ KeysOf(file)' = KeysOf(file) /\ NoneIsHigher'
  BY FileStays DEF IInv, AddressInv
<1>3. ReservedKeys' = ReservedKeys /\ ActiveKeys' = ActiveKeys
  BY DEF ReservedKeys, ActiveKeys
<1>4. EmptyWithoutInterface' /\ DownServesNobody'
  BY <1>1 DEF IInv, RequestInv, EmptyWithoutInterface, DownServesNobody
<1>5. KnownHasAddress'
  <2>1. Known' \subseteq Known
    BY <1>1, <1>2, <1>3, RoutedPeersKeys DEF Known
  <2> QED
    BY <2>1 DEF IInv, AddressInv, KnownHasAddress
<1>6. AddressUnique'
  BY <1>1, <1>2, <1>3 DEF IInv, AddressInv, AddressUnique, DistinctAddresses
<1>7. ASSUME NEW j \in Keys, j \in ActiveKeys => j \in Routed(file),
             j \notin ActiveKeys => j \notin PeersOf(file)
      PROVE  Agrees(j)'
  BY <1>1, <1>2, <1>3, <1>7, RoutedPeersKeys DEF Agrees
<1> QED
  BY <1>1, <1>2, <1>3, <1>4, <1>5, <1>6, <1>7

\* The restart makes the interface what the file is, or nothing.
LEMMA RestartKeeps ==
    ASSUME Solo, IInv, TypeInv', NEW p \in Procs, RestartDockerContainer(p)
    PROVE  IInv'
<1> USE DEF Solo, IInv, TypeInv, TypeOK
<1> DEFINE k == job[p].key
<1>1. /\ UNCHANGED <<file, row, address, doubt, job>> /\ Restarts
      /\ pc[p] = "restart" /\ pc' = [pc EXCEPT ![p] = "local"]
  BY DEF RestartDockerContainer, Goto, registry
<1>2. \A q \in Procs : q = p /\ pc'[q] = "local" /\ pc[q] = "restart"
  BY <1>1
<1>3. /\ live' \subseteq PeersOf(file)
      /\ up' => live' = Routed(file)
      /\ PeersOf(file)' = PeersOf(file) /\ Routed(file)' = Routed(file)
      /\ ReservedKeys' = ReservedKeys /\ ActiveKeys' = ActiveKeys
      /\ EmptyWithoutInterface' /\ DownServesNobody'
      /\ KnownHasAddress' /\ NoneIsHigher' /\ AddressUnique'
  BY <1>1, RestartedServes
<1>4. RequestInv'
  <2>1. ListedIsGrant' /\ CopyIsFile'
    BY <1>2 DEF ListedIsGrant, CopyIsFile
  <2>2. RowAsFound'
    BY <1>1, <1>2, <1>3 DEF RequestInv, RowAsFound
  <2>3. EditLanded'
    BY <1>1, <1>2, <1>3 DEF RequestInv, EditLanded, ViaNode
  <2> QED
    BY <1>3, <2>1, <2>2, <2>3 DEF RequestInv
<1>5. AddressInv'
  BY <1>2, <1>3 DEF AddressInv, GrantIsFresh
<1>6. ServiceInv'
  <2>1. \A j \in Keys : Agrees(j) => Agrees(j)'
    BY <1>1, RestartedServes DEF Agrees
  <2>2. \A j \in Keys : InHand(j)' <=> InHand(j)
    BY <1>1, <1>2 DEF InHand
  <2>3. ServedUnlessInHand'
    BY <1>1, <2>1, <2>2 DEF ServiceInv, ServedUnlessInHand
  <2>4. OffNodeAgrees'
    BY <1>1, <1>2 DEF OffNodeAgrees, RequestInv, RowAsFound
  <2> QED
    BY <2>3, <2>4 DEF ServiceInv
<1> QED
  BY <1>4, <1>5, <1>6

\* The registry follows what the node has.
LEMMA WriteLocalKeeps ==
    ASSUME Solo, IInv, TypeInv', NEW p \in Procs, WriteLocal(p)
    PROVE  IInv'
<1> USE DEF Solo, IInv, TypeInv, TypeOK
<1>1. PICK k \in Keys, kind \in Applying \cup Removing :
         k = job[p].key /\ kind = job[p].kind
  BY DEF BusyHasKey, WriteLocal
<1>2. /\ UNCHANGED <<file, up, live, address>>
      /\ pc[p] = "local"
      /\ row' = [row EXCEPT ![k] = RowAfter(k, kind)]
      /\ doubt' = CASE kind = "remove_unknown" /\ row[k] = "active" -> doubt \cup {k}
                    [] kind = "revoke" /\ row[k] # "active" -> doubt
                    [] OTHER -> doubt \ {k}
      /\ Stop(p)
  BY <1>1 DEF WriteLocal, node
<1>3. /\ ListedIsGrant' /\ RowAsFound' /\ CopyIsFile' /\ EditLanded'
      /\ GrantIsFresh' /\ OffNodeAgrees'
      /\ \A j \in Keys : ~InHand(j)'
  BY <1>2, StopClears
<1>4. /\ kind \in Applying => k \in Routed(file) /\ k \in PeersOf(file) /\ (up => k \in live)
      /\ ViaNode(p) => k \notin PeersOf(file) /\ k \notin live
  BY <1>1, <1>2, RoutedPeersKeys DEF RequestInv, EditLanded
<1>5. /\ kind \in {"disable", "add_missing"} => row[k] = "active"
      /\ kind = "enable" => row[k] = "disabled"
      /\ kind = "revoke" => row[k] \in {"active", "disabled"}
  BY <1>1, <1>2 DEF RequestInv, RowAsFound
<1>6. row'[k] = RowAfter(k, kind) /\ \A j \in Keys \ {k} : row'[j] = row[j]
  BY <1>2, <1>1
<1>7. /\ kind \in {"grant", "enable"} => row'[k] = "active"
      /\ kind = "disable" => row'[k] = "disabled"
      /\ kind = "revoke" => row'[k] = "revoked"
      /\ kind \in {"add_missing", "remove_unknown"} => row'[k] = row[k]
  BY <1>5, <1>6 DEF RowAfter
<1>8. RequestInv'
  BY <1>2, <1>3 DEF RequestInv, EmptyWithoutInterface, DownServesNobody
<1>9. /\ PeersOf(file)' = PeersOf(file) /\ Routed(file)' = Routed(file)
      /\ KeysOf(file)' = KeysOf(file) /\ NoneIsHigher'
  BY <1>2, FileStays DEF AddressInv
<1>10. AddressInv'
  <2>1. ReservedKeys' \subseteq ReservedKeys \cup {k}
    BY <1>6 DEF ReservedKeys
  <2>2. k \in ReservedKeys' => k \in ReservedKeys
                               \/ (k \in PeersOf(file) /\ (up => k \in live))
    BY <1>1, <1>4, <1>5, <1>7 DEF ReservedKeys, Applying, Removing
  <2>3. /\ PeersOf(file) \cup ReservedKeys' \subseteq PeersOf(file) \cup ReservedKeys
        /\ ~up => live = {}
        /\ up => live \cup ReservedKeys' \subseteq live \cup ReservedKeys
    BY <2>1, <2>2 DEF RequestInv, DownServesNobody
  <2>4. KnownHasAddress'
    <3>1. Known' \subseteq Known
      BY <1>2, <1>9, <2>3, RoutedPeersKeys DEF Known
    <3> QED
      BY <1>2, <3>1 DEF AddressInv, KnownHasAddress
  <2>5. AddressUnique'
    BY <1>2, <1>9, <2>3 DEF AddressInv, AddressUnique, DistinctAddresses
  <2> QED
    BY <1>3, <1>9, <2>4, <2>5 DEF AddressInv
<1>11. ServedUnlessInHand'
  <2>1. \A j \in Keys \ {k} : ~InHand(j) /\ (Agrees(j)' <=> Agrees(j))
    BY <1>1, <1>2, <1>6, <1>9 DEF InHand, Agrees, ActiveKeys
  <2>2. \A j \in Keys \ {k} : j \in doubt' <=> j \in doubt
    BY <1>2
  <2>3. k \notin Foreign \cup doubt' => Agrees(k)'
    <3> SUFFICES ASSUME k \notin Foreign \cup doubt'
                 PROVE  Agrees(k)'
      OBVIOUS
    <3>1. CASE kind \in Applying
      <4>1. row'[k] = "active"
        BY <1>5, <1>7, <3>1 DEF Applying
      <4> QED
        BY <1>2, <1>1, <1>4, <1>9, <3>1, <4>1 DEF Agrees, ActiveKeys
    <3>2. CASE kind \in {"disable", "remove_unknown"}
      <4>1. row'[k] # "active"
        BY <1>2, <1>5, <1>7, <3>2
      <4>2. k \notin PeersOf(file) /\ k \notin live
        BY <1>1, <1>4, <3>2 DEF ViaNode, Removing
      <4> QED
        BY <1>2, <1>9, <4>1, <4>2 DEF Agrees, ActiveKeys
    <3>3. CASE kind = "revoke"
      <4>1. row'[k] # "active"
        BY <1>7, <3>3
      <4>2. k \notin PeersOf(file) /\ k \notin live
        <5>1. CASE row[k] = "active"
          BY <1>1, <1>4, <3>3, <5>1 DEF ViaNode, Removing
        <5>2. CASE row[k] # "active"
          <6>1. row[k] = "disabled" /\ k \notin Foreign \cup doubt
            BY <1>2, <1>5, <3>3, <5>2
          <6> QED
            BY <1>1, <1>2, <3>3, <6>1 DEF ServiceInv, OffNodeAgrees
        <5> QED
          BY <5>1, <5>2
      <4> QED
        BY <1>2, <1>9, <4>1, <4>2 DEF Agrees, ActiveKeys
    <3> QED
      BY <1>1, <3>1, <3>2, <3>3 DEF Removing
  <2> QED
    BY <2>1, <2>2, <2>3 DEF ServiceInv, ServedUnlessInHand
<1> QED
  BY <1>3, <1>8, <1>10, <1>11 DEF ServiceInv

\* A request that ends in an error leaves every clause standing for all
\* peers but those it puts in doubt.
LEMMA FailKeeps ==
    ASSUME Solo, IInv, TypeInv', NEW p \in Procs, Stop(p), pc[p] # "idle",
           UNCHANGED row,
           EmptyWithoutInterface', DownServesNobody',
           KnownHasAddress', NoneIsHigher', AddressUnique',
           doubt \subseteq doubt',
           InHand(job[p].key) => job[p].key \in doubt' \cup Foreign,
           \A j \in Keys \ (Foreign \cup doubt') : Agrees(j) => Agrees(j)'
    PROVE  IInv'
<1>1. /\ ListedIsGrant' /\ RowAsFound' /\ CopyIsFile' /\ EditLanded'
      /\ GrantIsFresh' /\ OffNodeAgrees'
  BY StopClears DEF IInv
<1>2. \A j \in Keys \ (Foreign \cup doubt') : ~InHand(j)
  BY DEF Solo, InHand
<1>3. ServedUnlessInHand'
  BY <1>2 DEF IInv, ServiceInv, ServedUnlessInHand
<1> QED
  BY <1>1, <1>3 DEF IInv, RequestInv, AddressInv, ServiceInv

\* An early error forgets a key pair that is nowhere yet.
LEMMA FailEarlyKeeps ==
    ASSUME Solo, IInv, TypeInv', NEW p \in Procs, FailEarly(p)
    PROVE  IInv'
<1> DEFINE k == job[p].key
<1>1. /\ UNCHANGED <<file, up, live, row, doubt>>
      /\ pc[p] \in {"listed", "read", "write"} /\ Stop(p)
      /\ address' = IF job[p].kind = "grant"
                    THEN [address EXCEPT ![k] = NoAddress] ELSE address
  BY DEF FailEarly, node
<1>2. \A j \in Known : address'[j] = address[j]
  <2>1. job[p].kind = "grant" => k \notin Known
    BY <1>1 DEF IInv, AddressInv, GrantIsFresh
  <2>2. Known \subseteq Keys
    BY KnownAreKeys DEF IInv
  <2> QED
    BY <1>1, <2>1, <2>2 DEF IInv, TypeInv, TypeOK
<1>3. /\ PeersOf(file)' = PeersOf(file) /\ Routed(file)' = Routed(file)
      /\ KeysOf(file)' = KeysOf(file) /\ NoneIsHigher'
  BY <1>1, <1>2, KnownAreKeys, FileStays DEF IInv, AddressInv
<1>4. Known' = Known /\ ReservedKeys' = ReservedKeys /\ ActiveKeys' = ActiveKeys
  BY <1>1, <1>3 DEF Known, ReservedKeys, ActiveKeys
<1>5. EmptyWithoutInterface' /\ DownServesNobody' /\ KnownHasAddress'
  BY <1>1, <1>2, <1>4
  DEF IInv, RequestInv, EmptyWithoutInterface, DownServesNobody, AddressInv, KnownHasAddress
<1>6. AddressUnique'
  <2>1. PeersOf(file) \subseteq Known
    BY RoutedPeersKeys DEF Known
  <2> QED
    BY <1>1, <1>2, <1>3, <1>4, <2>1
    DEF IInv, AddressInv, AddressUnique, DistinctAddresses, Known
<1>7. ~InHand(k)
  BY <1>1 DEF Solo, InHand
<1>8. \A j \in Keys : Agrees(j)' <=> Agrees(j)
  BY <1>1, <1>3, <1>4 DEF Agrees
<1> QED
  BY <1>1, <1>3, <1>5, <1>6, <1>7, <1>8, FailKeeps

\* A broken-off write may take blocks and addresses of others: they are put
\* in doubt.
LEMMA FailWriteKeeps ==
    ASSUME Solo, IInv, TypeInv', NEW p \in Procs, FailWrite(p)
    PROVE  IInv'
<1> DEFINE k == job[p].key
           E == Edited(p)
<1>1. /\ UNCHANGED <<up, live, address, row>>
      /\ pc[p] = "write" /\ Stop(p)
      /\ file' \in CutOff(E)
      /\ doubt' = doubt \cup (({k} \cup (Routed(file) \ Routed(file'))) \ Foreign)
  BY DEF FailWrite, Doubts
<1>2. /\ E \in ConfigFile /\ Lower(E) /\ KeysOf(E) \subseteq KeysOf(file) \cup {k}
      /\ E.interface = "none" => E.blocks = << >>
      /\ PeersOf(E) \ {k} = PeersOf(file) \ {k}
  BY <1>1, EditOfFile
<1>3. /\ KeysOf(file) \subseteq Keys /\ k \in Keys
      /\ address \in [Keys -> Hosts \cup {NoAddress}]
  BY <1>1, KnownAreKeys DEF IInv, TypeInv, TypeOK, BusyHasKey
<1> HIDE DEF E, k
<1>4. /\ file'.interface = "none" => file'.blocks = << >> \/ E.interface = "none"
      /\ file'.blocks = << >> \/ file'.interface = E.interface
      /\ \A b \in ToSet(file'.blocks) : \E c \in ToSet(E.blocks) : PartOf(b, c)
  BY <1>1, <1>2, CutOffIsPart
<1>5. /\ KeysOf(file') \subseteq KeysOf(E) /\ PeersOf(file') \subseteq PeersOf(E)
      /\ Lower(file')
  <2>1. KeysOf(E) \subseteq Keys
    BY <1>2, <1>3
  <2> QED
    BY <1>2, <1>3, <1>4, <2>1, PartsNameLess
<1>6. EmptyWithoutInterface' /\ DownServesNobody'
  <2>1. file'.interface = "none" => file'.blocks = << >>
    <3>1. CASE E.interface = "none"
      <4>1. ToSet(file'.blocks) = {}
        BY <1>2, <1>4, <3>1, EmptySeqSet
      <4>2. file'.blocks \in Seq(Block)
        BY FileShape DEF TypeInv, TypeOK
      <4> QED
        BY <4>1, <4>2, NoElements
    <3> QED
      BY <1>4, <3>1
  <2> QED
    BY <1>1, <2>1 DEF IInv, RequestInv, EmptyWithoutInterface, DownServesNobody
<1>7. KnownHasAddress' /\ NoneIsHigher' /\ AddressUnique'
  BY <1>1, <1>5, EditKeepsAddresses DEF E
<1>8. /\ PeersOf(file)' = PeersOf(file') /\ Routed(file)' = Routed(file')
      /\ ActiveKeys' = ActiveKeys
  BY <1>1, PrimedFile DEF ActiveKeys
<1>9. ASSUME NEW j \in Keys \ (Foreign \cup doubt'), Agrees(j)
      PROVE  Agrees(j)'
  <2>1. j # k /\ (j \in Routed(file) => j \in Routed(file'))
    BY <1>1
  <2>2. j \notin PeersOf(file) => j \notin PeersOf(file')
    BY <1>2, <1>5, <2>1
  <2> QED
    BY <1>1, <1>8, <1>9, <2>1, <2>2 DEF Agrees
<1> QED
  BY <1>1, <1>6, <1>7, <1>9, FailKeeps DEF k

\* A restart that fails may have taken effect.
LEMMA FailRestartKeeps ==
    ASSUME Solo, IInv, TypeInv', NEW p \in Procs, FailRestart(p)
    PROVE  IInv'
<1> DEFINE k == job[p].key
<1>1. /\ UNCHANGED <<file, address, row>>
      /\ pc[p] = "restart" /\ Stop(p)
      /\ Restarts \/ UNCHANGED <<up, live>>
      /\ doubt' = doubt \cup ({k} \ Foreign)
  BY DEF FailRestart, Doubts
<1>2. /\ EmptyWithoutInterface' /\ DownServesNobody'
      /\ KnownHasAddress' /\ NoneIsHigher' /\ AddressUnique'
      /\ \A j \in Keys : Agrees(j) => Agrees(j)'
  <2>1. CASE Restarts
    BY <1>1, <2>1, RestartedServes DEF Agrees
  <2>2. CASE UNCHANGED <<up, live>>
    BY <1>1, <2>2, NothingMoved
  <2> QED
    BY <1>1, <2>1, <2>2
<1> QED
  BY <1>1, <1>2, FailKeeps

\* A registry that could not be written leaves the node ahead of it.
LEMMA FailLocalKeeps ==
    ASSUME Solo, IInv, TypeInv', NEW p \in Procs, FailLocal(p)
    PROVE  IInv'
<1>1. /\ UNCHANGED <<file, up, live, address, row>>
      /\ pc[p] = "local" /\ Stop(p)
      /\ doubt' = doubt \cup ({job[p].key} \ Foreign)
  BY DEF FailLocal, Doubts, node
<1>2. /\ EmptyWithoutInterface' /\ DownServesNobody'
      /\ KnownHasAddress' /\ NoneIsHigher' /\ AddressUnique'
      /\ \A j \in Keys : Agrees(j) => Agrees(j)'
  BY <1>1, NothingMoved
<1> QED
  BY <1>1, <1>2, FailKeeps

\* The invariant is inductive when one request is served at a time.
LEMMA InvNext ==
    ASSUME Solo, IInv, [Next]_vars
    PROVE  IInv'
<1>1. TypeInv'
  BY TypeNext DEF IInv
<1>2. ASSUME NEW p \in Procs, NEW k \in Keys, StartGrant(p, k)
      PROVE  IInv'
  BY <1>1, <1>2, StartGrantKeeps
<1>3. ASSUME NEW p \in Procs, NEW k \in Keys,
             \/ StartRevoke(p, k) \/ StartDisable(p, k) \/ StartEnable(p, k)
             \/ StartAddMissing(p, k) \/ StartRemoveUnknown(p, k)
      PROVE  IInv'
  BY <1>1, <1>3, StartKeeps
<1>4. ASSUME NEW p \in Procs, InsertRow(p)
      PROVE  IInv'
  BY <1>1, <1>4, InsertKeeps
<1>5. ASSUME NEW p \in Procs, ReadDockerConfig(p)
      PROVE  IInv'
  BY <1>1, <1>5, ReadKeeps
<1>6. ASSUME NEW p \in Procs, WriteDockerConfig(p)
      PROVE  IInv'
  BY <1>1, <1>6, WriteKeeps
<1>7. ASSUME NEW p \in Procs, RestartDockerContainer(p)
      PROVE  IInv'
  BY <1>1, <1>7, RestartKeeps
<1>8. ASSUME NEW p \in Procs, WriteLocal(p)
      PROVE  IInv'
  BY <1>1, <1>8, WriteLocalKeeps
<1>9. ASSUME NEW p \in Procs, FailEarly(p) \/ FailWrite(p) \/ FailRestart(p) \/ FailLocal(p)
      PROVE  IInv'
  BY <1>1, <1>9, FailEarlyKeeps, FailWriteKeeps, FailRestartKeeps, FailLocalKeeps
<1>10. CASE UNCHANGED vars
  <2>1. UNCHANGED <<node, file, up, live, row, address, doubt, pc, job, copy>>
    BY <1>10 DEF vars, node, registry
  <2>2. /\ Known' = Known /\ ReservedKeys' = ReservedKeys /\ ActiveKeys' = ActiveKeys
        /\ PeersOf(file)' = PeersOf(file) /\ Routed(file)' = Routed(file)
        /\ EmptyWithoutInterface' /\ DownServesNobody'
        /\ KnownHasAddress' /\ NoneIsHigher' /\ AddressUnique'
        /\ \A j \in Keys : Agrees(j)' <=> Agrees(j)
    BY <2>1, NothingMoved
  <2>3. RequestInv'
    BY <2>1, <2>2
    DEF IInv, RequestInv, ListedIsGrant, RowAsFound, CopyIsFile, EditLanded, ViaNode
  <2>4. AddressInv'
    BY <2>1, <2>2 DEF IInv, AddressInv, GrantIsFresh
  <2>5. ServiceInv'
    BY <2>1, <2>2 DEF IInv, ServiceInv, ServedUnlessInHand, OffNodeAgrees, InHand
  <2> QED
    BY <1>1, <2>3, <2>4, <2>5 DEF IInv
<1> QED
  BY <1>2, <1>3, <1>4, <1>5, <1>6, <1>7, <1>8, <1>9, <1>10 DEF Next, Work

THEOREM FileInvariant ==
    ASSUME Solo
    PROVE  Spec => []IInv
<1>1. IInv /\ [Next]_vars => IInv'
  BY InvNext
<1> QED
  BY <1>1, InvInit, PTL DEF Spec

-----------------------------------------------------------------------------
(* What the invariant is for.                                              *)

\* With one request at a time, no address is given out twice: the peers of
\* the file, or of the interface, and the devices that keep an address all
\* have different ones, whichever command failed before and wherever in a
\* block a write broke off.
THEOREM AddressesUnique ==
    ASSUME Solo
    PROVE  Spec => []AddressUnique
<1>1. IInv => AddressUnique
  BY DEF IInv, AddressInv
<1> QED
  BY <1>1, FileInvariant, PTL

\* With one request at a time, the file, and the interface if it is up, have
\* the peers of exactly the active devices between requests, but for those
\* that a failed request was about, that were removed by hand, or whose block
\* or address a broken-off write took.
THEOREM ServedUnlessTold ==
    ASSUME Solo
    PROVE  Spec => []ServedUntilTold
<1>1. ASSUME IInv PROVE ServedUntilTold
  <2> SUFFICES ASSUME \A p \in Procs : pc[p] = "idle",
                      NEW k \in Keys \ (Foreign \cup doubt)
               PROVE  /\ k \in ActiveKeys <=> k \in PeersOf(file)
                      /\ up => (k \in ActiveKeys <=> k \in live)
    BY DEF ServedUntilTold
  <2>1. ~InHand(k)
    BY DEF InHand
  <2>2. Agrees(k)
    BY <1>1, <2>1 DEF IInv, ServiceInv, ServedUnlessInHand
  <2> QED
    BY <2>2, RoutedPeersKeys DEF Agrees
<1> QED
  BY <1>1, FileInvariant, PTL

\* With one request at a time, a device becomes active only when its peer is
\* in the file under an [Interface], and the interface serves it if it is up.
THEOREM ActivationsServed ==
    ASSUME Solo
    PROVE  Spec => ActivationServed
<1> DEFINE Served == \A k \in Keys : row'[k] = "active" /\ row[k] # "active" =>
               /\ file'.interface # "none" /\ k \in PeersOf(file)'
               /\ up' => k \in live'
<1>1. ASSUME IInv, [Next]_vars
      PROVE  Served
  <2> SUFFICES ASSUME NEW k \in Keys, row'[k] = "active", row[k] # "active"
               PROVE  /\ file'.interface # "none" /\ k \in PeersOf(file)'
                      /\ up' => k \in live'
    OBVIOUS
  <2>1. PICK p \in Procs : WriteLocal(p)
    BY <1>1
    DEF Next, Work, StartGrant, StartRevoke, StartDisable, StartEnable,
        StartAddMissing, StartRemoveUnknown, Start, InsertRow, ReadDockerConfig,
        WriteDockerConfig, RestartDockerContainer, FailEarly, FailWrite, FailRestart,
        FailLocal, vars, node, registry
  <2>2. /\ pc[p] = "local" /\ UNCHANGED <<file, up, live, address>>
        /\ row' = [row EXCEPT ![job[p].key] = RowAfter(job[p].key, job[p].kind)]
    BY <2>1 DEF WriteLocal, node
  <2>3. k = job[p].key /\ RowAfter(k, job[p].kind) = "active"
    BY <1>1, <2>2 DEF IInv, TypeInv, TypeOK
  <2>4. job[p].kind \in Applying
    BY <2>3 DEF RowAfter, Applying
  <2>5. file.interface # "none" /\ k \in Routed(file) /\ (up => k \in live)
    BY <1>1, <2>2, <2>3, <2>4 DEF IInv, RequestInv, EditLanded
  <2>6. PeersOf(file)' = PeersOf(file)
    BY <2>2, FileStays
  <2> QED
    BY <2>2, <2>5, <2>6, RoutedPeersKeys
<1>2. IInv /\ [Next]_vars => [Served]_vars
  BY <1>1
<1> QED
  BY <1>2, FileInvariant, PTL DEF Spec, ActivationServed

\* With one request at a time, rewriting the whole file changes no block but
\* the request's own, torn ones included.
THEOREM OwnPeerOnly ==
    ASSUME Solo
    PROVE  Spec => OnlyOwnPeerChanges
<1> DEFINE Own == \A p \in Procs :
               pc[p] = "write" /\ pc'[p] = "restart" =>
                   /\ file'.interface = file.interface
                   /\ BlocksBut(file', job[p].key) = BlocksBut(file, job[p].key)
<1>1. ASSUME IInv, [Next]_vars
      PROVE  Own
  <2> SUFFICES ASSUME NEW p \in Procs, pc[p] = "write", pc'[p] = "restart"
               PROVE  /\ file'.interface = file.interface
                      /\ BlocksBut(file', job[p].key) = BlocksBut(file, job[p].key)
    OBVIOUS
  <2>1. WriteDockerConfig(p)
    <3>1. pc \in [Procs -> PC] /\ \A q \in Procs : q = p
      BY <1>1 DEF Solo, IInv, TypeInv, TypeOK
    <3> QED
      BY <1>1, <3>1
      DEF Next, Work, StartGrant, StartRevoke, StartDisable, StartEnable,
          StartAddMissing, StartRemoveUnknown, Start, Begin, InsertRow, ReadDockerConfig,
          RestartDockerContainer, WriteLocal, FailEarly, FailWrite, FailRestart,
          FailLocal, Stop, Goto, vars
  <2>2. file' = Edited(p)
    BY <2>1 DEF WriteDockerConfig
  <2> QED
    BY <1>1, <2>2, EditOfFile
<1>2. IInv /\ [Next]_vars => [Own]_vars
  BY <1>1
<1> QED
  BY <1>2, FileInvariant, PTL DEF Spec, OnlyOwnPeerChanges
=============================================================================
