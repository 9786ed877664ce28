-------------------------- MODULE SettlementProofs --------------------------
(***************************************************************************)
(* Theorems about Settlement for every value of its constants: any number   *)
(* of proposals, blocks and reorganisations, any durations, any headers     *)
(* that nobody mined, any program behind the other verifying keys.  In the   *)
(* last parts, that ProverHost implements Settlement, and that a mock run   *)
(* has valid input; what comes before them uses none of the assumptions on  *)
(* ProverHost's constants.                                                  *)
(***************************************************************************)
EXTENDS ProverHost, FiniteSetTheorems, WellFoundedInduction, TLAPS

(***************************************************************************)
(* What the guest program has verified.                                     *)
(***************************************************************************)
\* Natural numbers are well founded: a set of them has a smallest element.
LEMMA Smallest ==
  ASSUME NEW T, T \subseteq Nat, T # {}
  PROVE  \E x \in T : \A y \in T : x <= y
<1>1. \E Less : /\ IsWellFoundedOn(Less, Nat)
                /\ \A x, y \in Nat : y < x => <<y, x>> \in Less
  <2> DEFINE R == OpToRel(<, Nat)
  <2>1. IsWellFoundedOn(R, Nat)
    BY NatLessThanWellFounded
  <2>2. \A x, y \in Nat : y < x => <<y, x>> \in R
    BY DEF OpToRel
  <2> HIDE DEF R
  <2> QED
    BY <2>1, <2>2
<1>2. PICK Less : /\ IsWellFoundedOn(Less, Nat)
                  /\ \A x, y \in Nat : y < x => <<y, x>> \in Less
  BY <1>1
<1>3. PICK x \in T : \A y \in T : ~(<<y, x>> \in Less)
  BY <1>2, WFMin
<1>4. \A y \in T : ~(y < x)
  BY <1>2, <1>3
<1> QED
  BY <1>4

\* VerifiedOf is the function its recursive definition describes.
LEMMA VerifiedOfEquation ==
  \A n \in 0..MaxFed : VerifiedOf[n] = IF n = 0 THEN {<<>>} ELSE Longer(VerifiedOf[n - 1])
<1> DEFINE Up(f, m) == f = [n \in 0..m |-> IF n = 0 THEN {<<>>} ELSE Longer(f[n - 1])]
           Bad == {m \in Nat : \A f : ~Up(f, m)}
<1>1. Bad = {}
  <2> SUFFICES ASSUME Bad # {} PROVE FALSE
    OBVIOUS
  <2>1. PICK m \in Bad : \A k \in Bad : m <= k
    BY Smallest
  <2>2. m # 0
    <3> DEFINE y == [n \in 0..0 |-> {<<>>}]
               z == [n \in 0..0 |-> IF n = 0 THEN {<<>>} ELSE Longer(y[n - 1])]
    <3>1. Up(y, 0)
      <4>1. \A n \in 0..0 : y[n] = z[n]
        <5> SUFFICES ASSUME NEW n \in 0..0 PROVE y[n] = z[n]
          OBVIOUS
        <5>1. n = 0
          OBVIOUS
        <5> QED
          BY <5>1
      <4>2. y = z
        BY <4>1
      <4> QED
        BY <4>2
    <3> QED
      BY <2>1, <3>1
  <2>3. m \in Nat /\ m - 1 \in Nat /\ m - 1 \notin Bad
    <3> HIDE DEF Up
    <3>1. m \in Nat /\ m - 1 \in Nat
      BY <2>2
    <3>2. ~(m <= m - 1)
      BY <3>1
    <3>3. m - 1 \notin Bad
      BY <2>1, <3>2
    <3> QED
      BY <3>1, <3>3
  <2>4. PICK f : Up(f, m - 1)
    BY <2>3
  <2> DEFINE g == [n \in 0..m |-> IF n < m THEN f[n] ELSE Longer(f[m - 1])]
             h == [n \in 0..m |-> IF n = 0 THEN {<<>>} ELSE Longer(g[n - 1])]
  <2>5. ASSUME NEW n \in 0..m
        PROVE  g[n] = h[n]
    <3>1. CASE n = 0
      <4>1. g[n] = f[0]
        BY <2>2, <2>3, <3>1
      <4>2. f[0] = {<<>>}
        BY <2>3, <2>4
      <4> QED
        BY <3>1, <4>1, <4>2
    <3>2. CASE n # 0 /\ n < m
      <4>1. n \in 0..(m - 1) /\ n - 1 \in 0..m /\ n - 1 < m
        BY <2>3, <3>2
      <4>2. g[n] = f[n] /\ g[n - 1] = f[n - 1]
        BY <4>1, <3>2
      <4>3. f[n] = Longer(f[n - 1])
        BY <2>4, <3>2, <4>1
      <4> QED
        BY <3>2, <4>2, <4>3
    <3>3. CASE n = m
      <4>1. n - 1 \in 0..m /\ n - 1 < m /\ ~(n < m)
        BY <2>2, <2>3, <3>3
      <4>2. g[n - 1] = f[m - 1] /\ g[n] = Longer(f[m - 1])
        BY <4>1, <3>3
      <4> QED
        BY <2>2, <3>3, <4>2
    <3> QED
      BY <2>3, <3>1, <3>2, <3>3
  <2>6. g = h
    BY <2>5
  <2>7. Up(g, m)
    BY <2>6
  <2> QED
    BY <2>1, <2>7
<1>2. MaxFed \in Nat
  BY SettlementAssumption DEF SettlementAssumption
<1>3. \E f : Up(f, MaxFed)
  <2> HIDE DEF Up
  <2> QED
    BY <1>1, <1>2
<1>4. Up(VerifiedOf, MaxFed)
  BY <1>3 DEF VerifiedOf
<1> QED
  BY <1>4

\* A verified list has matching blocks, each of which names the one before.
Linked(blocks) ==
  \A i \in 2..Len(blocks) :
     blocks[i].header.parent_hash = HeaderHash(blocks[i - 1].header)

GoodLists(n) == {blocks \in Seq(Matching) : Len(blocks) = n /\ Linked(blocks)}

\* One block more keeps a list linked.
LEMMA LongerIsLinked ==
  ASSUME NEW n \in Nat, NEW blocks \in GoodLists(n), NEW block \in Matching,
         ExtendsBlocks(blocks, block)
  PROVE  Append(blocks, block) \in GoodLists(n + 1)
<1> DEFINE new == Append(blocks, block)
<1>1. blocks \in Seq(Matching) /\ Len(blocks) = n /\ Linked(blocks)
  BY DEF GoodLists
<1>2. new \in Seq(Matching) /\ Len(new) = n + 1
  BY <1>1
<1>3. \A i \in 1..n : new[i] = blocks[i]
  BY <1>1
<1>4. new[n + 1] = block
  BY <1>1
<1>5. ASSUME NEW i \in 2..(n + 1)
      PROVE  new[i].header.parent_hash = HeaderHash(new[i - 1].header)
  <2>1. CASE i \in 2..n
    <3>1. i \in 1..n /\ i - 1 \in 1..n
      BY <2>1
    <3> QED
      BY <1>1, <1>3, <2>1, <3>1 DEF Linked
  <2>2. CASE i = n + 1
    <3>1. n \in 1..n /\ blocks # <<>> /\ i - 1 = n
      BY <1>1, <1>5, <2>2
    <3>2. Last(blocks) = blocks[n]
      BY <1>1 DEF Last
    <3>3. block.header.parent_hash = HeaderHash(blocks[n].header)
      BY <3>1, <3>2 DEF ExtendsBlocks
    <3> QED
      BY <1>3, <1>4, <2>2, <3>1, <3>3
  <2>3. i \in 2..n \/ i = n + 1
    OBVIOUS
  <2> QED
    BY <2>1, <2>2, <2>3
<1> QED
  BY <1>2, <1>5 DEF GoodLists, Linked

\* Every list for which the guest program does not panic is linked.
LEMMA VerifiedIsLinked ==
  ASSUME NEW blocks \in Verified
  PROVE  blocks \in Seq(Matching) /\ Len(blocks) >= 1 /\ Linked(blocks)
<1> DEFINE Bad == {n \in 0..MaxFed : ~(VerifiedOf[n] \subseteq GoodLists(n))}
<1>0. MaxFed \in Nat
  BY SettlementAssumption DEF SettlementAssumption
<1>1. Bad = {}
  <2> SUFFICES ASSUME Bad # {} PROVE FALSE
    OBVIOUS
  <2>1. PICK m \in Bad : \A k \in Bad : m <= k
    <3>1. Bad \subseteq Nat
      BY <1>0
    <3> QED
      BY <3>1, Smallest
  <2>2. m # 0
    <3>1. <<>> \in Seq(Matching) /\ Len(<<>>) = 0
      OBVIOUS
    <3>2. <<>> \in GoodLists(0)
      BY <3>1 DEF GoodLists, Linked
    <3>3. VerifiedOf[0] = {<<>>}
      BY <1>0, VerifiedOfEquation
    <3> QED
      BY <2>1, <3>2, <3>3
  <2>3. m \in Nat /\ m - 1 \in 0..MaxFed /\ ~(m <= m - 1)
    BY <1>0, <2>1, <2>2
  <2>4. VerifiedOf[m - 1] \subseteq GoodLists(m - 1)
    BY <2>1, <2>3
  <2>5. VerifiedOf[m] = Longer(VerifiedOf[m - 1])
    BY <2>1, <2>2, VerifiedOfEquation
  <2>6. ASSUME NEW old \in VerifiedOf[m - 1], NEW block \in Matching,
               ExtendsBlocks(old, block)
        PROVE  Append(old, block) \in GoodLists(m)
    <3>1. m - 1 \in Nat /\ (m - 1) + 1 = m
      BY <2>3
    <3>2. Append(old, block) \in GoodLists((m - 1) + 1)
      BY <2>4, <2>6, <3>1, LongerIsLinked
    <3> QED
      BY <3>1, <3>2
  <2>7. ASSUME NEW list \in Longer(VerifiedOf[m - 1])
        PROVE  list \in GoodLists(m)
    <3>1. PICK old \in VerifiedOf[m - 1] :
            \E block \in {b \in Matching : ExtendsBlocks(old, b)} : list = Append(old, block)
      BY Zenon DEF Longer
    <3> QED
      BY <2>6, <3>1
  <2> QED
    BY <2>1, <2>5, <2>7
<1>2. PICK n \in 1..MaxFed : blocks \in VerifiedOf[n]
  BY DEF Verified
<1>3. n \in 0..MaxFed /\ n >= 1
  BY <1>0
<1> HIDE DEF Bad
<1>4. VerifiedOf[n] \subseteq GoodLists(n)
  BY <1>1, <1>3 DEF Bad
<1> QED
  BY <1>2, <1>3, <1>4 DEF GoodLists

(***************************************************************************)
(* The chain.                                                               *)
(***************************************************************************)
SettleEvent(p) == [kind |-> "settle", proposal |-> p]

VotesAt(first, last, kind, p) ==
  Cardinality({i \in first..last : chain[i] = [kind |-> kind, proposal |-> p]})

\* The vote for p has passed in the window that began with block s.
PassedFrom(p, s) ==
  VotesAt(s, s + chain[s].data, "yes", p) > VotesAt(s, s + chain[s].data, "no", p)

\* Each settlement comes after a window in which the vote has passed.
SettledInTime ==
  \A p \in Proposal : \A i \in DOMAIN chain :
     (Vk[p] = GuestVk /\ chain[i] = SettleEvent(p)) =>
        \E s \in OutputBlocks(p) : s + chain[s].data < i /\ PassedFrom(p, s)

HashesAreBlocks == <<>> \notin known

SettlementInv == TypeOK /\ HashesAreBlocks /\ SettledInTime

\* A proposal has at most one cell, with a duration in its data.
LEMMA OneOutput ==
  ASSUME TypeOK, NEW p \in Proposal, NEW s \in OutputBlocks(p)
  PROVE  /\ OutputBlocks(p) = {s}
         /\ s \in 1..Len(chain) /\ s \in Nat
         /\ chain[s].data \in Duration /\ chain[s].data \in Nat
<1>1. chain \in Seq(Event) /\ OutputBlocks(p) \subseteq 1..Len(chain) /\ Len(chain) \in Nat
  BY DEF TypeOK, BlockHash, OutputBlocks
<1>2. IsFiniteSet(OutputBlocks(p))
  <2>1. IsFiniteSet(1..Len(chain))
    BY <1>1, FS_Interval
  <2> QED
    BY <1>1, <2>1, FS_Subset
<1>3. Cardinality(OutputBlocks(p)) <= 1 /\ Cardinality(OutputBlocks(p)) \in Nat
  BY <1>2, FS_CardinalityType DEF TypeOK, OneCell
<1>4. Cardinality(OutputBlocks(p)) # 0
  BY <1>2, FS_EmptySet
<1>5. Cardinality(OutputBlocks(p)) = 1
  BY <1>3, <1>4
<1>6. OutputBlocks(p) = {s}
  BY <1>2, <1>5, FS_Singleton
<1>7. chain[s] \in Event /\ chain[s].kind = "create"
  BY <1>1 DEF OutputBlocks, Creates
<1>8. chain[s].data \in Duration
  BY <1>7 DEF Event
<1>9. s \in 1..Len(chain) /\ s \in Nat
  BY <1>1
<1>10. chain[s].data \in Nat
  BY <1>8, SettlementAssumption DEF SettlementAssumption
<1> QED
  BY <1>6, <1>8, <1>9, <1>10

\* So the window of a proposal and the data of its cell are those of the one block.
LEMMA WindowOfOutput ==
  ASSUME TypeOK, NEW p \in Proposal, NEW s \in OutputBlocks(p)
  PROVE  /\ WindowStart(p) = s
         /\ WindowEnd(p) = s + chain[s].data
         /\ CellData(p) = chain[s].data
<1>1. OutputBlocks(p) = {s} /\ s \in Nat
  BY OneOutput
<1>2. WindowStart(p) = s
  BY <1>1 DEF WindowStart
<1>3. CellData(p) = chain[s].data
  BY <1>1 DEF CellData
<1> QED
  BY <1>2, <1>3 DEF WindowEnd

(***************************************************************************)
(* A hash names a whole history: a verified list that ends in a block of    *)
(* the main chain consists of blocks of the main chain.                     *)
(***************************************************************************)
\* A matching block has an event for its body, which its hash ends with.
LEMMA MatchingType ==
  ASSUME TypeOK, HashesAreBlocks, NEW block \in Matching
  PROVE  /\ block.header.parent_hash \in BlockHash
         /\ block.body \in Event
         /\ HeaderHash(block.header) = Append(block.header.parent_hash, block.body)
<1>1. /\ block.header \in {Header(hash) : hash \in known}
                            \cup [parent_hash: known, transactions_root: Forged]
      /\ block.header.transactions_root = block.body
  BY DEF Matching, Feedable, RootMatches
<1>2. known \subseteq Seq(Event)
  BY DEF TypeOK, BlockHash
<1>3. CASE block.header \in {Header(hash) : hash \in known}
  <2>1. PICK hash \in known : block.header = Header(hash)
    BY <1>3
  <2>2. hash \in Seq(Event) /\ hash # <<>>
    BY <1>2, <2>1 DEF HashesAreBlocks
  <2>3. SubSeq(hash, 1, Len(hash) - 1) \in Seq(Event) /\ hash[Len(hash)] \in Event
    BY <2>2
  <2> QED
    BY <1>1, <2>1, <2>3 DEF Header, Front, Last, BlockHash, HeaderHash
<1>4. CASE block.header \in [parent_hash: known, transactions_root: Forged]
  BY <1>1, <1>2, <1>4, ForgedAssumption DEF BlockHash, HeaderHash, ForgedAssumption
<1> QED
  BY <1>1, <1>3, <1>4

\* The parent of a block of the main chain is the block in front of it.
LEMMA ParentOnChain ==
  ASSUME NEW hash \in Seq(Event), NEW event \in Event, NEW c \in Seq(Event),
         NEW m \in 0..Len(c), Append(hash, event) = SubSeq(c, 1, m)
  PROVE  m >= 1 /\ hash = SubSeq(c, 1, m - 1) /\ event = c[m]
<1>1. Len(hash) + 1 = m
  <2>1. Len(Append(hash, event)) = Len(hash) + 1 /\ Len(SubSeq(c, 1, m)) = m
    OBVIOUS
  <2> QED
    BY <2>1
<1>2. Len(hash) \in Nat /\ m >= 1 /\ m \in 1..Len(c)
  BY <1>1
<1>3. Append(hash, event)[m] = event /\ SubSeq(c, 1, m)[m] = c[m]
  BY <1>1, <1>2
<1>4. ASSUME NEW i \in 1..(m - 1)
      PROVE  hash[i] = SubSeq(c, 1, m - 1)[i]
  <2>1. Append(hash, event)[i] = hash[i]
    BY <1>1, <1>4
  <2>2. SubSeq(c, 1, m)[i] = c[i] /\ SubSeq(c, 1, m - 1)[i] = c[i]
    BY <1>2, <1>4
  <2> QED
    BY <2>1, <2>2
<1>5. hash = SubSeq(c, 1, m - 1)
  <2>1. SubSeq(c, 1, m - 1) \in Seq(Event) /\ Len(SubSeq(c, 1, m - 1)) = m - 1
    BY <1>2
  <2>2. Len(hash) = m - 1
    BY <1>1, <1>2
  <2> QED
    BY <1>4, <2>1, <2>2
<1> QED
  BY <1>2, <1>3, <1>5

\* Block k of such a list is block e - n + k of the main chain.
OnChain(blocks, e, k) ==
  /\ e - Len(blocks) + k >= 1
  /\ HeaderHash(blocks[k].header) = SubSeq(chain, 1, e - Len(blocks) + k)
  /\ blocks[k].body = chain[e - Len(blocks) + k]

LEMMA VerifiedOnChain ==
  ASSUME TypeOK, HashesAreBlocks, NEW blocks \in Verified, NEW e \in 1..Len(chain),
         HeaderHash(Last(blocks).header) = SubSeq(chain, 1, e)
  PROVE  \A k \in 1..Len(blocks) : OnChain(blocks, e, k)
<1> DEFINE n == Len(blocks)
           Bad == {j \in 0..(n - 1) : ~OnChain(blocks, e, n - j)}
<1>1. blocks \in Seq(Matching) /\ n \in Nat /\ n >= 1 /\ Linked(blocks)
  BY VerifiedIsLinked
<1>2. chain \in Seq(Event) /\ Len(chain) \in Nat
  BY DEF TypeOK, BlockHash
\* What the hash of one block says.
<1>3. ASSUME NEW k \in 1..n, NEW m \in 0..Len(chain), m = e - n + k,
             HeaderHash(blocks[k].header) = SubSeq(chain, 1, m)
      PROVE  OnChain(blocks, e, k) /\ blocks[k].header.parent_hash = SubSeq(chain, 1, m - 1)
  <2>1. blocks[k] \in Matching
    BY <1>1
  <2>2. /\ blocks[k].header.parent_hash \in Seq(Event) /\ blocks[k].body \in Event
        /\ HeaderHash(blocks[k].header) = Append(blocks[k].header.parent_hash, blocks[k].body)
    BY <2>1, MatchingType DEF BlockHash
  <2>3. /\ m >= 1 /\ blocks[k].body = chain[m]
        /\ blocks[k].header.parent_hash = SubSeq(chain, 1, m - 1)
    <3>1. Append(blocks[k].header.parent_hash, blocks[k].body) = SubSeq(chain, 1, m)
      BY <1>3, <2>2
    <3> QED
      BY <1>2, <2>2, <3>1, ParentOnChain
  <2> QED
    BY <1>3, <2>3 DEF OnChain
<1>4. Bad = {}
  <2> SUFFICES ASSUME Bad # {} PROVE FALSE
    OBVIOUS
  <2>1. PICK j \in Bad : \A i \in Bad : j <= i
    <3>1. Bad \subseteq Nat
      BY <1>1
    <3> QED
      BY <3>1, Smallest
  <2>2. j \in Nat /\ n - j \in 1..n
    BY <1>1, <2>1
  <2>3. CASE j = 0
    <3>1. Last(blocks) = blocks[n] /\ n - j = n /\ e = e - n + n /\ n \in 1..n
          /\ e \in 0..Len(chain)
      BY <1>1, <1>2, <2>3 DEF Last
    <3>2. OnChain(blocks, e, n)
      BY <1>3, <3>1
    <3> QED
      BY <2>1, <3>1, <3>2
  <2>4. CASE j # 0
    <3> DEFINE k == n - j
               m == e - n + k
    <3>1. k + 1 = n - (j - 1) /\ j - 1 \in 0..(n - 1) /\ k \in 1..n /\ k + 1 \in 2..n
          /\ k + 1 \in 1..n /\ ~(j <= j - 1)
      BY <1>1, <2>1, <2>2, <2>4
    <3>2. OnChain(blocks, e, n - (j - 1))
      BY <2>1, <3>1
    <3>3. OnChain(blocks, e, k + 1)
      BY <3>1, <3>2
    <3>4. e - n + (k + 1) = m + 1 /\ m \in 0..Len(chain) /\ m + 1 \in 0..Len(chain)
      <4>1. e \in Nat /\ e <= Len(chain) /\ k <= n /\ k \in Nat /\ m = e - n + k
            /\ k + 1 <= n
        BY <1>1, <1>2, <3>1
      <4>2. e - n + (k + 1) = m + 1 /\ m + 1 >= 1 /\ m \in Int
        BY <1>1, <4>1, <3>3 DEF OnChain
      <4>3. m + 1 <= e
        BY <1>1, <4>1
      <4> QED
        BY <1>2, <4>1, <4>2, <4>3
    <3>5. HeaderHash(blocks[k + 1].header) = SubSeq(chain, 1, m + 1)
      BY <3>3, <3>4 DEF OnChain
    <3>6. blocks[k + 1].header.parent_hash = SubSeq(chain, 1, (m + 1) - 1)
      BY <1>3, <3>1, <3>4, <3>5
    <3>7. blocks[k + 1].header.parent_hash = HeaderHash(blocks[(k + 1) - 1].header)
      BY <1>1, <3>1 DEF Linked
    <3>8. (m + 1) - 1 = m /\ (k + 1) - 1 = k
      BY <3>1, <3>4
    <3>9. HeaderHash(blocks[k].header) = SubSeq(chain, 1, m)
      BY <3>6, <3>7, <3>8
    <3>10. OnChain(blocks, e, k)
      BY <1>3, <3>1, <3>4, <3>9
    <3> QED
      BY <2>1, <3>10
  <2> QED
    BY <2>3, <2>4
<1>5. ASSUME NEW k \in 1..n
      PROVE  OnChain(blocks, e, k)
  <2>1. n - k \in 0..(n - 1) /\ n - (n - k) = k
    BY <1>1
  <2> QED
    BY <1>4, <2>1
<1> QED
  BY <1>5

(***************************************************************************)
(* Votes.                                                                   *)
(***************************************************************************)
\* The guest program counts in blocks what there is in that part of the chain.
LEMMA SameVotes ==
  ASSUME NEW blocks, Len(blocks) \in Nat, DOMAIN blocks = 1..Len(blocks),
         NEW s \in Nat, NEW p, NEW kind,
         \A k \in 1..Len(blocks) : blocks[k].body = chain[s + k - 1]
  PROVE  VotesIn(blocks, kind, p) = VotesAt(s, s + Len(blocks) - 1, kind, p)
<1> DEFINE n == Len(blocks)
           ev == [kind |-> kind, proposal |-> p]
           S == {k \in 1..n : blocks[k].body = ev}
           T == {i \in s..(s + n - 1) : chain[i] = ev}
           f == [k \in S |-> s + k - 1]
<1>1. IsFiniteSet(S)
  <2>1. IsFiniteSet(1..n) /\ S \subseteq 1..n
    BY FS_Interval
  <2> QED
    BY <2>1, FS_Subset
<1>2. f \in [S -> T]
  <2> SUFFICES ASSUME NEW k \in S PROVE s + k - 1 \in T
    OBVIOUS
  <2>1. s + k - 1 \in s..(s + n - 1) /\ chain[s + k - 1] = ev
    OBVIOUS
  <2> QED
    BY <2>1
<1>3. ASSUME NEW i \in T
      PROVE  \E k \in S : f[k] = i
  <2>1. i - s + 1 \in 1..n /\ s + (i - s + 1) - 1 = i
    OBVIOUS
  <2>2. i - s + 1 \in S
    BY <2>1
  <2> QED
    BY <2>1, <2>2
<1>4. ASSUME NEW k \in S, NEW j \in S, f[k] = f[j]
      PROVE  k = j
  <2>1. k \in Nat /\ j \in Nat /\ s + k - 1 = s + j - 1
    BY <1>4
  <2> QED
    BY <2>1
<1> HIDE DEF S, T, f
<1>5. f \in Bijection(S, T)
  BY <1>2, <1>3, <1>4 DEF Bijection, Injection, IsInjective, Surjection
<1>6. Cardinality(T) = Cardinality(S)
  BY <1>1, <1>5, FS_Bijection DEF ExistsBijection
<1> QED
  BY <1>6 DEF S, T, VotesIn, VotesAt

\* Where the window of p on the main chain ends at e, the guest program commits
\* that the vote has passed exactly if it has.
LEMMA GuestCountsWindow ==
  ASSUME TypeOK, NEW p \in Proposal, NEW s \in OutputBlocks(p), NEW blocks,
         Len(blocks) = chain[s].data + 1, DOMAIN blocks = 1..Len(blocks),
         \A k \in 1..Len(blocks) : blocks[k].body = chain[s + k - 1]
  PROVE  /\ FindProposal(blocks, p) = chain[s].data
         /\ CountPassed(blocks, p) <=> PassedFrom(p, s)
<1>1. s \in Nat /\ chain[s].data \in Nat /\ chain[s].data \in Duration
  BY OneOutput
<1>2. 1 \in 1..Len(blocks) /\ s + 1 - 1 = s /\ Len(blocks) \in Nat
  BY <1>1
<1>3. blocks[1].body = chain[s] /\ Creates(chain[s], p)
  BY <1>2 DEF OutputBlocks
<1>4. FindProposal(blocks, p) = chain[s].data
  BY <1>3 DEF FindProposal
<1>5. chain[s].data # NoData
  BY <1>1, SettlementAssumption DEF SettlementAssumption
<1>6. s + Len(blocks) - 1 = s + chain[s].data
  BY <1>1
<1>7. \A kind : VotesIn(blocks, kind, p) = VotesAt(s, s + Len(blocks) - 1, kind, p)
  BY <1>1, <1>2, SameVotes
<1>8. \A kind : VotesIn(blocks, kind, p) = VotesAt(s, s + chain[s].data, kind, p)
  BY <1>6, <1>7
<1> QED
  BY <1>4, <1>5, <1>8 DEF CountPassed, PassedFrom

(***************************************************************************)
(* The step that settles.                                                   *)
(***************************************************************************)
\* Verified blocks in which the vote passes are the window of the proposal, if the
\* last of them is on the main chain.
LEMMA VerifiedWindow ==
  ASSUME TypeOK, HashesAreBlocks, NEW p \in Proposal, NEW blocks \in Verified,
         CountPassed(blocks, p), HeaderHash(Last(blocks).header) \in MainChain
  PROVE  \E s \in OutputBlocks(p) : /\ s + chain[s].data <= Len(chain) /\ PassedFrom(p, s)
                                    /\ FindProposal(blocks, p) = chain[s].data
<1>0. chain \in Seq(Event) /\ Len(chain) \in Nat
  BY DEF TypeOK, BlockHash
<1>5. PICK e \in 1..Len(chain) : HeaderHash(Last(blocks).header) = SubSeq(chain, 1, e)
  BY DEF MainChain
<1>6. \A k \in 1..Len(blocks) : OnChain(blocks, e, k)
  BY <1>5, VerifiedOnChain
<1>7. blocks \in Seq(Matching) /\ Len(blocks) >= 1 /\ Len(blocks) \in Nat
      /\ DOMAIN blocks = 1..Len(blocks)
  BY VerifiedIsLinked
<1> DEFINE s == e - Len(blocks) + 1
<1>8. s \in 1..Len(chain) /\ blocks[1].body = chain[s]
  <2>1. OnChain(blocks, e, 1)
    BY <1>6, <1>7
  <2> QED
    BY <1>0, <1>7, <2>1 DEF OnChain
<1>9. Creates(blocks[1].body, p) /\ Len(blocks) = blocks[1].body.data + 1
  BY DEF CountPassed, FindProposal
<1>10. s \in OutputBlocks(p)
  BY <1>0, <1>8, <1>9 DEF OutputBlocks
<1>11. Len(blocks) = chain[s].data + 1 /\ chain[s].data \in Nat /\ s \in Nat
  BY <1>8, <1>9, <1>10, OneOutput
<1>12. ASSUME NEW k \in 1..Len(blocks)
       PROVE  blocks[k].body = chain[s + k - 1]
  <2>1. e - Len(blocks) + k = s + k - 1
    BY <1>7
  <2> QED
    BY <1>6, <2>1 DEF OnChain
<1>13. s + chain[s].data = e
  BY <1>7, <1>11, SMTT(30)
<1> HIDE DEF s
<1>14. PassedFrom(p, s) /\ FindProposal(blocks, p) = chain[s].data
  BY <1>7, <1>10, <1>11, <1>12, GuestCountsWindow
<1> QED
  BY <1>0, <1>10, <1>13, <1>14

\* A proof for the guest program settles a proposal only if its window is on the
\* main chain and the vote has passed in it.
LEMMA SettleHasPassed ==
  ASSUME TypeOK, HashesAreBlocks, NEW p \in Proposal, Vk[p] = GuestVk, Settle(p)
  PROVE  \E s \in OutputBlocks(p) : s + chain[s].data <= Len(chain) /\ PassedFrom(p, s)
<1>1. PICK pf \in Provable, start_dep \in MainChain, end_dep \in MainChain :
        ConsumptionAccepted(p, start_dep, end_dep, pf)
  BY DEF Settle
<1>2. pf \notin OtherProofs
  <2>1. pf.program = GuestVk
    BY <1>1 DEF ConsumptionAccepted
  <2> QED
    BY <2>1 DEF OtherProofs
<1>3. PICK blocks \in Verified, r \in Proposal : pf = Proof(GuestVk, GuestResult(blocks, r))
  BY <1>1, <1>2 DEF Provable, GuestProofs
<1>4. /\ r = p /\ CountPassed(blocks, p)
      /\ HeaderHash(Last(blocks).header) \in MainChain
  BY <1>1, <1>3 DEF ConsumptionAccepted, Proof, GuestResult, PublicValues
<1> QED
  BY <1>3, <1>4, VerifiedWindow

(***************************************************************************)
(* The invariant is inductive.                                              *)
(***************************************************************************)
\* Type correctness of a block on top: the proposal in it is a new one, or it
\* has no cell for one.
LEMMA MineTypeOK ==
  ASSUME TypeOK, HashesAreBlocks, NEW event \in Event, Mine(event),
         \A p \in Proposal : Creates(event, p) => OutputBlocks(p) = {}
  PROVE  TypeOK' /\ HashesAreBlocks'
<1>1. /\ chain \in Seq(Event) /\ Len(chain) \in Nat /\ Len(chain) < MaxHeight
      /\ chain' = Append(chain, event) /\ known' = known \cup {chain'}
      /\ MaxHeight \in Nat
  BY SettlementAssumption DEF TypeOK, BlockHash, Mine, SettlementAssumption
<1>2. chain' \in Seq(Event) /\ Len(chain') = Len(chain) + 1 /\ Len(chain') <= MaxHeight
  BY <1>1
<1>3. chain' # <<>>
  BY <1>1
<1>4. known' \subseteq BlockHash /\ HashesAreBlocks'
  BY <1>1, <1>2, <1>3 DEF TypeOK, BlockHash, HashesAreBlocks
<1>5. MainChain' \subseteq known'
  <2> SUFFICES ASSUME NEW i \in 1..(Len(chain) + 1)
               PROVE  SubSeq(chain', 1, i) \in known'
    BY <1>2 DEF MainChain
  <2>1. CASE i \in 1..Len(chain)
    <3>1. SubSeq(Append(chain, event), 1, i) = SubSeq(chain, 1, i)
      BY <1>1, <2>1
    <3> QED
      BY <1>1, <2>1, <3>1 DEF TypeOK, MainChain
  <2>2. CASE i = Len(chain) + 1
    <3>1. SubSeq(chain', 1, i) = chain'
      BY <1>1, <1>2, <2>2
    <3> QED
      BY <1>1, <3>1
  <2>3. i \in 1..Len(chain) \/ i = Len(chain) + 1
    BY <1>1
  <2> QED
    BY <2>1, <2>2, <2>3
<1>6. OneCell'
  <2> SUFFICES ASSUME NEW p \in Proposal
               PROVE  Cardinality(OutputBlocks(p)') <= 1
    BY DEF OneCell
  <2>1. /\ DOMAIN chain = 1..Len(chain) /\ DOMAIN chain' = 1..(Len(chain) + 1)
        /\ \A i \in 1..Len(chain) : chain'[i] = chain[i]
        /\ chain'[Len(chain) + 1] = event
    BY <1>1
  <2>2. CASE Creates(event, p)
    <3>1. OutputBlocks(p) = {}
      BY <2>2
    <3>2. \A i \in 1..Len(chain) : ~Creates(chain'[i], p)
      BY <2>1, <3>1 DEF OutputBlocks
    <3>3. OutputBlocks(p)' = {Len(chain) + 1}
      BY <1>1, <2>1, <2>2, <3>2 DEF OutputBlocks
    <3>4. Cardinality({Len(chain) + 1}) = 1
      BY FS_Singleton
    <3> QED
      BY <3>3, <3>4
  <2>3. CASE ~Creates(event, p)
    <3>1. OutputBlocks(p)' = OutputBlocks(p)
      BY <1>1, <2>1, <2>3 DEF OutputBlocks
    <3>2. PICK cells : cells = OutputBlocks(p) /\ Cardinality(cells) <= 1
      BY DEF TypeOK, OneCell
    <3>3. OutputBlocks(p)' = cells
      BY <3>1, <3>2
    <3> QED
      BY <3>2, <3>3
  <2> QED
    BY <2>2, <2>3
<1>7. reorgs' \in 0..MaxReorgs
  BY DEF Mine, TypeOK
<1> QED
  BY <1>2, <1>4, <1>5, <1>6, <1>7 DEF TypeOK, BlockHash

\* What a common prefix of two chains says about settlements in it is the same.
LEMMA SamePrefix ==
  ASSUME TypeOK, NEW p \in Proposal, NEW i \in Nat,
         \A k \in 1..i : k \in DOMAIN chain' /\ chain'[k] = chain[k],
         NEW s \in OutputBlocks(p), s + chain[s].data < i, PassedFrom(p, s)
  PROVE  s \in OutputBlocks(p)' /\ s + chain'[s].data < i /\ PassedFrom(p, s)'
<1>1. s \in Nat /\ s >= 1 /\ chain[s].data \in Nat
  BY OneOutput
<1>2. s \in 1..i
  BY <1>1
<1>3. chain'[s] = chain[s]
  BY <1>2
<1>4. s \in OutputBlocks(p)'
  BY <1>2, <1>3 DEF OutputBlocks
<1>5. \A k \in s..(s + chain[s].data) : chain'[k] = chain[k]
  BY <1>1, <1>2
<1>6. \A kind : VotesAt(s, s + chain[s].data, kind, p)' = VotesAt(s, s + chain[s].data, kind, p)
  <2> SUFFICES ASSUME NEW kind
               PROVE  {k \in s..(s + chain[s].data) : chain'[k] = [kind |-> kind, proposal |-> p]}
                      = {k \in s..(s + chain[s].data) : chain[k] = [kind |-> kind, proposal |-> p]}
    BY <1>3 DEF VotesAt
  <2> QED
    BY <1>5
<1> QED
  BY <1>3, <1>4, <1>6 DEF PassedFrom

\* A block on top keeps the settlements below it, and is a settlement in time
\* itself if it is one.
LEMMA MineSettledInTime ==
  ASSUME TypeOK, SettledInTime, NEW event \in Event, Mine(event),
         \A p \in Proposal : (Vk[p] = GuestVk /\ event = SettleEvent(p)) =>
            \E s \in OutputBlocks(p) : s + chain[s].data <= Len(chain) /\ PassedFrom(p, s)
  PROVE  SettledInTime'
<1> SUFFICES ASSUME NEW p \in Proposal, NEW i \in DOMAIN chain',
                    Vk[p] = GuestVk, chain'[i] = SettleEvent(p)
             PROVE  \E s \in OutputBlocks(p)' : s + chain'[s].data < i /\ PassedFrom(p, s)'
  BY DEF SettledInTime, SettleEvent
<1> DEFINE n == Len(chain)
<1>1. /\ chain \in Seq(Event) /\ n \in Nat /\ chain' = Append(chain, event)
  BY DEF TypeOK, BlockHash, Mine
<1>2. /\ DOMAIN chain = 1..n /\ DOMAIN chain' = 1..Len(chain') /\ Len(chain') = n + 1
      /\ \A k \in 1..n : chain'[k] = chain[k]
      /\ chain'[n + 1] = event
  BY <1>1
<1>3. CASE i \in 1..n
  <2>1. chain[i] = SettleEvent(p)
    BY <1>2, <1>3
  <2>2. PICK s \in OutputBlocks(p) : s + chain[s].data < i /\ PassedFrom(p, s)
    BY <1>2, <1>3, <2>1 DEF SettledInTime
  <2>3. i \in Nat /\ \A k \in 1..i : k \in DOMAIN chain' /\ chain'[k] = chain[k]
    BY <1>1, <1>2, <1>3
  <2>4. s \in OutputBlocks(p)' /\ s + chain'[s].data < i /\ PassedFrom(p, s)'
    BY <2>2, <2>3, SamePrefix
  <2> QED
    BY <2>4
<1>4. CASE i = n + 1
  <2>1. PICK s \in OutputBlocks(p) : s + chain[s].data <= n /\ PassedFrom(p, s)
    BY <1>2, <1>4
  <2>2. s \in Nat /\ chain[s].data \in Nat /\ s >= 1 /\ s \in 1..n
    BY <2>1, OneOutput
  <2>3. chain'[s] = chain[s] /\ s \in OutputBlocks(p)'
    BY <1>2, <2>2 DEF OutputBlocks
  <2>4. \A k \in s..(s + chain[s].data) : chain'[k] = chain[k]
    BY <1>2, <2>1, <2>2
  <2>5. \A kind : VotesAt(s, s + chain[s].data, kind, p)' = VotesAt(s, s + chain[s].data, kind, p)
    <3> SUFFICES ASSUME NEW kind
                 PROVE  {k \in s..(s + chain[s].data) : chain'[k] = [kind |-> kind, proposal |-> p]}
                        = {k \in s..(s + chain[s].data) : chain[k] = [kind |-> kind, proposal |-> p]}
      BY <2>3 DEF VotesAt
    <3> QED
      BY <2>4
  <2>6. PassedFrom(p, s)'
    BY <2>1, <2>3, <2>5 DEF PassedFrom
  <2>7. s + chain'[s].data < i
    BY <1>1, <1>4, <2>1, <2>2, <2>3
  <2> QED
    BY <2>3, <2>6, <2>7
<1>5. i \in 1..n \/ i = n + 1
  BY <1>1, <1>2
<1> QED
  BY <1>3, <1>4, <1>5

\* A reorganisation leaves a prefix, and the settlements in it with their windows.
LEMMA ReorgKeeps ==
  ASSUME SettlementInv, Reorg
  PROVE  SettlementInv'
<1>1. PICK n \in 1..Len(chain) :
        /\ chain' = SubSeq(chain, 1, Len(chain) - n)
        /\ reorgs < MaxReorgs /\ reorgs' = reorgs + 1 /\ UNCHANGED known
  BY DEF Reorg
<1> DEFINE m == Len(chain) - n
<1>2. chain \in Seq(Event) /\ Len(chain) \in Nat /\ TypeOK
  BY DEF SettlementInv, TypeOK, BlockHash
<1>3. m \in Nat /\ m <= Len(chain)
  BY <1>1, <1>2
<1>4. /\ chain' \in Seq(Event) /\ Len(chain') = m /\ DOMAIN chain' = 1..m
      /\ \A i \in 1..m : chain'[i] = chain[i]
  BY <1>1, <1>2, <1>3
<1>5. Len(chain') <= MaxHeight
  BY <1>2, <1>3, <1>4, SettlementAssumption DEF TypeOK, SettlementAssumption
<1>6. MainChain' \subseteq known'
  <2> SUFFICES ASSUME NEW i \in 1..m
               PROVE  SubSeq(chain', 1, i) \in known
    BY <1>1, <1>4 DEF MainChain
  <2>1. SubSeq(SubSeq(chain, 1, m), 1, i) = SubSeq(chain, 1, i) /\ i \in 1..Len(chain)
    BY <1>2, <1>3
  <2> QED
    BY <1>1, <1>2, <2>1 DEF TypeOK, MainChain
<1>7. OneCell'
  <2> SUFFICES ASSUME NEW p \in Proposal
               PROVE  Cardinality(OutputBlocks(p)') <= 1
    BY DEF OneCell
  <2>1. PICK cells : cells = OutputBlocks(p)
    OBVIOUS
  <2>2. IsFiniteSet(cells) /\ Cardinality(cells) <= 1 /\ Cardinality(cells) \in Nat
    <3>1. cells \subseteq 1..Len(chain)
      BY <1>2, <2>1 DEF OutputBlocks
    <3>2. IsFiniteSet(1..Len(chain))
      BY <1>2, FS_Interval
    <3>3. IsFiniteSet(cells)
      BY <3>1, <3>2, FS_Subset
    <3>4. Cardinality(cells) \in Nat
      BY <3>3, FS_CardinalityType
    <3> QED
      BY <1>2, <2>1, <3>3, <3>4 DEF TypeOK, OneCell
  <2>3. PICK left : left = OutputBlocks(p)'
    OBVIOUS
  <2>4. left \subseteq cells
    BY <1>2, <1>3, <1>4, <2>1, <2>3 DEF OutputBlocks
  <2>5. Cardinality(left) <= Cardinality(cells) /\ IsFiniteSet(left)
    BY <2>2, <2>4, FS_Subset
  <2>6. Cardinality(left) \in Nat
    BY <2>5, FS_CardinalityType
  <2> QED
    BY <2>2, <2>3, <2>5, <2>6
<1>8. reorgs' \in 0..MaxReorgs
  BY <1>1, <1>2, SettlementAssumption DEF TypeOK, SettlementAssumption
<1>9. TypeOK' /\ HashesAreBlocks'
  BY <1>1, <1>2, <1>4, <1>5, <1>6, <1>7, <1>8
  DEF TypeOK, BlockHash, SettlementInv, HashesAreBlocks
<1>10. SettledInTime'
  <2> SUFFICES ASSUME NEW p \in Proposal, NEW i \in 1..m,
                      Vk[p] = GuestVk, chain'[i] = SettleEvent(p)
               PROVE  \E s \in OutputBlocks(p)' : s + chain'[s].data < i /\ PassedFrom(p, s)'
    BY <1>4 DEF SettledInTime, SettleEvent
  <2>1. chain[i] = SettleEvent(p) /\ i \in DOMAIN chain
    BY <1>2, <1>3, <1>4
  <2>2. PICK s \in OutputBlocks(p) : s + chain[s].data < i /\ PassedFrom(p, s)
    BY <2>1 DEF SettlementInv, SettledInTime
  <2>3. i \in Nat /\ \A k \in 1..i : k \in DOMAIN chain' /\ chain'[k] = chain[k]
    BY <1>3, <1>4
  <2>4. s \in OutputBlocks(p)' /\ s + chain'[s].data < i /\ PassedFrom(p, s)'
    BY <1>2, <2>2, <2>3, SamePrefix
  <2> QED
    BY <2>4
<1> QED
  BY <1>9, <1>10 DEF SettlementInv

\* Every step keeps the invariant.
LEMMA StepKeeps ==
  ASSUME SettlementInv, [Next]_vars
  PROVE  SettlementInv'
<1>0. TypeOK /\ HashesAreBlocks /\ SettledInTime
  BY DEF SettlementInv
<1>1. ASSUME NEW event \in Event, Mine(event),
             \A p \in Proposal : Creates(event, p) => OutputBlocks(p) = {},
             \A p \in Proposal : (Vk[p] = GuestVk /\ event = SettleEvent(p)) =>
               \E s \in OutputBlocks(p) : s + chain[s].data <= Len(chain) /\ PassedFrom(p, s)
      PROVE  SettlementInv'
  BY <1>0, <1>1, MineTypeOK, MineSettledInTime DEF SettlementInv
<1>2. CASE MineOther
  <2> DEFINE event == [kind |-> "other"]
  <2>1. event \in Event /\ Mine(event)
    BY <1>2 DEF MineOther, Event
  <2>2. \A p \in Proposal : ~Creates(event, p) /\ event # SettleEvent(p)
    BY DEF Creates, SettleEvent
  <2> HIDE DEF event
  <2> QED
    BY <1>1, <2>1, <2>2
<1>3. CASE Reorg
  BY <1>3, ReorgKeeps
<1>4. ASSUME NEW p \in Proposal, Create(p)
      PROVE  SettlementInv'
  <2>1. PICK data \in Duration, in_inputs \in BOOLEAN :
          /\ ~in_inputs /\ OutputBlocks(p) = {}
          /\ Mine([kind |-> "create", proposal |-> p, data |-> data])
    BY <1>4 DEF Create, NotOnBothSides, CreationAccepted
  <2> DEFINE event == [kind |-> "create", proposal |-> p, data |-> data]
  <2>2. event \in Event /\ Mine(event)
    BY <2>1 DEF Event
  <2>3. \A r \in Proposal : (Creates(event, r) => OutputBlocks(r) = {}) /\ event # SettleEvent(r)
    BY <2>1 DEF Creates, SettleEvent
  <2> HIDE DEF event
  <2> QED
    BY <1>1, <2>2, <2>3
<1>5. ASSUME NEW p \in Proposal, CastVote(p)
      PROVE  SettlementInv'
  <2>1. PICK kind \in {"yes", "no"} : Mine([kind |-> kind, proposal |-> p])
    BY <1>5 DEF CastVote
  <2> DEFINE event == [kind |-> kind, proposal |-> p]
  <2>2. event \in Event /\ Mine(event)
    BY <2>1 DEF Event
  <2>3. \A r \in Proposal : ~Creates(event, r) /\ event # SettleEvent(r)
    BY DEF Creates, SettleEvent
  <2> HIDE DEF event
  <2> QED
    BY <1>1, <2>2, <2>3
<1>6. ASSUME NEW p \in Proposal, Settle(p)
      PROVE  SettlementInv'
  <2>1. Mine(SettleEvent(p)) /\ SettleEvent(p) \in Event
    BY <1>6 DEF Settle, SettleEvent, Event
  <2>2. \A r \in Proposal : ~Creates(SettleEvent(p), r)
    BY DEF Creates, SettleEvent
  <2>3. \A r \in Proposal : SettleEvent(p) = SettleEvent(r) => r = p
    BY DEF SettleEvent
  <2>4. Vk[p] = GuestVk =>
          \E s \in OutputBlocks(p) : s + chain[s].data <= Len(chain) /\ PassedFrom(p, s)
    BY <1>0, <1>6, SettleHasPassed
  <2> DEFINE event == SettleEvent(p)
  <2>5. event \in Event /\ Mine(event)
    BY <2>1
  <2>6. \A r \in Proposal : Creates(event, r) => OutputBlocks(r) = {}
    BY <2>2
  <2>7. \A r \in Proposal : (Vk[r] = GuestVk /\ event = SettleEvent(r)) =>
          \E s \in OutputBlocks(r) : s + chain[s].data <= Len(chain) /\ PassedFrom(r, s)
    BY <2>3, <2>4
  <2> HIDE DEF event
  <2> QED
    BY <1>1, <2>5, <2>6, <2>7
<1>7. CASE UNCHANGED vars
  <2>1. chain' = chain /\ known' = known /\ reorgs' = reorgs
    BY <1>7 DEF vars
  <2>2. MainChain' = MainChain
    BY <2>1 DEF MainChain
  <2>3. \A p : OutputBlocks(p)' = OutputBlocks(p)
    BY <2>1 DEF OutputBlocks
  <2>4. OneCell'
    BY <1>0, <2>3 DEF TypeOK, OneCell
  <2>5. TypeOK' /\ HashesAreBlocks'
    BY <1>0, <2>1, <2>2, <2>4 DEF TypeOK, HashesAreBlocks
  <2>6. \A p, s : PassedFrom(p, s)' = PassedFrom(p, s)
    BY <2>1 DEF PassedFrom, VotesAt
  <2>7. SettledInTime'
    BY <1>0, <2>1, <2>3, <2>6 DEF SettledInTime
  <2> QED
    BY <2>5, <2>7 DEF SettlementInv
<1> QED
  BY <1>2, <1>3, <1>4, <1>5, <1>6, <1>7 DEF Next

\* An empty chain satisfies the invariant.
LEMMA InitKeeps == Init => SettlementInv
<1> SUFFICES ASSUME Init PROVE SettlementInv
  OBVIOUS
<1>1. chain = <<>> /\ known = {} /\ reorgs = 0 /\ DOMAIN chain = {} /\ Len(chain) = 0
      /\ chain \in Seq(Event)
  BY DEF Init
<1>2. MainChain = {}
  BY <1>1 DEF MainChain
<1>3. \A p \in Proposal : OutputBlocks(p) = {}
  BY <1>1 DEF OutputBlocks
<1>4. OneCell
  BY <1>3, FS_EmptySet DEF OneCell
<1>5. SettledInTime
  BY <1>1 DEF SettledInTime
<1> QED
  BY <1>1, <1>2, <1>4, <1>5, SettlementAssumption
  DEF SettlementInv, TypeOK, HashesAreBlocks, BlockHash, SettlementAssumption

\* The invariant holds in every behaviour.
LEMMA SettlementInvInductive == Spec => []SettlementInv
  BY InitKeeps, StepKeeps, PTL DEF Spec

(***************************************************************************)
(* The theorems.                                                            *)
(***************************************************************************)
\* The chain is made of known blocks, and the Type ID with AppearsOnBothSides
\* leaves each proposal one cell on it.
THEOREM TypeCorrect == Spec => []TypeOK
<1>1. SettlementInv => TypeOK
  BY DEF SettlementInv
<1> QED
  BY <1>1, SettlementInvInductive, PTL

\* What the properties call the window is the window of the invariant.
LEMMA SettledWindow ==
  ASSUME TypeOK, SettledInTime, NEW p \in Proposal, Vk[p] = GuestVk,
         NEW i \in DOMAIN chain, chain[i] = SettleEvent(p)
  PROVE  /\ i > WindowEnd(p) /\ WindowEnd(p) <= Len(chain)
         /\ VotesInWindow(p, "yes") > VotesInWindow(p, "no")
<1>1. PICK s \in OutputBlocks(p) : s + chain[s].data < i /\ PassedFrom(p, s)
  BY DEF SettledInTime
<1>2. s \in Nat /\ chain[s].data \in Nat /\ OutputBlocks(p) = {s}
  BY OneOutput
<1>3. WindowStart(p) = s
  BY <1>2 DEF WindowStart
<1>4. WindowEnd(p) = s + chain[s].data
  BY <1>3 DEF WindowEnd
<1>5. i \in Nat /\ i <= Len(chain) /\ Len(chain) \in Nat
  BY DEF TypeOK, BlockHash
<1>6. \A kind : VotesInWindow(p, kind) = VotesAt(s, s + chain[s].data, kind, p)
  BY <1>3, <1>4 DEF VotesInWindow, VotesAt
<1> QED
  BY <1>1, <1>2, <1>4, <1>5, <1>6 DEF PassedFrom

\* A proposal on the main chain whose key is that of the guest program is settled
\* only if the main chain contains its whole window and the vote passed in it,
\* whatever was fed to the guest program and whatever was reorganised.
THEOREM SettledHasPassed == Spec => []SettledOnlyIfPassed
<1>1. SettlementInv => SettledOnlyIfPassed
  <2> SUFFICES ASSUME SettlementInv, NEW p \in Proposal, Settled(p), Vk[p] = GuestVk
               PROVE  PassedInWindow(p)
    BY DEF SettledOnlyIfPassed
  <2>1. PICK i \in DOMAIN chain : chain[i] = SettleEvent(p)
    BY DEF Settled, SettleEvent
  <2> QED
    BY <2>1, SettledWindow DEF SettlementInv, PassedInWindow
<1> QED
  BY <1>1, SettlementInvInductive, PTL

\* The settlement of such a proposal is in a later block than the last one whose
\* votes are counted.
THEOREM SettledAfter == Spec => []SettledAfterWindow
<1>1. SettlementInv => SettledAfterWindow
  BY SettledWindow DEF SettlementInv, SettledAfterWindow, SettleEvent
<1> QED
  BY <1>1, SettlementInvInductive, PTL

\* The header of a block on the chain hashes to the name of the block.
LEMMA HeaderNamesBlock ==
  ASSUME NEW c \in Seq(Event), NEW i \in 1..Len(c)
  PROVE  HeaderHash(Header(SubSeq(c, 1, i))) = SubSeq(c, 1, i)
<1> DEFINE hash == SubSeq(c, 1, i)
<1>1. /\ hash \in Seq(Event) /\ Len(hash) = i /\ i \in Nat /\ i >= 1 /\ Len(c) \in Nat
      /\ \A k \in 1..i : hash[k] = c[k]
  OBVIOUS
<1> HIDE DEF hash
<1> DEFINE front == SubSeq(hash, 1, i - 1)
<1>2. /\ front \in Seq(Event) /\ Len(front) = i - 1
      /\ \A k \in 1..(i - 1) : front[k] = hash[k]
  BY <1>1
<1>3. hash[i] \in Event
  BY <1>1
<1>4. HeaderHash(Header(hash)) = Append(front, hash[i])
  BY <1>1 DEF HeaderHash, Header, Front, Last
<1> HIDE DEF front
<1> DEFINE again == Append(front, hash[i])
<1>5. again \in Seq(Event) /\ Len(again) = i
  BY <1>1, <1>2, <1>3
<1>6. \A k \in 1..i : again[k] = hash[k]
  <2> SUFFICES ASSUME NEW k \in 1..i PROVE again[k] = hash[k]
    OBVIOUS
  <2>1. CASE k = i
    BY <1>1, <1>2, <1>3, <2>1
  <2>2. CASE k # i
    <3>1. k \in 1..(i - 1)
      BY <1>1, <2>2
    <3> QED
      BY <1>1, <1>2, <1>3, <3>1
  <2> QED
    BY <2>1, <2>2
<1> HIDE DEF again
<1>7. again = hash
  BY <1>1, <1>5, <1>6
<1> QED
  BY <1>4, <1>7 DEF hash, again

\* The blocks of the main chain from one to another, as a prover feeds them.
Window(first, last) ==
  [k \in 1..(last - first + 1) |->
     [header |-> Header(SubSeq(chain, 1, first + k - 1)), body |-> chain[first + k - 1]]]

LEMMA WindowBlocks ==
  ASSUME NEW first \in Nat, NEW n \in Nat
  PROVE  /\ Len(Window(first, first + n)) = n + 1
         /\ DOMAIN Window(first, first + n) = 1..(n + 1)
         /\ \A k \in 1..(n + 1) :
              /\ Window(first, first + n)[k].header = Header(SubSeq(chain, 1, first + k - 1))
              /\ Window(first, first + n)[k].body = chain[first + k - 1]
<1>1. first + n - first + 1 = n + 1 /\ n + 1 \in Nat
  OBVIOUS
<1> QED
  BY <1>1 DEF Window

\* The blocks of the window are a proof that the script accepts.
LEMMA WindowSettles ==
  ASSUME TypeOK, NEW p \in Proposal, NEW s \in OutputBlocks(p), Vk[p] = GuestVk,
         s + chain[s].data <= Len(chain), PassedFrom(p, s)
  PROVE  \E start_dep, end_dep \in MainChain :
           ConsumptionAccepted(p, start_dep, end_dep,
             Proof(GuestVk, GuestResult(Window(s, s + chain[s].data), p)))
<1> DEFINE window == Window(s, s + chain[s].data)
<1>1. /\ chain \in Seq(Event) /\ Len(chain) \in Nat /\ s \in Nat /\ s >= 1
      /\ chain[s].data \in Nat /\ OutputBlocks(p) = {s}
  BY OneOutput DEF TypeOK, BlockHash
<1> DEFINE d == chain[s].data
<1>0. s \in 1..Len(chain) /\ s + d \in 1..Len(chain)
  <2>1. PICK e, len : e = s + d /\ len = Len(chain)
    OBVIOUS
  <2>2. e \in Nat /\ len \in Nat /\ s <= e
    BY <1>1, <2>1
  <2>3. e <= len
    BY <2>1
  <2> QED
    BY <1>1, <2>1, <2>2, <2>3
<1>2. /\ Len(window) = d + 1 /\ DOMAIN window = 1..Len(window) /\ Len(window) \in Nat
      /\ \A k \in 1..(d + 1) : /\ window[k].header = Header(SubSeq(chain, 1, s + k - 1))
                               /\ window[k].body = chain[s + k - 1]
  <2>1. /\ Len(window) = d + 1 /\ DOMAIN window = 1..(d + 1)
        /\ \A k \in 1..(d + 1) : /\ window[k].header = Header(SubSeq(chain, 1, s + k - 1))
                                 /\ window[k].body = chain[s + k - 1]
    <3> HIDE DEF d
    <3> QED
      BY <1>1, WindowBlocks DEF d
  <2> QED
    BY <1>1, <2>1
<1> HIDE DEF window
<1>3. FindProposal(window, p) = d /\ CountPassed(window, p)
  BY <1>2, GuestCountsWindow
<1>4. CellData(p) = d
  BY <1>1 DEF CellData
<1>5. HeaderHash(window[1].header) = SubSeq(chain, 1, s)
  <2>1. 1 \in 1..(d + 1) /\ s + 1 - 1 = s /\ s \in 1..Len(chain)
    BY <1>1
  <2> QED
    BY <1>1, <1>2, <2>1, HeaderNamesBlock
<1>6. HeaderHash(Last(window).header) = SubSeq(chain, 1, s + d)
  <2>1. d + 1 \in 1..(d + 1) /\ s + (d + 1) - 1 = s + d
    BY <1>1
  <2>2. Last(window).header = Header(SubSeq(chain, 1, s + d))
    BY <1>2, <2>1 DEF Last
  <2> QED
    BY <1>1, <1>0, <2>2, HeaderNamesBlock
<1>7. SubSeq(chain, 1, s) \in MainChain /\ SubSeq(chain, 1, s + d) \in MainChain
  BY <1>0 DEF MainChain
<1>8. ConsumptionAccepted(p, SubSeq(chain, 1, s), SubSeq(chain, 1, s + d),
                          Proof(GuestVk, GuestResult(window, p)))
  BY <1>3, <1>4, <1>5, <1>6 DEF ConsumptionAccepted, Proof, GuestResult, PublicValues
<1> QED
  BY <1>7, <1>8 DEF window

\* Permissionless settlement: as long as a passed proposal is not settled, the
\* blocks of its window on the main chain give a proof that the script accepts.
THEOREM PassedCanBeSettled == Spec => []PassedCanSettle
<1>1. TypeOK => PassedCanSettle
  <2> SUFFICES ASSUME TypeOK, NEW p \in Proposal, Live(p), Vk[p] = GuestVk, PassedInWindow(p)
               PROVE  \E start_dep, end_dep \in MainChain :
                        ConsumptionAccepted(p, start_dep, end_dep,
                          Proof(GuestVk, GuestResult(Window(WindowStart(p), WindowEnd(p)), p)))
    BY Zenon DEF PassedCanSettle, Window
  <2>1. PICK s \in OutputBlocks(p) : TRUE
    BY DEF Live
  <2>2. OutputBlocks(p) = {s}
    BY OneOutput
  <2>3. WindowStart(p) = s
    BY <2>2 DEF WindowStart
  <2>4. WindowEnd(p) = s + chain[s].data
    BY <2>3 DEF WindowEnd
  <2>5. \A kind : VotesInWindow(p, kind) = VotesAt(s, s + chain[s].data, kind, p)
    BY <2>3, <2>4 DEF VotesInWindow, VotesAt
  <2>6. s + chain[s].data <= Len(chain) /\ PassedFrom(p, s)
    BY <2>4, <2>5 DEF PassedInWindow, PassedFrom
  <2>7. \E start_dep, end_dep \in MainChain :
          ConsumptionAccepted(p, start_dep, end_dep,
            Proof(GuestVk, GuestResult(Window(s, s + chain[s].data), p)))
    BY <2>6, WindowSettles
  <2> QED
    BY <2>3, <2>4, <2>7
<1> QED
  BY <1>1, TypeCorrect, PTL

(***************************************************************************)
(* The commands implement Settlement.                                       *)
(***************************************************************************)
BlocksOf(hashes) == {[header |-> Header(hash), body |-> Last(hash)] : hash \in hashes}

\* Blocks that were on some branch, in whatever order.
FedBy(hashes, blocks) == blocks \in Seq(BlocksOf(hashes)) /\ Len(blocks) \in 1..MaxFed

\* Public values that say that the vote has passed and that, if they speak of a
\* proposal on the chain, the guest program has committed for such blocks.
Good(hashes, values) ==
  /\ values.passed
  /\ values.proposal_script \in Proposal =>
       \E blocks : /\ FedBy(hashes, blocks) /\ GuestAccepts(blocks)
                   /\ values = GuestResult(blocks, values.proposal_script)

FetchedOK(hashes, f) ==
  f # Missing =>
    /\ f = [start |-> f.start, blocks |-> f.blocks]
    /\ \E n \in Counts : f.blocks \in [1..n -> BlocksOf(hashes) \cup {Missing}]

DumpOK(hashes, d) == d # Missing => FedBy(hashes, d)

HostOK(hashes, h) ==
  h # Missing =>
    /\ h = [phase |-> h.phase, mock |-> h.mock, script |-> h.script,
            blocks |-> h.blocks, values |-> h.values]
    /\ h.phase = "started" /\ h.script \in Proposal => FedBy(hashes, h.blocks)
    /\ h.phase # "started" => Good(hashes, h.values)

ProofOK(hashes, f) ==
  f \notin {Missing, Partial} =>
    \E values : f = Proof(GuestVk, values) /\ Good(hashes, values)

FilesInv ==
  /\ FetchedOK(known, fetched) /\ DumpOK(known, dump)
  /\ HostOK(known, host) /\ ProofOK(known, proof_file)

HostInv == SettlementInv /\ FilesInv

\* What was a block of some branch remains one.
LEMMA FilesKeep ==
  ASSUME NEW hashes, NEW more, hashes \subseteq more, NEW f, NEW d, NEW h, NEW pf
  PROVE  /\ FetchedOK(hashes, f) => FetchedOK(more, f)
         /\ DumpOK(hashes, d) => DumpOK(more, d)
         /\ HostOK(hashes, h) => HostOK(more, h)
         /\ ProofOK(hashes, pf) => ProofOK(more, pf)
<1>1. BlocksOf(hashes) \subseteq BlocksOf(more)
  BY DEF BlocksOf
<1>2. \A blocks : FedBy(hashes, blocks) => FedBy(more, blocks)
  <2>1. Seq(BlocksOf(hashes)) \subseteq Seq(BlocksOf(more))
    BY <1>1
  <2> QED
    BY <2>1 DEF FedBy
<1>3. \A values : Good(hashes, values) => Good(more, values)
  BY <1>2 DEF Good
<1>4. \A n : [1..n -> BlocksOf(hashes) \cup {Missing}]
                \subseteq [1..n -> BlocksOf(more) \cup {Missing}]
  BY <1>1
<1>5. FetchedOK(hashes, f) => FetchedOK(more, f)
  BY <1>4 DEF FetchedOK
<1> QED
  BY <1>2, <1>3, <1>5 DEF DumpOK, HostOK, ProofOK

\* The blocks for which the guest program does not panic are verified ones.
LEMMA AcceptedIsVerified ==
  ASSUME NEW blocks, FedBy(known, blocks), GuestAccepts(blocks)
  PROVE  blocks \in Verified
<1> DEFINE n == Len(blocks)
           Bad == {m \in Nat : m <= n /\ SubSeq(blocks, 1, m) \notin VerifiedOf[m]}
<1>1. BlocksOf(known) \subseteq Feedable
  BY DEF BlocksOf, Feedable
<1>2. blocks \in Seq(Feedable)
  BY <1>1 DEF FedBy
<1>3. n \in Nat /\ n >= 1 /\ n <= MaxFed /\ DOMAIN blocks = 1..n
  BY <1>2, SettlementAssumption DEF FedBy, SettlementAssumption
<1>4. Bad = {}
  <2> SUFFICES ASSUME Bad # {} PROVE FALSE
    OBVIOUS
  <2>1. PICK m \in Bad : \A k \in Bad : m <= k
    BY Smallest
  <2>2. m \in Nat /\ m <= n /\ SubSeq(blocks, 1, m) \notin VerifiedOf[m] /\ m \in 0..MaxFed
    BY <1>3, SettlementAssumption DEF SettlementAssumption
  <2>3. m # 0
    <3>1. SubSeq(blocks, 1, 0) = <<>>
      BY <1>2
    <3>2. VerifiedOf[0] = {<<>>}
      BY VerifiedOfEquation, SettlementAssumption DEF SettlementAssumption
    <3> QED
      BY <2>2, <3>1, <3>2
  <2> DEFINE before == SubSeq(blocks, 1, m - 1)
  <2>4. before \in VerifiedOf[m - 1]
    <3>1. m - 1 \in Nat /\ m - 1 <= n /\ ~(m <= m - 1)
      BY <1>3, <2>2, <2>3
    <3>2. m - 1 \notin Bad
      BY <2>1, <3>1
    <3> QED
      BY <3>1, <3>2
  <2>5. m \in 1..n
    BY <1>3, <2>2, <2>3
  <2>6. blocks[m] \in Matching /\ ExtendsBlocks(before, blocks[m])
    <3>1. blocks[m] \in Feedable
      BY <1>2, <1>3, <2>5
    <3> QED
      BY <1>3, <2>5, <3>1 DEF GuestAccepts, Matching
  <2>7. SubSeq(blocks, 1, m) = Append(before, blocks[m])
    BY <1>2, <1>3, <2>5
  <2> HIDE DEF before
  <2>8. Append(before, blocks[m]) \in Longer(VerifiedOf[m - 1])
    BY <2>4, <2>6 DEF Longer
  <2>9. VerifiedOf[m] = Longer(VerifiedOf[m - 1])
    BY <2>2, <2>3, VerifiedOfEquation
  <2> QED
    BY <2>2, <2>7, <2>8, <2>9
<1>5. SubSeq(blocks, 1, n) = blocks
  BY <1>2
<1>6. blocks \in VerifiedOf[n]
  <2>1. n \notin Bad /\ n \in Nat /\ n <= n
    BY <1>3, <1>4
  <2>2. SubSeq(blocks, 1, n) \in VerifiedOf[n]
    BY <2>1
  <2> QED
    BY <1>5, <2>2
<1>7. n \in 1..MaxFed
  BY DEF FedBy
<1> HIDE DEF n
<1> QED
  BY <1>6, <1>7 DEF Verified

\* A block that is fetched is one of the main chain, so a known one.
LEMMA FetchedIsKnown ==
  ASSUME TypeOK, NEW i \in DOMAIN chain
  PROVE  [header |-> Header(SubSeq(chain, 1, i)), body |-> chain[i]] \in BlocksOf(known)
<1>1. chain \in Seq(Event) /\ i \in 1..Len(chain) /\ Len(chain) \in Nat
  BY DEF TypeOK, BlockHash
<1>2. SubSeq(chain, 1, i) \in known
  BY <1>1 DEF TypeOK, MainChain
<1>3. Last(SubSeq(chain, 1, i)) = chain[i]
  <2>1. PICK hash : hash = SubSeq(chain, 1, i)
    OBVIOUS
  <2>2. Len(hash) = i /\ hash[i] = chain[i]
    BY <1>1, <2>1
  <2> QED
    BY <2>1, <2>2 DEF Last
<1> QED
  BY <1>2, <1>3 DEF BlocksOf

\* No step forgets a block.
LEMMA KnownStaysKnown ==
  ASSUME [Next]_vars
  PROVE  known \subseteq known'
<1>1. ASSUME NEW event, Mine(event) PROVE known \subseteq known'
  BY <1>1 DEF Mine
<1>2. CASE MineOther
  BY <1>1, <1>2 DEF MineOther
<1>3. CASE Reorg
  BY <1>3 DEF Reorg
<1>4. ASSUME NEW p \in Proposal, Create(p) \/ CastVote(p) \/ Settle(p)
      PROVE  known \subseteq known'
  BY <1>1, <1>4 DEF Create, CastVote, Settle
<1>5. CASE UNCHANGED vars
  BY <1>5 DEF vars
<1> QED
  BY <1>2, <1>3, <1>4, <1>5 DEF Next

\* The steps of the commands other than consume-proposal, which leave the chain
\* alone.
LEMMA DumpKeeps ==
  ASSUME HostInv, DumpStep
  PROVE  FilesInv' /\ UNCHANGED vars
<1>0. TypeOK /\ FilesInv
  BY DEF HostInv, SettlementInv
<1>1. UNCHANGED <<chainVars, host, files>>
  BY DEF DumpStep, FindStart, Fetch, WriteDump, DumpFails
<1>2. /\ known' = known /\ host' = host /\ proof_file' = proof_file /\ UNCHANGED vars
  BY <1>1 DEF chainVars, files, vars
<1>3. FetchedOK(known, fetched)' /\ DumpOK(known, dump)'
  <2>1. CASE FindStart
    <3>1. PICK i \in DOMAIN chain, count \in Counts :
            fetched' = [start |-> i, blocks |-> [k \in 1..count |-> Missing]]
      BY <2>1 DEF FindStart
    <3>2. [k \in 1..count |-> Missing] \in [1..count -> BlocksOf(known) \cup {Missing}]
      OBVIOUS
    <3>3. FetchedOK(known, fetched')
      BY <3>1, <3>2 DEF FetchedOK
    <3>4. dump' = dump
      BY <2>1 DEF FindStart
    <3> QED
      BY <1>0, <1>2, <3>3, <3>4 DEF FilesInv
  <2>2. CASE Fetch
    <3>1. PICK k \in DOMAIN fetched.blocks :
            /\ fetched # Missing
            /\ fetched.start + k - 1 \in DOMAIN chain
            /\ fetched' = [fetched EXCEPT !.blocks[k] =
                 [header |-> Header(SubSeq(chain, 1, fetched.start + k - 1)),
                  body |-> chain[fetched.start + k - 1]]]
      BY <2>2 DEF Fetch
    <3>2. PICK n \in Counts : fetched.blocks \in [1..n -> BlocksOf(known) \cup {Missing}]
      BY <1>0, <3>1 DEF FilesInv, FetchedOK
    <3>3. fetched = [start |-> fetched.start, blocks |-> fetched.blocks]
      BY <1>0, <3>1 DEF FilesInv, FetchedOK
    <3>4. PICK block \in BlocksOf(known) : fetched' = [fetched EXCEPT !.blocks[k] = block]
      BY <1>0, <3>1, FetchedIsKnown
    <3>5. /\ fetched'.start = fetched.start
          /\ fetched'.blocks = [fetched.blocks EXCEPT ![k] = block]
          /\ fetched' = [start |-> fetched'.start, blocks |-> fetched'.blocks]
      BY <3>3, <3>4
    <3>6. fetched'.blocks \in [1..n -> BlocksOf(known) \cup {Missing}]
      BY <3>2, <3>5
    <3>7. FetchedOK(known, fetched')
      BY <3>5, <3>6 DEF FetchedOK
    <3>8. dump' = dump
      BY <2>2 DEF Fetch
    <3> QED
      BY <1>0, <1>2, <3>7, <3>8 DEF FilesInv
  <2>3. CASE WriteDump
    <3>1. PICK n \in Counts : fetched.blocks \in [1..n -> BlocksOf(known) \cup {Missing}]
      BY <1>0, <2>3 DEF WriteDump, FilesInv, FetchedOK
    <3>2. fetched.blocks \in [1..n -> BlocksOf(known)]
      BY <2>3, <3>1 DEF WriteDump
    <3>3. n \in Nat /\ n \in 1..MaxFed
      BY HostAssumption, SettlementAssumption DEF HostAssumption, SettlementAssumption
    <3>4. PICK blocks : blocks = fetched.blocks
      OBVIOUS
    <3>5. blocks \in Seq(BlocksOf(known)) /\ Len(blocks) = n
      BY <3>2, <3>3, <3>4
    <3>6. DumpOK(known, dump')
      BY <2>3, <3>3, <3>4, <3>5 DEF WriteDump, DumpOK, FedBy
    <3>7. FetchedOK(known, fetched')
      BY <2>3 DEF WriteDump, FetchedOK
    <3> QED
      BY <1>2, <3>6, <3>7
  <2>4. CASE DumpFails
    <3>1. fetched' = Missing /\ dump' = dump
      BY <2>4 DEF DumpFails
    <3>2. FetchedOK(known, fetched')
      BY <3>1 DEF FetchedOK
    <3> QED
      BY <1>0, <1>2, <3>1, <3>2 DEF FilesInv
  <2> QED
    BY <2>1, <2>2, <2>3, <2>4 DEF DumpStep
<1> QED
  BY <1>0, <1>2, <1>3 DEF FilesInv

LEMMA HostKeeps ==
  ASSUME HostInv, HostStep
  PROVE  FilesInv' /\ UNCHANGED vars
<1>0. FilesInv
  BY DEF HostInv
<1>1. UNCHANGED <<chainVars, fetched, dump>>
  BY DEF HostStep, StartReal, StartMock, Start, Prove, SaveProof, SaveValues, Crash
<1>2. known' = known /\ fetched' = fetched /\ dump' = dump /\ UNCHANGED vars
  BY <1>1 DEF chainVars, vars
<1>3. HostOK(known, host') /\ ProofOK(known, proof_file')
  <2>1. CASE StartReal
    <3>1. PICK p \in Proposal : Start(FALSE, p, dump) /\ dump # Missing
      BY <2>1 DEF StartReal
    <3>2. FedBy(known, dump)
      BY <1>0, <3>1 DEF FilesInv, DumpOK
    <3>3. host' = [phase |-> "started", mock |-> FALSE, script |-> p,
                   blocks |-> dump, values |-> Missing]
      BY <3>1 DEF Start
    <3>4. HostOK(known, host')
      BY <3>2, <3>3 DEF HostOK
    <3>5. proof_file' = proof_file
      BY <3>1 DEF Start, files
    <3> QED
      BY <1>0, <3>4, <3>5 DEF FilesInv
  <2>2. CASE StartMock
    <3>1. PICK blocks : host' = [phase |-> "started", mock |-> TRUE, script |-> MockProposal,
                                 blocks |-> blocks, values |-> Missing]
      BY <2>2 DEF StartMock, Start
    <3>2. HostOK(known, host')
      BY <3>1, HostAssumption DEF HostOK, HostAssumption
    <3>3. proof_file' = proof_file
      BY <2>2 DEF StartMock, Start, files
    <3> QED
      BY <1>0, <3>2, <3>3 DEF FilesInv
  <2>3. CASE Prove
    <3>1. proof_file' = proof_file
      BY <2>3 DEF Prove, files
    <3>2. CASE host' = Missing
      BY <1>0, <3>1, <3>2 DEF FilesInv, HostOK
    <3>3. CASE host' # Missing
      <4>1. PICK values : /\ values = GuestResult(host.blocks, host.script)
                          /\ GuestAccepts(host.blocks) /\ values.passed
                          /\ host' = [host EXCEPT !.phase = "proved", !.blocks = <<>>,
                                                  !.values = values]
        BY <2>3, <3>3 DEF Prove
      <4>2. host # Missing /\ host.phase = "started"
        BY <2>3 DEF Prove, At
      <4>3. host = [phase |-> host.phase, mock |-> host.mock, script |-> host.script,
                    blocks |-> host.blocks, values |-> host.values]
        BY <1>0, <4>2 DEF FilesInv, HostOK
      <4>4. host.script \in Proposal => FedBy(known, host.blocks)
        BY <1>0, <4>2 DEF FilesInv, HostOK
      <4>5. host' = [phase |-> "proved", mock |-> host.mock, script |-> host.script,
                     blocks |-> <<>>, values |-> values]
        BY <4>1, <4>3
      <4>6. values.proposal_script = host.script
        BY <4>1 DEF GuestResult, PublicValues
      <4>7. Good(known, values)
        BY <4>1, <4>4, <4>6 DEF Good
      <4>8. HostOK(known, host')
        BY <4>5, <4>7 DEF HostOK
      <4> QED
        BY <1>0, <3>1, <4>8 DEF FilesInv
    <3> QED
      BY <3>2, <3>3
  <2>4. CASE SaveProof
    <3>1. CASE proof_file' = Partial /\ host' = Missing
      BY <3>1 DEF HostOK, ProofOK
    <3>2. CASE /\ proof_file' = Proof(GuestVk, host.values)
               /\ host' = [host EXCEPT !.phase = "proof saved"]
      <4>1. host # Missing /\ host.phase = "proved"
        BY <2>4 DEF SaveProof, At
      <4>2. /\ host = [phase |-> host.phase, mock |-> host.mock, script |-> host.script,
                       blocks |-> host.blocks, values |-> host.values]
            /\ Good(known, host.values)
        BY <1>0, <4>1 DEF FilesInv, HostOK
      <4>3. host' = [phase |-> "proof saved", mock |-> host.mock, script |-> host.script,
                     blocks |-> host.blocks, values |-> host.values]
        BY <3>2, <4>2
      <4>4. HostOK(known, host')
        BY <4>2, <4>3 DEF HostOK
      <4>5. ProofOK(known, proof_file')
        BY <3>2, <4>2 DEF ProofOK
      <4> QED
        BY <4>4, <4>5
    <3> QED
      BY <2>4, <3>1, <3>2 DEF SaveProof
  <2>5. CASE SaveValues \/ Crash
    <3>1. host' = Missing /\ proof_file' = proof_file
      BY <2>5 DEF SaveValues, Crash, files
    <3> QED
      BY <1>0, <3>1 DEF FilesInv, HostOK
  <2> QED
    BY <2>1, <2>2, <2>3, <2>4, <2>5 DEF HostStep
<1> QED
  BY <1>0, <1>2, <1>3 DEF FilesInv

\* consume-proposal settles with a proof that the guest program gives.
LEMMA ConsumeSettles ==
  ASSUME HostInv, Consume
  PROVE  Next /\ UNCHANGED <<fetched, dump, host, files>>
<1>1. PICK p \in Proposal, start_dep \in MainChain, end_dep \in MainChain :
        /\ Live(p)
        /\ Proves(proof_file, values_file)
        /\ ConsumptionAccepted(p, start_dep, end_dep, Proof(GuestVk, values_file))
        /\ Mine([kind |-> "settle", proposal |-> p])
  BY DEF Consume
<1>2. PICK values : proof_file = Proof(GuestVk, values) /\ Good(known, values)
  BY <1>1 DEF HostInv, FilesInv, ProofOK, Proves, Consume
<1>3. values_file = values
  BY <1>1, <1>2 DEF Proves, Proof
<1>4. values.proposal_script = p
  BY <1>1, <1>3 DEF ConsumptionAccepted, Proof
<1>5. PICK blocks : /\ FedBy(known, blocks) /\ GuestAccepts(blocks)
                    /\ values = GuestResult(blocks, p)
  BY <1>2, <1>4 DEF Good
<1>6. blocks \in Verified
  BY <1>5, AcceptedIsVerified
<1>7. Proof(GuestVk, values_file) \in Provable
  BY <1>3, <1>5, <1>6 DEF Provable, GuestProofs
<1>8. Settle(p)
  BY <1>1, <1>7 DEF Settle
<1> QED
  BY <1>8 DEF Next, Consume

\* Every step of the commands is a step of Settlement or none, and keeps the
\* invariant.
LEMMA HostStepImplements ==
  ASSUME HostInv, [HostNext]_hostVars
  PROVE  [Next]_vars /\ HostInv'
<1>1. CASE DumpStep \/ HostStep
  <2>1. FilesInv' /\ UNCHANGED vars
    BY <1>1, DumpKeeps, HostKeeps
  <2>2. SettlementInv'
    BY <2>1, StepKeeps DEF HostInv
  <2> QED
    BY <2>1, <2>2 DEF HostInv
<1>2. CASE [Next]_vars /\ UNCHANGED <<fetched, dump, host, files>>
  <2>1. known \subseteq known'
    BY <1>2, KnownStaysKnown
  <2>2. fetched' = fetched /\ dump' = dump /\ host' = host /\ proof_file' = proof_file
    BY <1>2 DEF files
  <2>3. /\ FetchedOK(known', fetched) /\ DumpOK(known', dump)
        /\ HostOK(known', host) /\ ProofOK(known', proof_file)
    BY <2>1, FilesKeep DEF HostInv, FilesInv
  <2>4. FilesInv'
    BY <2>2, <2>3 DEF FilesInv
  <2>5. SettlementInv'
    BY <1>2, StepKeeps DEF HostInv
  <2> QED
    BY <1>2, <2>4, <2>5 DEF HostInv
<1>3. CASE ChainStep
  BY <1>2, <1>3 DEF ChainStep, Next
<1>4. CASE Consume
  BY <1>2, <1>4, ConsumeSettles
<1>5. CASE UNCHANGED hostVars
  BY <1>2, <1>5 DEF hostVars, chainVars, vars
<1> QED
  BY <1>1, <1>3, <1>4, <1>5 DEF HostNext

\* Without a block, a process or a file the invariant holds.
LEMMA HostInitKeeps == HostInit => Init /\ HostInv
  BY InitKeeps DEF HostInit, HostInv, FilesInv, FetchedOK, DumpOK, HostOK, ProofOK

LEMMA HostInvInductive == HostSpec => []HostInv
  BY HostInitKeeps, HostStepImplements, PTL DEF HostSpec

\* Whatever mixture of blocks, runs, crashes and files led to it, a settlement
\* is one that Settlement allows.
THEOREM HostImplementsSettlement == HostSpec => ImplementsSettlement
  BY HostInitKeeps, HostStepImplements, PTL DEF HostSpec, ImplementsSettlement, Spec

\* As long as both ends of the window are on the main chain and the proposal is
\* not settled, the script accepts what the host has written.
THEOREM WrittenIsAccepted == HostSpec => []WrittenProofSettles
<1>1. HostInv => WrittenProofSettles
  <2> SUFFICES ASSUME HostInv, NEW p \in Proposal, Vk[p] = GuestVk, Live(p),
                      proof_file \notin {Missing, Partial}, Proves(proof_file, values_file),
                      values_file.proposal_script = p,
                      values_file.start_block_hash \in MainChain,
                      values_file.end_block_hash \in MainChain
               PROVE  ConsumptionAccepted(p, values_file.start_block_hash,
                                          values_file.end_block_hash, proof_file)
    BY DEF WrittenProofSettles
  <2>1. PICK values : proof_file = Proof(GuestVk, values) /\ Good(known, values)
    BY DEF HostInv, FilesInv, ProofOK
  <2>2. values_file = values
    BY <2>1 DEF Proves, Proof
  <2>3. PICK blocks : /\ FedBy(known, blocks) /\ GuestAccepts(blocks)
                      /\ values = GuestResult(blocks, p)
    BY <2>1, <2>2 DEF Good
  <2>4. blocks \in Verified
    BY <2>3, AcceptedIsVerified
  <2>5. CountPassed(blocks, p) /\ HeaderHash(Last(blocks).header) \in MainChain
    BY <2>1, <2>2, <2>3 DEF Good, GuestResult, PublicValues
  <2>6. PICK s \in OutputBlocks(p) : FindProposal(blocks, p) = chain[s].data
    BY <2>4, <2>5, VerifiedWindow DEF HostInv, SettlementInv
  <2>7. OutputBlocks(p) = {s} /\ s \in Nat
    BY OneOutput DEF HostInv, SettlementInv
  <2>8. CellData(p) = chain[s].data
    BY <2>7 DEF CellData
  <2>9. values.proposal = CellData(p) /\ values.proposal_script = p /\ values.passed
    BY <2>1, <2>3, <2>6, <2>8 DEF Good, GuestResult, PublicValues
  <2> QED
    BY <2>1, <2>2, <2>9 DEF ConsumptionAccepted, Proof
<1> QED
  BY <1>1, HostInvInductive, PTL
(***************************************************************************)
(* Mock runs.                                                               *)
(***************************************************************************)
\* Templates are blocks that some chain had, in whatever order.
IsTemplates(templates) == \E hashes \in SUBSET BlockHash : FedBy(hashes, templates)

\* What a mock run is started with.
MockInv ==
  At("started") /\ host.mock =>
    /\ host.script = MockProposal
    /\ \E templates : IsTemplates(templates) /\ host.blocks = GenerateFromTemplates(templates)

\* A step that starts no mock run keeps what is known of one.
LEMMA MockInvStep ==
  ASSUME HostInv, MockInv, [HostNext]_hostVars
  PROVE  MockInv'
<1>1. CASE UNCHANGED host \/ host' = Missing
  BY <1>1 DEF MockInv, At
<1>2. CASE StartReal
  <2>1. host'.mock = FALSE
    BY <1>2 DEF StartReal, Start
  <2> QED
    BY <2>1 DEF MockInv
<1>3. CASE StartMock
  <2>1. dump # Missing /\ Start(TRUE, MockProposal, GenerateFromTemplates(dump))
    BY <1>3 DEF StartMock
  <2>2. known \in SUBSET BlockHash /\ FedBy(known, dump)
    BY <2>1 DEF HostInv, SettlementInv, TypeOK, FilesInv, DumpOK
  <2>3. IsTemplates(dump)
    BY <2>2, Zenon DEF IsTemplates
  <2> DEFINE made == GenerateFromTemplates(dump)
  <2> HIDE DEF made
  <2>4. host' = [phase |-> "started", mock |-> TRUE, script |-> MockProposal,
                 blocks |-> made, values |-> Missing]
    BY <2>1 DEF Start, made
  <2>5. host'.script = MockProposal /\ host'.blocks = made
    BY <2>4
  <2> QED
    BY <2>3, <2>5 DEF MockInv, made
<1>4. CASE host' # Missing /\ (Prove \/ SaveProof)
  <2>1. host # Missing
    BY <1>4 DEF Prove, SaveProof, At
  <2>2. host = [phase |-> host.phase, mock |-> host.mock, script |-> host.script,
                blocks |-> host.blocks, values |-> host.values]
    BY <2>1 DEF HostInv, FilesInv, HostOK
  <2>3. \/ \E values : host' = [host EXCEPT !.phase = "proved", !.blocks = <<>>,
                                           !.values = values]
        \/ host' = [host EXCEPT !.phase = "proof saved"]
    BY <1>4 DEF Prove, SaveProof
  <2>4. host'.phase # "started"
    BY <2>2, <2>3
  <2> QED
    BY <2>4 DEF MockInv, At
<1>5. UNCHANGED host \/ host' = Missing \/ StartReal \/ StartMock \/ Prove \/ SaveProof
  BY DEF HostNext, ChainStep, DumpStep, FindStart, Fetch, WriteDump, DumpFails, HostStep,
         SaveValues, Crash, Consume, hostVars
<1> QED
  BY <1>1, <1>2, <1>3, <1>4, <1>5

LEMMA MockInvAlways == HostSpec => []MockInv
<1>1. HostInit => MockInv
  BY DEF HostInit, MockInv, At
<1>2. HostInv /\ MockInv /\ [HostNext]_hostVars => MockInv'
  BY MockInvStep
<1> QED
  BY <1>1, <1>2, HostInvInductive, PTL DEF HostSpec

\* Relinking keeps the bodies and the roots, and gives each block but the first
\* the hash of the block in front of it.  The recursion that says so has a
\* solution: the parent hash of block i is that of the first block, followed by
\* the transactions in front of it.
LEMMA Relinked ==
  ASSUME NEW templates, IsTemplates(templates),
         NEW n, n = Len(templates), NEW blocks, blocks = GenerateFromTemplates(templates)
  PROVE  /\ n \in Nat \ {0} /\ DOMAIN blocks = 1..n
         /\ blocks = [i \in 1..n |-> blocks[i]]
         /\ \A i \in 1..n : /\ blocks[i].body = ExtraTx(i, n)
                            /\ blocks[i].header.transactions_root = ExtraTx(i, n)
         /\ \A i \in 2..n : blocks[i].header.parent_hash = HeaderHash(blocks[i - 1].header)
<1>1. PICK hashes \in SUBSET BlockHash : FedBy(hashes, templates)
  BY DEF IsTemplates
<1>2. /\ n \in Nat \ {0} /\ DOMAIN templates = 1..n
      /\ \A i \in 1..n : templates[i] \in BlocksOf(hashes)
  BY <1>1, SettlementAssumption DEF FedBy, SettlementAssumption
<1> DEFINE tx == [i \in 1..n |-> ExtraTx(i, n)]
           built == [i \in DOMAIN templates |-> Rebuilt(templates[i], ExtraTx(i, Len(templates)))]
           base == templates[1].header.parent_hash
           parent == [i \in 1..n |-> base \o [k \in 1..(i - 1) |-> tx[k]]]
           IsRelinking(f) == f = [i \in DOMAIN built |->
                                    IF i = 1 THEN built[1]
                                    ELSE [built[i] EXCEPT !.header.parent_hash =
                                            HeaderHash(f[i - 1].header)]]
           g == [i \in 1..n |-> [header |-> [parent_hash |-> parent[i], transactions_root |-> tx[i]],
                                 body |-> tx[i]]]
<1>3. \A i \in 1..n : \E hash \in hashes :
        templates[i] = [header |-> Header(hash), body |-> Last(hash)]
  BY <1>2 DEF BlocksOf
<1>4. \A i \in 1..n :
        built[i] = [header |-> [parent_hash |-> templates[i].header.parent_hash,
                                transactions_root |-> tx[i]], body |-> tx[i]]
  <2> SUFFICES ASSUME NEW i \in 1..n
               PROVE  built[i] = [header |-> [parent_hash |-> templates[i].header.parent_hash,
                                              transactions_root |-> tx[i]], body |-> tx[i]]
    OBVIOUS
  <2>1. PICK hash \in hashes : templates[i] = [header |-> Header(hash), body |-> Last(hash)]
    BY <1>3
  <2>2. built[i] = Rebuilt(templates[i], tx[i])
    BY <1>2
  <2> HIDE DEF built, tx
  <2>3. templates[i].header = [parent_hash |-> Front(hash), transactions_root |-> Last(hash)]
    BY <2>1 DEF Header
  <2> QED
    BY <2>2, <2>3 DEF Rebuilt
<1>5. DOMAIN built = 1..n
  BY <1>2
<1> HIDE DEF built
<1> DEFINE Body == Event \cup {tx[k] : k \in 1..n}
<1>6. base \in Seq(Body)
  <2>1. PICK hash \in hashes : templates[1] = [header |-> Header(hash), body |-> Last(hash)]
    BY <1>2, <1>3
  <2>2. base = Front(hash)
    BY <2>1 DEF Header
  <2>3. hash \in Seq(Event)
    BY DEF BlockHash
  <2>4. Front(hash) \in Seq(Event)
    BY <2>3 DEF Front
  <2> HIDE DEF base
  <2>5. Event \subseteq Body
    OBVIOUS
  <2> HIDE DEF Body
  <2> QED
    BY <2>2, <2>4, <2>5
<1>7. \A i \in 2..n : parent[i] = Append(parent[i - 1], tx[i - 1])
  <2> SUFFICES ASSUME NEW i \in 2..n PROVE parent[i] = Append(parent[i - 1], tx[i - 1])
    OBVIOUS
  <2>1. i \in 1..n /\ i - 1 \in 1..n /\ i - 2 \in Nat /\ (i - 1) - 1 = i - 2 /\ i - 1 \in Nat
    BY <1>2
  <2> DEFINE front == [k \in 1..(i - 2) |-> tx[k]]
             whole == [k \in 1..(i - 1) |-> tx[k]]
  <2>2. \A k \in 1..n : tx[k] \in Body
    OBVIOUS
  <2>3. /\ parent[i] = base \o whole /\ parent[i - 1] = base \o front
    BY <2>1
  <2> HIDE DEF Body, base, parent
  <2>4. whole \in Seq(Body) /\ front \in Seq(Body) /\ Len(front) = i - 2 /\ Len(whole) = i - 1
        /\ tx[i - 1] \in Body
    BY <1>2, <2>1, <2>2
  <2>5. /\ \A k \in 1..(i - 2) : whole[k] = front[k]
        /\ whole[i - 1] = tx[i - 1]
    BY <2>1
  <2> HIDE DEF front, whole, tx
  <2>6. whole = Append(front, tx[i - 1])
    BY <2>1, <2>4, <2>5
  <2>7. base \o Append(front, tx[i - 1]) = Append(base \o front, tx[i - 1])
    BY <1>6, <2>4, SMTT(30)
  <2> QED
    BY <2>3, <2>6, <2>7
<1>8. parent[1] = base
  <2> HIDE DEF base, tx
  <2>3. 1 \in 1..n
    BY <1>2
  <2>1. parent[1] = base \o [k \in 1..(1 - 1) |-> tx[k]]
    BY <2>3
  <2>2. [k \in 1..(1 - 1) |-> tx[k]] = <<>>
    OBVIOUS
  <2> HIDE DEF parent, base
  <2> QED
    BY <1>6, <2>1, <2>2
<1> HIDE DEF parent, tx
<1>9. ASSUME NEW i \in 1..n
      PROVE  g[i] = IF i = 1 THEN built[1]
                    ELSE [built[i] EXCEPT !.header.parent_hash = HeaderHash(g[i - 1].header)]
  <2>1. CASE i = 1
    BY <1>4, <1>8, <2>1
  <2>2. CASE i # 1
    <3>1. i \in 2..n /\ i - 1 \in 1..n
      BY <1>2, <2>2
    <3>2. HeaderHash(g[i - 1].header) = Append(parent[i - 1], tx[i - 1])
      BY <3>1 DEF HeaderHash
    <3>3. HeaderHash(g[i - 1].header) = parent[i]
      BY <1>7, <3>1, <3>2
    <3> DEFINE hash == HeaderHash(g[i - 1].header)
    <3>4. g[i] = [header |-> [parent_hash |-> parent[i], transactions_root |-> tx[i]],
                  body |-> tx[i]]
      OBVIOUS
    <3>5. hash = parent[i]
      BY <3>3
    <3> HIDE DEF hash, g, base, Body
    <3>6. [built[i] EXCEPT !.header.parent_hash = hash] = g[i]
      <4> DEFINE old == templates[i].header.parent_hash
                 body == tx[i]
                 top == parent[i]
      <4>1. built[i] = [header |-> [parent_hash |-> old, transactions_root |-> body],
                        body |-> body]
        BY <1>4
      <4> HIDE DEF old, body, top
      <4>2. [built[i] EXCEPT !.header.parent_hash = top]
              = [header |-> [parent_hash |-> top, transactions_root |-> body], body |-> body]
        BY <4>1
      <4> QED
        BY <3>4, <3>5, <4>2 DEF body, top
    <3> QED
      BY <2>2, <3>6 DEF hash
  <2> QED
    BY <2>1, <2>2
<1>10. IsRelinking(g)
  <2> DEFINE h == [i \in DOMAIN built |->
                     IF i = 1 THEN built[1]
                     ELSE [built[i] EXCEPT !.header.parent_hash = HeaderHash(g[i - 1].header)]]
  <2>1. g = h
    BY <1>5, <1>9, Zenon
  <2> QED
    BY <2>1
<1>11. blocks = CHOOSE f : IsRelinking(f)
  BY DEF GenerateFromTemplates, Relink, built
<1>12. IsRelinking(blocks)
  <2> HIDE DEF IsRelinking, g
  <2> QED
    BY <1>10, <1>11
<1>13. \A i \in 1..n : blocks[i] = IF i = 1 THEN built[1]
                                   ELSE [built[i] EXCEPT !.header.parent_hash =
                                           HeaderHash(blocks[i - 1].header)]
  BY <1>5, <1>12, Zenon
<1>14. DOMAIN blocks = 1..n /\ blocks = [i \in 1..n |-> blocks[i]]
  BY <1>5, <1>12
<1>15. ASSUME NEW i \in 1..n
       PROVE  /\ blocks[i].body = tx[i] /\ blocks[i].header.transactions_root = tx[i]
              /\ i # 1 => blocks[i].header.parent_hash = HeaderHash(blocks[i - 1].header)
  <2>1. built[i] = [header |-> [parent_hash |-> templates[i].header.parent_hash,
                                transactions_root |-> tx[i]], body |-> tx[i]]
    BY <1>4
  <2> HIDE DEF IsRelinking, g, base, Body
  <2>2. CASE i = 1
    <3>1. blocks[i] = built[i]
      BY <1>13, <2>2
    <3> QED
      BY <2>1, <2>2, <3>1
  <2>3. CASE i # 1
    <3> DEFINE hash == HeaderHash(blocks[i - 1].header)
    <3>1. blocks[i] = [built[i] EXCEPT !.header.parent_hash = hash]
      BY <1>13, <2>3
    <3> HIDE DEF hash
    <3>2. blocks[i].body = tx[i] /\ blocks[i].header.transactions_root = tx[i]
          /\ blocks[i].header.parent_hash = hash
      BY <2>1, <3>1
    <3> QED
      BY <3>2 DEF hash
  <2> QED
    BY <2>2, <2>3
<1>16. \A i \in 1..n : tx[i] = ExtraTx(i, n)
  BY DEF tx
<1>17. \A i \in 2..n : i \in 1..n /\ i # 1
  OBVIOUS
<1> QED
  BY <1>2, <1>14, <1>15, <1>16, <1>17

\* What generate_from_templates makes of the blocks in the dump, from however many
\* branches they are, is accepted by the guest program, and unless it is a single
\* block the vote passes.
THEOREM MockRunPasses == HostSpec => []MockPasses
<1>1. ASSUME MockInv PROVE MockPasses
  <2> SUFFICES ASSUME At("started"), host.mock
               PROVE  /\ GuestAccepts(host.blocks)
                      /\ Len(host.blocks) > 1 => GuestResult(host.blocks, host.script).passed
    BY DEF MockPasses
  <2> DEFINE blocks == host.blocks
  <2>1. PICK templates : IsTemplates(templates) /\ blocks = GenerateFromTemplates(templates)
    BY <1>1 DEF MockInv
  <2>2. host.script = MockProposal
    BY <1>1 DEF MockInv
  <2> HIDE DEF blocks
  <2> DEFINE n == Len(templates)
  <2>3. /\ n \in Nat \ {0} /\ DOMAIN blocks = 1..n
        /\ blocks = [i \in 1..n |-> blocks[i]]
        /\ \A i \in 1..n : /\ blocks[i].body = ExtraTx(i, n)
                           /\ blocks[i].header.transactions_root = ExtraTx(i, n)
        /\ \A i \in 2..n : blocks[i].header.parent_hash = HeaderHash(blocks[i - 1].header)
    BY <2>1, Relinked
  <2> HIDE DEF n
  <2> DEFINE Block == {blocks[i] : i \in 1..n}
  <2>4. blocks \in Seq(Block) /\ Len(blocks) = n /\ DOMAIN blocks = 1..n
    BY <2>3
  <2>5. ASSUME NEW i \in 1..n
        PROVE  RootMatches(blocks[i]) /\ ExtendsBlocks(SubSeq(blocks, 1, i - 1), blocks[i])
    <3> DEFINE front == SubSeq(blocks, 1, i - 1)
               block == blocks[i]
    <3>1. RootMatches(block)
      BY <2>3 DEF RootMatches
    <3>2. front \in Seq(Block) /\ Len(front) = i - 1
          /\ \A k \in 1..(i - 1) : front[k] = blocks[k]
      <4> HIDE DEF Block
      <4>1. i \in Int /\ i <= n /\ 1 <= i /\ n \in Nat
        BY <2>3
      <4> QED
        BY <2>4, <4>1
    <3>3. ASSUME front # <<>>
          PROVE  block.header.parent_hash = HeaderHash(Last(front).header)
      <4>1. i # 1
        BY <3>2, <3>3
      <4>2. i \in 2..n /\ i - 1 \in 1..(i - 1)
        BY <2>3, <4>1
      <4>3. Last(front) = blocks[i - 1]
        <5> HIDE DEF front, Block
        <5> QED
          BY <3>2, <4>2 DEF Last
      <4> QED
        BY <2>3, <4>2, <4>3
    <3>4. ExtendsBlocks(front, block)
      <4> HIDE DEF front, block
      <4> QED
        BY <3>3 DEF ExtendsBlocks
    <3> QED
      BY <3>1, <3>4
  <2>6. GuestAccepts(blocks)
    <3>1. blocks # <<>>
      BY <2>3, <2>4
    <3> QED
      BY <2>4, <2>5, <3>1 DEF GuestAccepts
  <2>7. ASSUME n > 1 PROVE CountPassed(blocks, MockProposal)
    <3> DEFINE vote == [kind |-> "yes", proposal |-> MockProposal]
               against == [kind |-> "no", proposal |-> MockProposal]
    <3>1. blocks[1].body = [kind |-> "create", proposal |-> MockProposal, data |-> n - 1]
      BY <2>3 DEF ExtraTx
    <3>2. \A i \in 2..n : blocks[i].body = vote
      <4>1. \A i \in 2..n : i \in 1..n /\ i # 1
        OBVIOUS
      <4> QED
        BY <2>3, <4>1 DEF ExtraTx
    <3>3. FindProposal(blocks, MockProposal) = n - 1
      BY <3>1 DEF FindProposal, Creates
    <3>4. n - 1 # NoData /\ Len(blocks) = (n - 1) + 1
      BY <2>3, <2>4, SampleAssumption
    <3>5. blocks[1].body # vote /\ blocks[1].body # against
      BY <3>1
    <3>6. vote # against
      OBVIOUS
    <3> HIDE DEF vote, against
    <3>7. \A i \in 1..n : i = 1 \/ i \in 2..n
      OBVIOUS
    <3>8. {i \in 1..n : blocks[i].body = against} = {}
      BY <3>2, <3>5, <3>6, <3>7
    <3>9. {i \in 1..n : blocks[i].body = vote} = 2..n
      <4>1. 2..n \subseteq 1..n /\ 1 \notin 2..n
        OBVIOUS
      <4> QED
        BY <3>2, <3>5, <3>7, <4>1, Zenon
    <3>10. VotesIn(blocks, "yes", MockProposal) = n - 1
      <4>1. n \in Int /\ 2 \in Int /\ ~(2 > n) /\ (n - 2) + 1 = n - 1
        BY <2>3, <2>7
      <4>2. Cardinality(2..n) = n - 1
        BY <4>1, FS_Interval, Zenon
      <4> QED
        BY <2>4, <3>9, <4>2 DEF VotesIn, vote
    <3>11. VotesIn(blocks, "no", MockProposal) = 0
      BY <2>4, <3>8, FS_EmptySet DEF VotesIn, against
    <3> QED
      BY <2>3, <2>7, <3>3, <3>4, <3>10, <3>11 DEF CountPassed
  <2>8. ASSUME n > 1 PROVE GuestResult(blocks, MockProposal).passed
    BY <2>7, <2>8 DEF GuestResult, PublicValues
  <2> QED
    BY <2>2, <2>4, <2>6, <2>8 DEF blocks
<1>2. MockInv => MockPasses
  BY <1>1
<1> QED
  BY <1>2, MockInvAlways, PTL
=============================================================================
