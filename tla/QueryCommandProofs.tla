------------------------- MODULE QueryCommandProofs -------------------------
(***************************************************************************)
(* What the command query shows, for every value of the constants: the      *)
(* proof of ShowsSnapshot.                                                  *)
(*                                                                          *)
(* The keys of the entries order them along the chain, so what is behind a  *)
(* cursor does not change what is before it when blocks arrive; the entries *)
(* read so far are those up to the cursor, each once (ScanInv).  The lists  *)
(* made of complete entries are snapshots (CollectedIsSnapshot, SelectedIs- *)
(* Newest).  All of it holds as long as no block is abandoned.              *)
(***************************************************************************)
EXTENDS QueryCommand, FiniteSetTheorems, FunctionTheorems, SequenceTheorems, TLAPS

Tx    == [spends : Cell \cup {None}, creates : Cell \cup {None}, block : Nat]
Hash  == (Cell \cup {None}) \X (Cell \cup {None})
Entry == [key : Nat, io_type : {"input", "output"}, cell : Cell, tx : Hash,
          block_number : Nat]
Scan  == [phase : {"paging", "fetching", "done"}, cursor : Nat, entries : Seq(Entry),
          missing : SUBSET Hash, seen : Nat]
Found == [cell : Cell, blockNumber : Nat, isLive : BOOLEAN]

\* The chain as it was when it had n transactions.
Until(n) == SubSeq(chain, 1, n)

CreatedOnce(txs) ==
  \A i, j \in DOMAIN txs : txs[i].creates = txs[j].creates /\ txs[i].creates # None => i = j

ChainInv == chain \in Seq(Tx) /\ CreatedOnce(chain)

\* What a scan of s holds: every entry up to its cursor while it reads pages, and
\* then every entry of the chain as it was.
Sound(sc, s) ==
  /\ IsInjective(sc.entries)
  /\ sc.phase = "paging" =>
       /\ sc.cursor <= 2 * Len(chain) + 1
       /\ ToSet(sc.entries) = {e \in EntriesIn(chain, s) : e.key <= sc.cursor}
  /\ sc.phase # "paging" =>
       /\ sc.seen <= Len(chain)
       /\ ToSet(sc.entries) = EntriesIn(Until(sc.seen), s)

ScanInv ==
  /\ scan \in [Script -> Scan \cup {None}]
  /\ \A s \in Script : scan[s] # None => scan[s] \in Scan /\ Sound(scan[s], s)

Done(s) == scan[s] # None /\ scan[s].phase = "done"

\* What has been made of the complete scans.
ListsInv ==
  /\ DOMAIN votes = Proposal
  /\ Done("proposal") => Newest(proposals, Until(scan["proposal"].seen))
  /\ \A p \in Proposal : Done(p) =>
       IsSnapshot(votes[p], Until(scan[p].seen), {c \in VoteCell : VoteOn[c] = p})

\* The command prints when it has all lists.
PrintsInv ==
  phase \in {"printing", "ended"} =>
    /\ Done("proposal")
    /\ \A k \in DOMAIN proposals : Done(proposals[k].cell)

Good == ChainInv /\ ScanInv /\ ListsInv /\ PrintsInv

Inv ==
  /\ reorgs \in Nat
  /\ reorgs = 0 => Good
-----------------------------------------------------------------------------
(***************************************************************************)
(* InOrder: the elements of a finite set in a strict total order R, when s  *)
(* is a function that has the k-th of them at k.                            *)
(***************************************************************************)
StrictTotal(R, S) ==
  /\ \A x \in S : <<x, x>> \notin R
  /\ \A x, y, z \in S : <<x, y>> \in R /\ <<y, z>> \in R => <<x, z>> \in R
  /\ \A x, y \in S : x = y \/ <<x, y>> \in R \/ <<y, x>> \in R

\* What is before x.
Below(R, S, x) == {y \in S : <<y, x>> \in R}

\* What is before a thing that is before x is less than what is before x.
LEMMA BelowGrows ==
  ASSUME NEW S, IsFiniteSet(S), NEW R, StrictTotal(R, S), NEW x \in S, NEW y \in S,
         <<x, y>> \in R
  PROVE  Cardinality(Below(R, S, x)) < Cardinality(Below(R, S, y))
<1>1. Below(R, S, x) \cup {x} \subseteq Below(R, S, y)
  BY DEF Below, StrictTotal
<1>2. x \notin Below(R, S, x)
  BY DEF Below, StrictTotal
<1>3. Below(R, S, x) \in SUBSET S /\ Below(R, S, y) \in SUBSET S
  BY DEF Below
<1>4. IsFiniteSet(Below(R, S, x)) /\ IsFiniteSet(Below(R, S, y))
  BY <1>3, FS_Subset
<1>5. Cardinality(Below(R, S, x) \cup {x}) = Cardinality(Below(R, S, x)) + 1
  BY <1>2, <1>4, FS_AddElement
<1>6. Cardinality(Below(R, S, x) \cup {x}) <= Cardinality(Below(R, S, y))
  BY <1>1, <1>4, FS_Subset
<1>7. Cardinality(Below(R, S, x)) \in Nat /\ Cardinality(Below(R, S, y)) \in Nat
  BY <1>4, FS_CardinalityType
<1> QED
  BY <1>5, <1>6, <1>7

\* Every number of elements that can be before one is the number for one.
LEMMA EveryRank ==
  ASSUME NEW S, IsFiniteSet(S), NEW R, StrictTotal(R, S)
  PROVE  /\ Cardinality(S) \in Nat
         /\ \A x \in S : Cardinality(Below(R, S, x)) \in 0..(Cardinality(S) - 1)
         /\ \A k \in 1..Cardinality(S) : \E x \in S : Cardinality(Below(R, S, x)) = k - 1
<1> DEFINE n == Cardinality(S)
           place == [x \in S |-> Cardinality(Below(R, S, x)) + 1]
<1>1. n \in Nat
  BY FS_CardinalityType
<1>2. ASSUME NEW x \in S PROVE Cardinality(Below(R, S, x)) \in 0..(n - 1)
  <2>1. Below(R, S, x) \in SUBSET (S \ {x})
    BY DEF Below, StrictTotal
  <2>2. IsFiniteSet(S \ {x}) /\ Cardinality(S \ {x}) = n - 1
    BY FS_RemoveElement
  <2>3. IsFiniteSet(Below(R, S, x)) /\ Cardinality(Below(R, S, x)) <= n - 1
    BY <2>1, <2>2, FS_Subset
  <2>4. Cardinality(Below(R, S, x)) \in Nat
    BY <2>3, FS_CardinalityType
  <2> QED
    BY <1>1, <2>3, <2>4
<1>3. place \in [S -> 1..n]
  BY <1>1, <1>2
<1>4. ASSUME NEW x \in S, NEW y \in S, place[x] = place[y] PROVE x = y
  <2>1. Cardinality(Below(R, S, x)) = Cardinality(Below(R, S, y))
    BY <1>1, <1>2, <1>4
  <2>2. <<x, y>> \notin R /\ <<y, x>> \notin R
    BY <1>1, <1>2, <2>1, BelowGrows
  <2> QED
    BY <2>2 DEF StrictTotal
<1> HIDE DEF n
<1>5. place \in Injection(S, 1..n)
  BY <1>3, <1>4, Fun_IsInj
<1>6. IsFiniteSet(1..n) /\ Cardinality(1..n) = n
  BY <1>1, FS_Interval
<1>7. Cardinality(S) = n
  BY DEF n
<1>8. place \in Surjection(S, 1..n)
  BY <1>5, <1>6, <1>7, FS_Injection
<1>9. \A k \in 1..n : \E x \in S : place[x] = k
  <2> HIDE DEF place
  <2> QED
    BY <1>8, Fun_SurjectionProperties
<1>10. ASSUME NEW k \in 1..n PROVE \E x \in S : Cardinality(Below(R, S, x)) = k - 1
  <2>1. PICK x \in S : place[x] = k
    BY <1>9
  <2>2. Cardinality(Below(R, S, x)) + 1 = k /\ Cardinality(Below(R, S, x)) \in Int
    BY <1>1, <1>2, <2>1
  <2>3. Cardinality(Below(R, S, x)) = k - 1
    BY <1>1, <2>2
  <2> QED
    BY <2>3
<1> QED
  BY <1>1, <1>2, <1>10 DEF n

\* s has all elements of S, in the order R.
Ordered(s, R, S) ==
  /\ s \in [1..Cardinality(S) -> S]
  /\ \A x \in S : \E k \in 1..Cardinality(S) : s[k] = x
  /\ \A i, j \in 1..Cardinality(S) : i < j => <<s[i], s[j]>> \in R

LEMMA InOrderIsOrdered ==
  ASSUME NEW S, IsFiniteSet(S), NEW R, StrictTotal(R, S),
         NEW s, s = [k \in 1..Cardinality(S) |-> s[k]],
         \A k \in 1..Cardinality(S) :
           (\E x \in S : Cardinality(Below(R, S, x)) = k - 1) =>
             s[k] \in S /\ Cardinality(Below(R, S, s[k])) = k - 1
  PROVE  Ordered(s, R, S)
<1> DEFINE n == Cardinality(S)
           rank(x) == Cardinality(Below(R, S, x))
<1>1. /\ n \in Nat
      /\ \A x \in S : rank(x) \in 0..(n - 1)
      /\ \A k \in 1..n : s[k] \in S /\ rank(s[k]) = k - 1
  BY EveryRank
<1>2. \A x, y \in S : <<x, y>> \in R => rank(x) < rank(y)
  BY BelowGrows
<1> HIDE DEF n, rank
<1>3. s \in [1..n -> S]
  <2>1. s = [k \in 1..n |-> s[k]]
    BY DEF n
  <2> QED
    BY <1>1, <2>1
<1>4. ASSUME NEW x \in S PROVE \E k \in 1..n : s[k] = x
  <2>1. PICK k \in 1..n : k = rank(x) + 1
    BY <1>1
  <2>2. s[k] \in S /\ rank(s[k]) = rank(x)
    <3>1. s[k] \in S /\ rank(s[k]) = k - 1
      BY <1>1
    <3>2. rank(x) \in Int
      BY <1>1
    <3> QED
      BY <2>1, <3>1, <3>2
  <2>3. <<x, s[k]>> \notin R /\ <<s[k], x>> \notin R
    BY <1>1, <1>2, <2>2
  <2> QED
    BY <2>2, <2>3 DEF StrictTotal
<1>5. ASSUME NEW i \in 1..n, NEW j \in 1..n, i < j PROVE <<s[i], s[j]>> \in R
  <2>1. s[i] \in S /\ s[j] \in S /\ rank(s[i]) = i - 1 /\ rank(s[j]) = j - 1
    BY <1>1
  <2>2. rank(s[i]) < rank(s[j]) /\ rank(s[i]) \in Int /\ rank(s[j]) \in Int
    BY <1>1, <1>5, <2>1
  <2>3. s[i] # s[j]
    BY <2>2
  <2>4. <<s[j], s[i]>> \notin R
    BY <1>2, <2>1, <2>2
  <2> QED
    BY <2>1, <2>3, <2>4 DEF StrictTotal
<1> QED
  BY <1>3, <1>4, <1>5 DEF Ordered, n
-----------------------------------------------------------------------------
(***************************************************************************)
(* The entries of a list of transactions.                                   *)
(***************************************************************************)
LEMMA ScriptOfCell ==
  ASSUME NEW c \in Cell
  PROVE  /\ ScriptOf(c) \in Script
         /\ ScriptOf(c) = "proposal" <=> c \in Proposal
         /\ \A p \in Proposal : ScriptOf(c) = p <=> c \in VoteCell /\ VoteOn[c] = p
BY QueryAssumption DEF QueryAssumption, Cell, Script, ScriptOf

\* The two entries a transaction can have.
InputEntry(tx, i) ==
  [key |-> 2 * i, io_type |-> "input", cell |-> tx.spends, tx |-> HashOf(tx),
   block_number |-> tx.block]
OutputEntry(tx, i) ==
  [key |-> 2 * i + 1, io_type |-> "output", cell |-> tx.creates, tx |-> HashOf(tx),
   block_number |-> tx.block]

LEMMA EntryOf ==
  ASSUME NEW tx, NEW i, NEW s, NEW e
  PROVE  e \in EntriesOf(tx, i, s) <=>
           /\ e \in {InputEntry(tx, i), OutputEntry(tx, i)}
           /\ e.cell # None /\ ScriptOf(e.cell) = s
BY DEF EntriesOf, InputEntry, OutputEntry

LEMMA EntryIn ==
  ASSUME NEW txs, NEW s, NEW e
  PROVE  e \in EntriesIn(txs, s) <=> \E i \in DOMAIN txs : e \in EntriesOf(txs[i], i, s)
BY DEF EntriesIn

\* What an entry of the i-th transaction is.
LEMMA EntryFields ==
  ASSUME NEW tx \in Tx, NEW i \in Nat, NEW s, NEW e \in EntriesOf(tx, i, s)
  PROVE  /\ e \in Entry
         /\ e.key \in {2 * i, 2 * i + 1}
         /\ e.io_type = "input" <=> e.key = 2 * i
         /\ e.io_type = "input" => e = InputEntry(tx, i) /\ e.cell = tx.spends
         /\ e.io_type = "output" => e = OutputEntry(tx, i) /\ e.cell = tx.creates
         /\ e.block_number = tx.block
         /\ ScriptOf(e.cell) = s
<1>1. e \in {InputEntry(tx, i), OutputEntry(tx, i)} /\ e.cell # None /\ ScriptOf(e.cell) = s
  BY EntryOf
<1>2. /\ tx.spends \in Cell \cup {None} /\ tx.creates \in Cell \cup {None} /\ tx.block \in Nat
      /\ HashOf(tx) \in Hash
  BY DEF Tx, HashOf, Hash
<1>3. CASE e = InputEntry(tx, i)
  <2>1. /\ e.key = 2 * i /\ e.io_type = "input" /\ e.cell = tx.spends
        /\ e.block_number = tx.block
    BY <1>3 DEF InputEntry
  <2>2. e \in Entry
    BY <1>1, <1>2, <1>3, <2>1 DEF InputEntry, Entry
  <2> QED
    BY <1>1, <1>3, <2>1, <2>2
<1>4. CASE e = OutputEntry(tx, i)
  <2>1. /\ e.key = 2 * i + 1 /\ e.io_type = "output" /\ e.cell = tx.creates
        /\ e.block_number = tx.block
    BY <1>4 DEF OutputEntry
  <2>2. e \in Entry
    BY <1>1, <1>2, <1>4, <2>1 DEF OutputEntry, Entry
  <2>3. 2 * i + 1 # 2 * i
    OBVIOUS
  <2> QED
    BY <1>1, <1>4, <2>1, <2>2, <2>3
<1> QED
  BY <1>1, <1>3, <1>4

\* The key tells the entry.
LEMMA KeyTells ==
  ASSUME NEW txs \in Seq(Tx), NEW s, NEW d \in EntriesIn(txs, s), NEW e \in EntriesIn(txs, s),
         d.key = e.key
  PROVE  d = e
<1>1. PICK i \in DOMAIN txs : d \in EntriesOf(txs[i], i, s)
  BY EntryIn
<1>2. PICK j \in DOMAIN txs : e \in EntriesOf(txs[j], j, s)
  BY EntryIn
<1>3. i \in Nat /\ j \in Nat /\ txs[i] \in Tx /\ txs[j] \in Tx
  OBVIOUS
<1>4. /\ d.key \in {2 * i, 2 * i + 1} /\ e.key \in {2 * j, 2 * j + 1}
      /\ d \in {InputEntry(txs[i], i), OutputEntry(txs[i], i)}
      /\ e \in {InputEntry(txs[j], j), OutputEntry(txs[j], j)}
  BY <1>1, <1>2, <1>3, EntryFields, EntryOf
<1>5. i = j
  BY <1>3, <1>4
<1>6. /\ d.io_type = "input" <=> d.key = 2 * i
      /\ e.io_type = "input" <=> e.key = 2 * i
  BY <1>1, <1>2, <1>3, <1>5, EntryFields
<1>7. /\ InputEntry(txs[i], i).io_type = "input"
      /\ OutputEntry(txs[i], i).io_type # "input"
  BY DEF InputEntry, OutputEntry
<1> QED
  BY <1>4, <1>5, <1>6, <1>7

\* The entries are finitely many, and their keys are those of the transactions.
LEMMA EntriesAre ==
  ASSUME NEW txs \in Seq(Tx), NEW s
  PROVE  /\ \A e \in EntriesIn(txs, s) : e \in Entry /\ e.key \in 1..(2 * Len(txs) + 1)
         /\ IsFiniteSet(EntriesIn(txs, s))
<1> DEFINE n == 2 * Len(txs) + 1
           key == [e \in EntriesIn(txs, s) |-> e.key]
<1>1. ASSUME NEW e \in EntriesIn(txs, s) PROVE e \in Entry /\ e.key \in 1..n
  <2>1. PICK i \in DOMAIN txs : e \in EntriesOf(txs[i], i, s)
    BY EntryIn
  <2>2. i \in 1..Len(txs) /\ txs[i] \in Tx
    OBVIOUS
  <2>3. e \in Entry /\ e.key \in {2 * i, 2 * i + 1}
    BY <2>1, <2>2, EntryFields
  <2> QED
    BY <2>2, <2>3
<1>2. n \in Nat
  OBVIOUS
<1> HIDE DEF n
<1>3. key \in [EntriesIn(txs, s) -> 1..n]
  BY <1>1
<1>4. \A d, e \in EntriesIn(txs, s) : key[d] = key[e] => d = e
  BY KeyTells
<1>5. key \in Injection(EntriesIn(txs, s), 1..n)
  BY <1>3, <1>4, Fun_IsInj
<1>6. IsFiniteSet(1..n)
  BY <1>2, FS_Interval
<1>7. IsFiniteSet(EntriesIn(txs, s))
  BY <1>5, <1>6, FS_Injection
<1> QED
  BY <1>1, <1>7 DEF n
-----------------------------------------------------------------------------
(***************************************************************************)
(* Pages.                                                                   *)
(***************************************************************************)
\* s has all entries of S, with ascending keys.
Ascending(s, S) ==
  /\ s \in [1..Cardinality(S) -> S]
  /\ \A x \in S : \E k \in 1..Cardinality(S) : s[k] = x
  /\ \A i, j \in 1..Cardinality(S) : i < j => s[i].key < s[j].key

LEMMA InOrderOfKeys ==
  ASSUME NEW S, IsFiniteSet(S), \A e \in S : e.key \in Nat,
         \A d, e \in S : d.key = e.key => d = e
  PROVE  Ascending(InOrder(S, LAMBDA e, f : e.key < f.key), S)
<1> DEFINE R == {pair \in S \X S : pair[1].key < pair[2].key}
           s == InOrder(S, LAMBDA e, f : e.key < f.key)
<1>1. \A x, y \in S : <<x, y>> \in R <=> x.key < y.key
  OBVIOUS
<1>2. StrictTotal(R, S)
  <2> HIDE DEF R
  <2> QED
    BY <1>1 DEF StrictTotal
<1>3. \A x \in S : Below(R, S, x) = {y \in S : y.key < x.key}
  <2> HIDE DEF R
  <2> QED
    BY <1>1 DEF Below
<1> HIDE DEF R
<1>4. s = [k \in 1..Cardinality(S) |->
             CHOOSE x \in S : Cardinality({y \in S : y.key < x.key}) = k - 1]
  BY DEF InOrder
<1> HIDE DEF s
<1>5. ASSUME NEW k \in 1..Cardinality(S), NEW z \in S, Cardinality(Below(R, S, z)) = k - 1
      PROVE  s[k] \in S /\ Cardinality(Below(R, S, s[k])) = k - 1
  <2>1. s[k] = CHOOSE x \in S : Cardinality({y \in S : y.key < x.key}) = k - 1
    BY <1>4
  <2>2. Cardinality({y \in S : y.key < z.key}) = k - 1
    BY <1>3, <1>5
  <2>3. s[k] \in S /\ Cardinality({y \in S : y.key < s[k].key}) = k - 1
    BY <2>1, <2>2
  <2> QED
    BY <1>3, <2>3
<1>6. s = [k \in 1..Cardinality(S) |-> s[k]]
  <2> DEFINE at(k) == CHOOSE x \in S : Cardinality({y \in S : y.key < x.key}) = k - 1
  <2>1. s = [k \in 1..Cardinality(S) |-> at(k)]
    BY <1>4
  <2> HIDE DEF at
  <2> QED
    BY <2>1
<1>7. Ordered(s, R, S)
  BY <1>2, <1>5, <1>6, InOrderIsOrdered
<1>8. Ascending(s, S)
  BY <1>1, <1>7, EveryRank, <1>2 DEF Ordered, Ascending
<1> QED
  BY <1>8 DEF s

\* The entries behind a cursor, as a page begins.
Behind(txs, s, cursor) == {e \in EntriesIn(txs, s) : e.key > cursor}

\* A page is the first of the entries behind the cursor: all of them, or as many
\* as it can hold.
LEMMA PageIs ==
  ASSUME chain \in Seq(Tx), NEW s \in Script, scan[s].cursor \in Nat
  PROVE  /\ NextPage(s) \in Seq(Entry)
         /\ \A j, k \in 1..Len(NextPage(s)) : j < k => NextPage(s)[j].key < NextPage(s)[k].key
         /\ ToSet(NextPage(s)) \subseteq Behind(chain, s, scan[s].cursor)
         /\ Len(NextPage(s)) < PageSize =>
              ToSet(NextPage(s)) = Behind(chain, s, scan[s].cursor)
         /\ Len(NextPage(s)) >= PageSize =>
              /\ Len(NextPage(s)) = PageSize
              /\ \A e \in Behind(chain, s, scan[s].cursor) :
                   e.key <= NextPage(s)[PageSize].key => e \in ToSet(NextPage(s))
<1> DEFINE S == Behind(chain, s, scan[s].cursor)
           behind == InOrder(S, LAMBDA e, f : e.key < f.key)
           n == Cardinality(S)
           page == IF Len(behind) > PageSize THEN SubSeq(behind, 1, PageSize) ELSE behind
<1>1. S \subseteq EntriesIn(chain, s) /\ \A e \in S : e \in Entry
  BY EntriesAre DEF Behind
<1>2. IsFiniteSet(S)
  BY <1>1, EntriesAre, FS_Subset
<1>3. \A e \in S : e.key \in Nat
  BY <1>1 DEF Entry
<1>4. \A d, e \in S : d.key = e.key => d = e
  BY <1>1, KeyTells
<1>5. NextPage(s) = page
  BY DEF NextPage, Behind
<1> HIDE DEF S
<1>6. Ascending(behind, S)
  BY <1>2, <1>3, <1>4, InOrderOfKeys
<1>7. n \in Nat
  BY <1>2, FS_CardinalityType
<1> HIDE DEF behind
<1>8. /\ behind \in [1..n -> S]
      /\ \A x \in S : \E k \in 1..n : behind[k] = x
      /\ \A i, j \in 1..n : i < j => behind[i].key < behind[j].key
  BY <1>6 DEF Ascending
<1> HIDE DEF n
<1>9. behind \in Seq(Entry) /\ Len(behind) = n
  <2>1. behind \in [1..n -> Entry]
    BY <1>1, <1>8
  <2> QED
    BY <1>7, <2>1
<1>10. PageSize \in Nat \ {0}
  BY QueryAssumption DEF QueryAssumption
<1>11. CASE n > PageSize
  <2>1. page = SubSeq(behind, 1, PageSize)
    BY <1>9, <1>11
  <2>2. /\ page \in Seq(Entry) /\ Len(page) = PageSize
        /\ \A k \in 1..PageSize : page[k] = behind[k]
    <3>1. \A k \in 1..PageSize : behind[k] \in Entry
      BY <1>1, <1>7, <1>8, <1>10, <1>11
    <3> QED
      BY <1>9, <1>10, <1>11, <2>1, <3>1
  <2> HIDE DEF page
  <2>3. ToSet(page) \subseteq S
    <3>1. \A k \in 1..PageSize : k \in 1..n
      BY <1>7, <1>10, <1>11
    <3>2. \A k \in DOMAIN page : page[k] \in S
      BY <1>8, <2>2, <3>1
    <3> QED
      BY <3>2 DEF ToSet
  <2>4. \A j, k \in 1..PageSize : j < k => page[j].key < page[k].key
    BY <1>7, <1>8, <1>10, <1>11, <2>2
  <2>5. ASSUME NEW e \in S, e.key <= page[PageSize].key PROVE e \in ToSet(page)
    <3>1. PICK k \in 1..n : behind[k] = e
      BY <1>8
    <3>2. CASE k <= PageSize
      <4>1. k \in DOMAIN page /\ page[k] = e
        BY <2>2, <3>1, <3>2
      <4> QED
        BY <4>1 DEF ToSet
    <3>3. CASE k > PageSize
      <4>1. PageSize \in 1..n /\ page[PageSize] = behind[PageSize]
        BY <1>7, <1>10, <1>11, <2>2
      <4>2. behind[PageSize].key < e.key
        BY <1>8, <3>1, <3>3, <4>1
      <4>3. e.key \in Nat /\ behind[PageSize].key \in Nat
        BY <1>3, <1>8, <4>1
      <4> QED
        BY <2>5, <4>1, <4>2, <4>3
    <3> QED
      BY <1>10, <3>2, <3>3
  <2> QED
    BY <1>5, <1>10, <2>2, <2>3, <2>4, <2>5 DEF S
<1>12. CASE ~(n > PageSize)
  <2>1. page = behind
    BY <1>9, <1>12
  <2>2. ToSet(behind) = S
    BY <1>8 DEF ToSet
  <2> HIDE DEF page
  <2>3. ToSet(page) = S
    BY <2>1, <2>2
  <2> QED
    BY <1>5, <1>7, <1>8, <1>9, <1>10, <1>12, <2>1, <2>3 DEF S
<1> QED
  BY <1>11, <1>12
-----------------------------------------------------------------------------
(***************************************************************************)
(* What is made of all entries of a script: the list of its cells.          *)
(***************************************************************************)
\* entries has each entry of txs for the script s, once.
Complete(entries, txs, s) ==
  /\ entries \in Seq(Entry) /\ IsInjective(entries)
  /\ ToSet(entries) = EntriesIn(txs, s)

\* The places of the output entries are those of the created cells that can be
\* read.
LEMMA OutputsAre ==
  ASSUME NEW txs \in Seq(Tx), NEW s, NEW entries, Complete(entries, txs, s)
  PROVE  /\ \A k \in Outputs(entries) :
              /\ entries[k] \in Entry /\ entries[k].cell \in Readable
              /\ ScriptOf(entries[k].cell) = s
              /\ \E i \in DOMAIN txs :
                   /\ entries[k] = OutputEntry(txs[i], i)
                   /\ entries[k].cell = txs[i].creates /\ entries[k].block_number = txs[i].block
         /\ \A i \in DOMAIN txs :
              txs[i].creates \in Cell \cap Readable /\ ScriptOf(txs[i].creates) = s =>
                \E k \in Outputs(entries) : entries[k].cell = txs[i].creates
<1>1. \A k \in DOMAIN entries : entries[k] \in EntriesIn(txs, s) /\ entries[k] \in Entry
  BY DEF Complete, ToSet
<1>2. ASSUME NEW k \in Outputs(entries)
      PROVE  /\ entries[k] \in Entry /\ entries[k].cell \in Readable
             /\ ScriptOf(entries[k].cell) = s
             /\ \E i \in DOMAIN txs :
                  /\ entries[k] = OutputEntry(txs[i], i)
                  /\ entries[k].cell = txs[i].creates /\ entries[k].block_number = txs[i].block
  <2>1. k \in DOMAIN entries /\ entries[k].io_type = "output" /\ entries[k].cell \in Readable
    BY DEF Outputs
  <2>2. PICK i \in DOMAIN txs : entries[k] \in EntriesOf(txs[i], i, s)
    BY <1>1, <2>1, EntryIn
  <2>3. i \in Nat /\ txs[i] \in Tx
    OBVIOUS
  <2> QED
    BY <1>1, <2>1, <2>2, <2>3, EntryFields
<1>3. ASSUME NEW i \in DOMAIN txs, txs[i].creates \in Cell \cap Readable,
             ScriptOf(txs[i].creates) = s
      PROVE  \E k \in Outputs(entries) : entries[k].cell = txs[i].creates
  <2> DEFINE e == OutputEntry(txs[i], i)
  <2>1. e.cell = txs[i].creates /\ e.io_type = "output"
    BY DEF OutputEntry
  <2>2. e.cell # None
    BY <1>3, <2>1, QueryAssumption DEF QueryAssumption
  <2>3. e \in EntriesOf(txs[i], i, s)
    BY <1>3, <2>1, <2>2, EntryOf
  <2>4. e \in ToSet(entries)
    BY <2>3, EntryIn DEF Complete
  <2> HIDE DEF e
  <2>5. PICK k \in DOMAIN entries : entries[k] = e
    BY <2>4 DEF ToSet
  <2> QED
    BY <1>3, <2>1, <2>5 DEF Outputs
<1> QED
  BY <1>2, <1>3

\* An input entry tells that the cell is spent.
LEMMA ConsumedIsSpent ==
  ASSUME NEW txs \in Seq(Tx), NEW s, NEW entries, Complete(entries, txs, s),
         NEW c \in Cell, ScriptOf(c) = s
  PROVE  IsConsumed(c, entries) <=> c \in Spent(txs)
<1>1. c # None
  BY QueryAssumption DEF QueryAssumption
<1>2. ASSUME IsConsumed(c, entries) PROVE c \in Spent(txs)
  <2>1. PICK k \in DOMAIN entries : entries[k].io_type = "input" /\ entries[k].cell = c
    BY <1>2 DEF IsConsumed
  <2>2. entries[k] \in EntriesIn(txs, s)
    BY DEF Complete, ToSet
  <2>3. PICK i \in DOMAIN txs : entries[k] \in EntriesOf(txs[i], i, s)
    BY <2>2, EntryIn
  <2>4. i \in Nat /\ txs[i] \in Tx
    OBVIOUS
  <2>5. entries[k].cell = txs[i].spends
    BY <2>1, <2>3, <2>4, EntryFields
  <2> QED
    BY <1>1, <2>1, <2>5 DEF Spent
<1>3. ASSUME c \in Spent(txs) PROVE IsConsumed(c, entries)
  <2>1. PICK i \in DOMAIN txs : txs[i].spends = c
    BY <1>3 DEF Spent
  <2> DEFINE e == InputEntry(txs[i], i)
  <2>2. e.cell = c /\ e.io_type = "input"
    BY <2>1 DEF InputEntry
  <2>3. e \in EntriesOf(txs[i], i, s)
    BY <1>1, <2>2, EntryOf
  <2>4. e \in ToSet(entries)
    BY <2>3, EntryIn DEF Complete
  <2> HIDE DEF e
  <2>5. PICK k \in DOMAIN entries : entries[k] = e
    BY <2>4 DEF ToSet
  <2> QED
    BY <2>2, <2>5 DEF IsConsumed
<1> QED
  BY <1>2, <1>3

\* No cell has two output entries.
LEMMA OneOutput ==
  ASSUME NEW txs \in Seq(Tx), CreatedOnce(txs), NEW s, NEW entries, Complete(entries, txs, s),
         NEW j \in Outputs(entries), NEW k \in Outputs(entries),
         entries[j].cell = entries[k].cell
  PROVE  j = k
<1>1. PICK a \in DOMAIN txs : /\ entries[j] = OutputEntry(txs[a], a)
                              /\ entries[j].cell = txs[a].creates
  BY OutputsAre
<1>2. PICK b \in DOMAIN txs : /\ entries[k] = OutputEntry(txs[b], b)
                              /\ entries[k].cell = txs[b].creates
  BY OutputsAre
<1>3. entries[j].cell # None
  BY OutputsAre, QueryAssumption DEF QueryAssumption, Entry
<1>4. a = b
  BY <1>1, <1>2, <1>3 DEF CreatedOnce
<1>5. entries[j] = entries[k]
  BY <1>1, <1>2, <1>4
<1>6. j \in DOMAIN entries /\ k \in DOMAIN entries
  BY DEF Outputs
<1> QED
  BY <1>5, <1>6 DEF Complete, IsInjective

\* What the command knows of the cell at a place.
FoundAt(entries, k) ==
  [cell |-> entries[k].cell, blockNumber |-> entries[k].block_number,
   isLive |-> ~IsConsumed(entries[k].cell, entries)]

LEMMA FoundFields ==
  ASSUME NEW entries, NEW k
  PROVE  /\ FoundAt(entries, k).cell = entries[k].cell
         /\ FoundAt(entries, k).blockNumber = entries[k].block_number
         /\ FoundAt(entries, k).isLive <=> ~IsConsumed(entries[k].cell, entries)
<1> DEFINE live == ~IsConsumed(entries[k].cell, entries)
<1>1. FoundAt(entries, k) = [cell |-> entries[k].cell, blockNumber |-> entries[k].block_number,
                             isLive |-> live]
  BY DEF FoundAt
<1> HIDE DEF live
<1>2. FoundAt(entries, k).isLive <=> live
  BY <1>1
<1>3. /\ FoundAt(entries, k).cell = entries[k].cell
      /\ FoundAt(entries, k).blockNumber = entries[k].block_number
  BY <1>1
<1> QED
  BY <1>2, <1>3 DEF live

\* A list that shows a cell of each of some places, and no place twice, is a
\* snapshot of the cells at these places.
LEMMA PlacesAreSnapshot ==
  ASSUME NEW txs \in Seq(Tx), CreatedOnce(txs), NEW s, NEW entries, Complete(entries, txs, s),
         NEW K, NEW place \in [K -> Outputs(entries)], IsInjective(place),
         NEW shown, DOMAIN shown = K,
         \A k \in K : shown[k] = FoundAt(entries, place[k]),
         NEW cells, Created(txs) \cap cells \cap Readable = {entries[place[k]].cell : k \in K}
  PROVE  IsSnapshot(shown, txs, cells)
<1>1. \A k \in K : /\ shown[k].cell = entries[place[k]].cell
                   /\ shown[k].blockNumber = entries[place[k]].block_number
                   /\ shown[k].isLive <=> ~IsConsumed(entries[place[k]].cell, entries)
  <2> SUFFICES ASSUME NEW k \in K
               PROVE  /\ shown[k].cell = entries[place[k]].cell
                      /\ shown[k].blockNumber = entries[place[k]].block_number
                      /\ shown[k].isLive <=> ~IsConsumed(entries[place[k]].cell, entries)
    OBVIOUS
  <2>1. shown[k] = FoundAt(entries, place[k])
    OBVIOUS
  <2> QED
    BY <2>1, FoundFields
<1>2. ASSUME NEW j \in K, NEW k \in K, shown[j].cell = shown[k].cell PROVE j = k
  <2>1. place[j] = place[k]
    BY <1>1, <1>2, OneOutput
  <2> QED
    BY <2>1 DEF IsInjective
<1>3. {shown[k].cell : k \in K} = Created(txs) \cap cells \cap Readable
  BY <1>1
<1>4. ASSUME NEW k \in K
      PROVE  /\ shown[k].isLive <=> shown[k].cell \notin Spent(txs)
             /\ \E i \in DOMAIN txs :
                  txs[i].creates = shown[k].cell /\ txs[i].block = shown[k].blockNumber
  <2>1. place[k] \in Outputs(entries)
    OBVIOUS
  <2>2. /\ entries[place[k]].cell \in Cell /\ ScriptOf(entries[place[k]].cell) = s
        /\ \E i \in DOMAIN txs : /\ entries[place[k]].cell = txs[i].creates
                                 /\ entries[place[k]].block_number = txs[i].block
    BY <2>1, OutputsAre DEF Entry
  <2>3. IsConsumed(entries[place[k]].cell, entries) <=> entries[place[k]].cell \in Spent(txs)
    BY <2>2, ConsumedIsSpent
  <2> QED
    BY <1>1, <2>2, <2>3
<1> QED
  BY <1>2, <1>3, <1>4 DEF IsSnapshot

\* The cells of a script that a list of transactions creates and that can be
\* read are those of the output entries.
LEMMA OutputCells ==
  ASSUME NEW txs \in Seq(Tx), NEW s, NEW entries, Complete(entries, txs, s)
  PROVE  Created(txs) \cap {c \in Cell : ScriptOf(c) = s} \cap Readable =
           {entries[k].cell : k \in Outputs(entries)}
<1>1. ASSUME NEW k \in Outputs(entries)
      PROVE  entries[k].cell \in Created(txs) \cap {c \in Cell : ScriptOf(c) = s} \cap Readable
  <2>1. /\ entries[k].cell \in Cell /\ entries[k].cell \in Readable
        /\ ScriptOf(entries[k].cell) = s
        /\ \E i \in DOMAIN txs : entries[k].cell = txs[i].creates
    BY OutputsAre DEF Entry
  <2>2. entries[k].cell # None
    BY <2>1, QueryAssumption DEF QueryAssumption
  <2> QED
    BY <2>1, <2>2 DEF Created
<1>2. ASSUME NEW c \in Created(txs) \cap {d \in Cell : ScriptOf(d) = s} \cap Readable
      PROVE  \E k \in Outputs(entries) : entries[k].cell = c
  <2>1. PICK i \in DOMAIN txs : txs[i].creates = c
    BY DEF Created
  <2> QED
    BY <2>1, OutputsAre
<1> QED
  BY <1>1, <1>2

\* collectProposals and collectVotesForProposal: the list made of all entries of
\* a script is a snapshot of its cells.
LEMMA CollectedIsSnapshot ==
  ASSUME NEW txs \in Seq(Tx), CreatedOnce(txs), NEW s, Complete(scan[s].entries, txs, s)
  PROVE  IsSnapshot(Collected(s), txs, {c \in Cell : ScriptOf(c) = s})
<1> DEFINE entries == scan[s].entries
           K == Outputs(entries)
           place == [k \in K |-> k]
           shown == Collected(s)
<1>1. shown = [k \in K |-> FoundAt(entries, k)]
  BY DEF Collected, FoundAt
<1>2. Complete(entries, txs, s)
  OBVIOUS
<1> HIDE DEF entries, shown
<1>3. DOMAIN shown = K /\ \A k \in K : shown[k] = FoundAt(entries, k)
  <2> DEFINE at(k) == FoundAt(entries, k)
  <2>1. shown = [k \in K |-> at(k)]
    BY <1>1
  <2> HIDE DEF at
  <2>2. DOMAIN shown = K /\ \A k \in K : shown[k] = at(k)
    BY <2>1
  <2> QED
    BY <2>2 DEF at
<1>4. Created(txs) \cap {c \in Cell : ScriptOf(c) = s} \cap Readable =
        {entries[k].cell : k \in K}
  BY <1>2, OutputCells
<1> HIDE DEF K
<1>5. place \in [K -> K] /\ IsInjective(place) /\ \A k \in K : place[k] = k
  BY DEF IsInjective
<1> HIDE DEF place
<1>6. /\ \A k \in K : shown[k] = FoundAt(entries, place[k])
      /\ {entries[k].cell : k \in K} = {entries[place[k]].cell : k \in K}
  BY <1>3, <1>5
<1>7. IsSnapshot(shown, txs, {c \in Cell : ScriptOf(c) = s})
  BY <1>2, <1>3, <1>4, <1>5, <1>6, PlacesAreSnapshot DEF K
<1> QED
  BY <1>7 DEF shown

\* allProposals.sort: the places of the outputs, those in newer blocks first.
Sorted(order, entries, n) ==
  /\ order \in [1..n -> Outputs(entries)] /\ IsInjective(order)
  /\ \A k \in Outputs(entries) : \E i \in 1..n : order[i] = k
  /\ \A i, j \in 1..n : i < j =>
       entries[order[i]].block_number >= entries[order[j]].block_number

LEMMA NewestFirstIs ==
  ASSUME NEW entries \in Seq(Entry)
  PROVE  /\ IsFiniteSet(Outputs(entries)) /\ Cardinality(Outputs(entries)) \in Nat
         /\ Sorted(NewestFirst(entries), entries, Cardinality(Outputs(entries)))
<1> DEFINE S == Outputs(entries)
           newer(i, j) == \/ entries[i].block_number > entries[j].block_number
                          \/ entries[i].block_number = entries[j].block_number /\ i < j
           R == {pair \in S \X S : newer(pair[1], pair[2])}
           s == NewestFirst(entries)
<1>1. S \subseteq 1..Len(entries) /\ \A k \in S : k \in Nat /\ entries[k].block_number \in Nat
  <2> SUFFICES ASSUME NEW k \in S
               PROVE  k \in 1..Len(entries) /\ entries[k].block_number \in Nat
    OBVIOUS
  <2>1. k \in 1..Len(entries)
    BY DEF Outputs
  <2>2. entries[k] \in Entry
    BY <2>1
  <2> QED
    BY <2>1, <2>2 DEF Entry
<1>2. IsFiniteSet(S)
  BY <1>1, FS_Interval, FS_Subset
<1>3. s = [k \in 1..Cardinality(S) |->
             CHOOSE x \in S : Cardinality({y \in S : newer(y, x)}) = k - 1]
  BY DEF NewestFirst, InOrder
<1> HIDE DEF S, s
<1>4. \A x, y \in S : <<x, y>> \in R <=> newer(x, y)
  OBVIOUS
<1> HIDE DEF R
<1>5. StrictTotal(R, S)
  <2>1. \A x \in S : ~newer(x, x)
    BY <1>1
  <2>2. \A x, y, z \in S : newer(x, y) /\ newer(y, z) => newer(x, z)
    BY <1>1
  <2>3. \A x, y \in S : x = y \/ newer(x, y) \/ newer(y, x)
    BY <1>1
  <2> HIDE DEF newer
  <2> QED
    BY <1>4, <2>1, <2>2, <2>3 DEF StrictTotal
<1>6. \A x \in S : Below(R, S, x) = {y \in S : newer(y, x)}
  <2> HIDE DEF newer
  <2> QED
    BY <1>4 DEF Below
<1> HIDE DEF newer
<1>7. ASSUME NEW k \in 1..Cardinality(S), NEW z \in S, Cardinality(Below(R, S, z)) = k - 1
      PROVE  s[k] \in S /\ Cardinality(Below(R, S, s[k])) = k - 1
  <2>1. s[k] = CHOOSE x \in S : Cardinality({y \in S : newer(y, x)}) = k - 1
    BY <1>3
  <2>2. Cardinality({y \in S : newer(y, z)}) = k - 1
    BY <1>6, <1>7
  <2>3. s[k] \in S /\ Cardinality({y \in S : newer(y, s[k])}) = k - 1
    BY <2>1, <2>2
  <2> QED
    BY <1>6, <2>3
<1>8. s = [k \in 1..Cardinality(S) |-> s[k]]
  <2> DEFINE at(k) == CHOOSE x \in S : Cardinality({y \in S : newer(y, x)}) = k - 1
  <2>1. s = [k \in 1..Cardinality(S) |-> at(k)]
    BY <1>3
  <2> HIDE DEF at
  <2> QED
    BY <2>1
<1>9. Ordered(s, R, S)
  BY <1>2, <1>5, <1>7, <1>8, InOrderIsOrdered
<1> DEFINE n == Cardinality(S)
<1>10. n \in Nat
  BY <1>2, FS_CardinalityType
<1> HIDE DEF n
<1>11. /\ s \in [1..n -> S] /\ \A x \in S : \E k \in 1..n : s[k] = x
       /\ \A i, j \in 1..n : i < j => <<s[i], s[j]>> \in R
  BY <1>9 DEF Ordered, n
<1>12. \A i, j \in 1..n : i < j => s[i] # s[j]
  BY <1>5, <1>11 DEF StrictTotal
<1>13. IsInjective(s)
  BY <1>10, <1>11, <1>12 DEF IsInjective
<1>14. ASSUME NEW i \in 1..n, NEW j \in 1..n, i < j
       PROVE  entries[s[i]].block_number >= entries[s[j]].block_number
  <2>1. s[i] \in S /\ s[j] \in S
    BY <1>11
  <2>2. newer(s[i], s[j])
    BY <1>4, <1>11, <1>14, <2>1
  <2>3. entries[s[i]].block_number \in Nat /\ entries[s[j]].block_number \in Nat
    BY <1>1, <2>1
  <2> QED
    BY <2>2, <2>3 DEF newer
<1>15. Sorted(s, entries, n)
  BY <1>11, <1>13, <1>14 DEF Sorted, S
<1> QED
  BY <1>2, <1>10, <1>15 DEF s, S, n

\* The readable proposals that are created are as many as the outputs.
LEMMA OutputsCounted ==
  ASSUME NEW txs \in Seq(Tx), CreatedOnce(txs), NEW entries,
         Complete(entries, txs, "proposal")
  PROVE  /\ Created(txs) \cap Proposal \cap Readable = {entries[k].cell : k \in Outputs(entries)}
         /\ Cardinality(Created(txs) \cap Proposal \cap Readable) = Cardinality(Outputs(entries))
<1> DEFINE there == Created(txs) \cap Proposal \cap Readable
           cell == [k \in Outputs(entries) |-> entries[k].cell]
<1>1. Proposal = {c \in Cell : ScriptOf(c) = "proposal"}
  BY ScriptOfCell DEF Cell
<1>2. there = {entries[k].cell : k \in Outputs(entries)}
  BY <1>1, OutputCells
<1> HIDE DEF there
<1>3. cell \in [Outputs(entries) -> there]
  BY <1>2
<1>4. \A j, k \in Outputs(entries) : cell[j] = cell[k] => j = k
  BY OneOutput
<1>5. \A c \in there : \E k \in Outputs(entries) : cell[k] = c
  BY <1>2
<1>6. cell \in Bijection(Outputs(entries), there)
  <2> HIDE DEF cell
  <2>1. cell \in Injection(Outputs(entries), there)
    BY <1>3, <1>4, Fun_IsInj
  <2>2. cell \in Surjection(Outputs(entries), there)
    BY <1>3, <1>5, Fun_IsSurj
  <2> QED
    BY <2>1, <2>2 DEF Bijection
<1>7. ExistsBijection(Outputs(entries), there)
  BY <1>6 DEF ExistsBijection
<1>8. IsFiniteSet(Outputs(entries))
  BY NewestFirstIs DEF Complete
<1>9. Cardinality(there) = Cardinality(Outputs(entries))
  BY <1>7, <1>8, FS_Bijection
<1> QED
  BY <1>2, <1>9 DEF there

\* The first Count proposals in that order are the newest ones.
LEMMA SelectedIsNewest ==
  ASSUME NEW txs \in Seq(Tx), CreatedOnce(txs), NEW entries,
         Complete(entries, txs, "proposal"), NEW n \in Nat, n = Cardinality(Outputs(entries)),
         NEW order, Sorted(order, entries, n),
         NEW m \in Nat, m = IF n < Count THEN n ELSE Count,
         NEW shown, shown \in [1..m -> Found],
         \A k \in 1..m : shown[k] = FoundAt(entries, order[k])
  PROVE  Newest(shown, txs)
<1> DEFINE there == Created(txs) \cap Proposal \cap Readable
           cells == {shown[k].cell : k \in DOMAIN shown} \cap Proposal
           block(cell) == CHOOSE b \in {txs[i].block : i \in DOMAIN txs} :
                            \E i \in DOMAIN txs : txs[i].creates = cell /\ txs[i].block = b
           K == 1..m
           place == [k \in K |-> order[k]]
<1>1. /\ order \in [1..n -> Outputs(entries)] /\ IsInjective(order)
      /\ \A k \in Outputs(entries) : \E i \in 1..n : order[i] = k
      /\ \A i, j \in 1..n : i < j =>
           entries[order[i]].block_number >= entries[order[j]].block_number
  BY DEF Sorted
<1>2. Count \in Nat /\ m <= n /\ K \subseteq 1..n
  BY QueryAssumption DEF QueryAssumption
<1>3. \A k \in K : /\ order[k] \in Outputs(entries)
                   /\ shown[k].cell = entries[order[k]].cell
                   /\ shown[k].blockNumber = entries[order[k]].block_number
  <2> SUFFICES ASSUME NEW k \in K
               PROVE  /\ order[k] \in Outputs(entries)
                      /\ shown[k].cell = entries[order[k]].cell
                      /\ shown[k].blockNumber = entries[order[k]].block_number
    OBVIOUS
  <2>1. order[k] \in Outputs(entries)
    BY <1>1, <1>2
  <2>2. shown[k] = FoundAt(entries, order[k])
    OBVIOUS
  <2> QED
    BY <2>1, <2>2, FoundFields
<1>4. DOMAIN shown = K /\ Len(shown) = m
  OBVIOUS
<1>5. there = {entries[k].cell : k \in Outputs(entries)} /\ Cardinality(there) = n
  BY OutputsCounted
<1> HIDE DEF there
<1>6. cells = {entries[order[k]].cell : k \in K} /\ cells \subseteq there
  <2>1. \A k \in K : shown[k].cell \in there
    BY <1>3, <1>5
  <2>2. there \subseteq Proposal
    BY DEF there
  <2>3. cells = {shown[k].cell : k \in K}
    BY <1>4, <2>1, <2>2
  <2> QED
    BY <1>3, <2>1, <2>3
<1> HIDE DEF cells
<1>7. \A j, k \in DOMAIN shown : j < k => shown[j].blockNumber >= shown[k].blockNumber
  BY <1>1, <1>2, <1>3, <1>4
<1>8. IsSnapshot(shown, txs, cells)
  <2>1. place \in [K -> Outputs(entries)]
    BY <1>3
  <2>2. IsInjective(place)
    BY <1>1, <1>2 DEF IsInjective
  <2>3. \A k \in K : place[k] = order[k]
    OBVIOUS
  <2>4. Created(txs) \cap cells \cap Readable = cells
    BY <1>6 DEF there
  <2> HIDE DEF place, K
  <2>5. /\ Created(txs) \cap cells \cap Readable = {entries[place[k]].cell : k \in K}
        /\ \A k \in K : shown[k] = FoundAt(entries, place[k])
    BY <1>6, <2>3, <2>4 DEF K
  <2> QED
    BY <1>4, <2>1, <2>2, <2>5, PlacesAreSnapshot, SMTT(30)
<1>9. ASSUME NEW k \in Outputs(entries)
      PROVE  block(entries[k].cell) = entries[k].block_number
  <2>1. PICK i \in DOMAIN txs : /\ entries[k].cell = txs[i].creates
                                /\ entries[k].block_number = txs[i].block
    BY OutputsAre
  <2>2. entries[k].cell # None
    BY OutputsAre, QueryAssumption DEF QueryAssumption, Entry
  <2>3. \A j \in DOMAIN txs : txs[j].creates = entries[k].cell => j = i
    BY <2>1, <2>2 DEF CreatedOnce
  <2>4. /\ block(entries[k].cell) \in {txs[j].block : j \in DOMAIN txs}
        /\ \E j \in DOMAIN txs : /\ txs[j].creates = entries[k].cell
                                 /\ txs[j].block = block(entries[k].cell)
    BY <2>1
  <2> HIDE DEF block
  <2> QED
    BY <2>1, <2>3, <2>4
<1>10. ASSUME NEW c \in there \ cells, NEW d \in cells PROVE block(c) <= block(d)
  <2>1. PICK k \in Outputs(entries) : entries[k].cell = c
    BY <1>5
  <2>2. PICK i \in 1..n : order[i] = k
    BY <1>1
  <2>3. PICK j \in K : entries[order[j]].cell = d
    BY <1>6
  <2>4. i > m
    BY <1>6, <2>1, <2>2
  <2>5. j \in 1..n /\ j < i
    BY <1>2, <2>4
  <2>6. entries[order[j]].block_number >= entries[order[i]].block_number
    BY <1>1, <2>5
  <2> HIDE DEF block
  <2>7. block(d) = entries[order[j]].block_number /\ block(c) = entries[order[i]].block_number
    BY <1>1, <1>9, <2>1, <2>2, <2>3, <2>5
  <2>8. \A k2 \in Outputs(entries) : entries[k2].block_number \in Nat
    BY OutputsAre DEF Entry
  <2> QED
    BY <1>1, <2>5, <2>6, <2>7, <2>8
<1>11. Len(shown) = IF Cardinality(there) < Count THEN Cardinality(there) ELSE Count
  BY <1>4, <1>5
<1> QED
  BY <1>7, <1>8, <1>10, <1>11 DEF Newest, there, cells
-----------------------------------------------------------------------------
(***************************************************************************)
(* The invariant.                                                           *)
(***************************************************************************)
LEMMA UntilIs ==
  ASSUME chain \in Seq(Tx), NEW n \in Nat, n <= Len(chain)
  PROVE  /\ Until(n) \in Seq(Tx) /\ Len(Until(n)) = n
         /\ \A i \in 1..n : Until(n)[i] = chain[i]
         /\ CreatedOnce(chain) => CreatedOnce(Until(n))
<1>1. \A i \in 1..n : chain[i] \in Tx
  OBVIOUS
<1>2. /\ Until(n) \in Seq(Tx) /\ Len(Until(n)) = n
      /\ \A i \in 1..n : Until(n)[i] = chain[i]
  BY <1>1, SubSeqProperties DEF Until
<1>3. ASSUME CreatedOnce(chain) PROVE CreatedOnce(Until(n))
  <2>1. DOMAIN Until(n) = 1..n /\ 1..n \subseteq DOMAIN chain
    BY <1>2
  <2> QED
    BY <1>2, <1>3, <2>1 DEF CreatedOnce
<1> QED
  BY <1>2, <1>3

\* A complete scan holds each entry of its moment once.
LEMMA SoundIsComplete ==
  ASSUME chain \in Seq(Tx), NEW s \in Script, NEW sc \in Scan, Sound(sc, s),
         sc.phase # "paging"
  PROVE  /\ sc.seen \in Nat /\ sc.seen <= Len(chain)
         /\ Complete(sc.entries, Until(sc.seen), s)
BY DEF Sound, Complete, Scan

\* What the chain was stays what it was.
LEMMA AppendKeepsUntil ==
  ASSUME chain \in Seq(Tx), NEW tx \in Tx, chain' = Append(chain, tx),
         NEW m \in Nat, m <= Len(chain)
  PROVE  SubSeq(chain', 1, m) = SubSeq(chain, 1, m)
<1>1. /\ SubSeq(chain, 1, m) \in Seq(Tx) /\ SubSeq(chain', 1, m) \in Seq(Tx)
      /\ Len(SubSeq(chain, 1, m)) = m /\ Len(SubSeq(chain', 1, m)) = m
      /\ \A i \in 1..m : /\ SubSeq(chain, 1, m)[i] = chain[i]
                         /\ SubSeq(chain', 1, m)[i] = chain'[i]
  OBVIOUS
<1>2. \A i \in 1..m : chain'[i] = chain[i]
  OBVIOUS
<1>3. \A i \in 1..m : SubSeq(chain, 1, m)[i] = SubSeq(chain', 1, m)[i]
  BY <1>1, <1>2
<1> QED
  BY <1>1, <1>3, SeqEqual

\* A transaction comes behind all cursors and all moments.
LEMMA AppendKeepsSound ==
  ASSUME chain \in Seq(Tx), NEW tx \in Tx, chain' = Append(chain, tx),
         NEW s \in Script, NEW sc \in Scan, Sound(sc, s)
  PROVE  Sound(sc, s)'
<1> DEFINE n == Len(chain)
<1>1. /\ n \in Nat /\ chain' \in Seq(Tx) /\ Len(chain') = n + 1
      /\ DOMAIN chain = 1..n /\ DOMAIN chain' = 1..(n + 1)
      /\ \A i \in 1..n : chain'[i] = chain[i]
      /\ chain'[n + 1] = tx
  OBVIOUS
<1> HIDE DEF n
<1>2. CASE sc.phase = "paging"
  <2>1. sc.cursor \in Nat /\ sc.cursor <= 2 * n + 1
    BY <1>2 DEF Scan, Sound, n
  <2>2. ASSUME NEW e \in EntriesIn(chain', s), e.key <= sc.cursor PROVE e \in EntriesIn(chain, s)
    <3>1. PICK i \in 1..(n + 1) : e \in EntriesOf(chain'[i], i, s)
      BY <1>1, EntryIn
    <3>2. i \in Nat /\ chain'[i] \in Tx
      BY <1>1
    <3>3. e.key \in {2 * i, 2 * i + 1}
      BY <3>1, <3>2, EntryFields
    <3>4. i \in 1..n
      BY <1>1, <2>1, <2>2, <3>2, <3>3
    <3> QED
      BY <1>1, <3>1, <3>4, EntryIn
  <2>3. EntriesIn(chain, s) \subseteq EntriesIn(chain', s)
    BY <1>1 DEF EntriesIn
  <2>4. {e \in EntriesIn(chain', s) : e.key <= sc.cursor} =
          {e \in EntriesIn(chain, s) : e.key <= sc.cursor}
    BY <2>2, <2>3
  <2>5. ToSet(sc.entries) = {e \in EntriesIn(chain, s) : e.key <= sc.cursor}
    BY <1>2 DEF Sound
  <2>6. sc.cursor <= 2 * (n + 1) + 1
    BY <1>1, <2>1
  <2> QED
    BY <1>1, <1>2, <2>4, <2>5, <2>6 DEF Sound
<1>3. CASE sc.phase # "paging"
  <2>1. sc.seen \in Nat /\ sc.seen <= n
    BY <1>3 DEF Sound, Scan, n
  <2>2. SubSeq(chain', 1, sc.seen) = SubSeq(chain, 1, sc.seen)
    BY <2>1, AppendKeepsUntil DEF n
  <2>3. sc.seen <= n + 1
    BY <1>1, <2>1
  <2> QED
    BY <1>1, <1>3, <2>2, <2>3 DEF Sound, Until
<1> QED
  BY <1>2, <1>3

LEMMA SameListsKept ==
  ASSUME Good, UNCHANGED <<node, proposals, votes>>, phase' \notin {"printing", "ended"},
         scan' \in [Script -> Scan \cup {None}],
         \A s \in Script : scan'[s] # None => scan'[s] \in Scan /\ Sound(scan'[s], s),
         \A s \in Script : Done(s)' => scan'[s] = scan[s]
  PROVE  Good'
<1>1. chain' = chain /\ proposals' = proposals /\ votes' = votes
  BY DEF node
<1>2. ChainInv'
  BY <1>1 DEF Good, ChainInv, CreatedOnce
<1>3. ScanInv'
  BY <1>1 DEF ScanInv, Sound, Until
<1>4. ListsInv'
  <2>1. "proposal" \in Script /\ Proposal \subseteq Script
    BY DEF Script
  <2>2. DOMAIN votes' = Proposal
    BY <1>1 DEF Good, ListsInv
  <2>3. \A s \in Script : Done(s)' => Done(s) /\ scan'[s] = scan[s]
    BY DEF Done
  <2>4. ASSUME Done("proposal")' PROVE Newest(proposals, Until(scan["proposal"].seen))'
    <3>1. Newest(proposals, SubSeq(chain, 1, scan["proposal"].seen))
      BY <2>1, <2>3, <2>4 DEF Good, ListsInv, Until
    <3>2. scan'["proposal"] = scan["proposal"]
      BY <2>1, <2>3, <2>4
    <3> QED
      BY <1>1, <3>1, <3>2 DEF Until
  <2>5. ASSUME NEW p \in Proposal, Done(p)'
        PROVE  IsSnapshot(votes[p], Until(scan[p].seen), {c \in VoteCell : VoteOn[c] = p})'
    <3>1. IsSnapshot(votes[p], SubSeq(chain, 1, scan[p].seen), {c \in VoteCell : VoteOn[c] = p})
      BY <2>1, <2>3, <2>5 DEF Good, ListsInv, Until
    <3>2. scan'[p] = scan[p]
      BY <2>1, <2>3, <2>5
    <3> QED
      BY <1>1, <3>1, <3>2 DEF Until
  <2> QED
    BY <2>2, <2>4, <2>5 DEF ListsInv
<1>5. PrintsInv'
  BY DEF PrintsInv
<1> QED
  BY <1>2, <1>3, <1>4, <1>5 DEF Good

\* One scan goes on.
LEMMA ScanGoesOn ==
  ASSUME Good, UNCHANGED <<node, phase, proposals, votes>>, phase = "reading",
         NEW s \in Script, NEW sc \in Scan, scan' = [scan EXCEPT ![s] = sc],
         Sound(sc, s), sc.phase # "done"
  PROVE  Good'
<1>1. /\ scan \in [Script -> Scan \cup {None}]
      /\ \A t \in Script : scan[t] # None => scan[t] \in Scan /\ Sound(scan[t], t)
  BY DEF Good, ScanInv
<1>2. /\ scan' \in [Script -> Scan \cup {None}] /\ scan'[s] = sc
      /\ \A t \in Script \ {s} : scan'[t] = scan[t]
  BY <1>1
<1>3. \A t \in Script : scan'[t] # None => scan'[t] \in Scan /\ Sound(scan'[t], t)
  BY <1>1, <1>2
<1>4. \A t \in Script : Done(t)' => scan'[t] = scan[t]
  BY <1>2 DEF Done
<1>5. phase' \notin {"printing", "ended"}
  OBVIOUS
<1> QED
  BY <1>2, <1>3, <1>4, <1>5, SameListsKept

LEMMA DieKeeps ==
  ASSUME Good, Die
  PROVE  Good'
<1>1. \A s \in Script : scan'[s] = None
  BY DEF Die, Forget, NoScans
<1>2. scan' = [s \in Script |-> None] /\ phase' = "dead" /\ votes' = NoVotes
  BY DEF Die, Forget, NoScans
<1>3. ChainInv'
  BY DEF Good, ChainInv, Die, node, CreatedOnce
<1>4. ScanInv'
  BY <1>1, <1>2 DEF ScanInv
<1>5. ListsInv'
  <2>1. "proposal" \in Script /\ Proposal \subseteq Script
    BY DEF Script
  <2> QED
    BY <1>1, <1>2, <2>1 DEF ListsInv, Done, NoVotes
<1>6. PrintsInv'
  BY <1>2 DEF PrintsInv
<1> QED
  BY <1>3, <1>4, <1>5, <1>6 DEF Good

\* What a guard In says.
LEMMA InIs ==
  ASSUME Good, NEW s \in Script, NEW at, In(s, at)
  PROVE  /\ phase = "reading" /\ chain \in Seq(Tx) /\ CreatedOnce(chain)
         /\ scan \in [Script -> Scan \cup {None}]
         /\ scan[s] \in Scan /\ Sound(scan[s], s) /\ scan[s].phase = at
BY DEF Good, ChainInv, ScanInv, In

LEMMA GetPageKeeps ==
  ASSUME Good, NEW s \in Script, GetPage(s)
  PROVE  Good'
<1> DEFINE sc == scan[s]
           page == NextPage(s)
           all == sc.entries \o page
           last == [sc EXCEPT !.phase = "fetching", !.entries = all, !.seen = Len(chain),
                              !.missing = {e.tx : e \in ToSet(all)}]
           more == [sc EXCEPT !.entries = all, !.cursor = Last(page).key]
<1>1. /\ phase = "reading" /\ chain \in Seq(Tx) /\ sc \in Scan /\ Sound(sc, s)
      /\ sc.phase = "paging"
  BY InIs DEF GetPage
<1>2. UNCHANGED <<node, phase, proposals, votes>>
  BY DEF GetPage
<1>3. scan' = [scan EXCEPT ![s] = IF Len(page) < PageSize THEN last ELSE more]
  BY DEF GetPage
<1>4. /\ sc.entries \in Seq(Entry) /\ sc.cursor \in Nat /\ IsInjective(sc.entries)
      /\ sc.cursor <= 2 * Len(chain) + 1
      /\ ToSet(sc.entries) = {e \in EntriesIn(chain, s) : e.key <= sc.cursor}
  BY <1>1 DEF Scan, Sound
<1>5. PageSize \in Nat \ {0}
  BY QueryAssumption DEF QueryAssumption
<1>6. /\ page \in Seq(Entry)
      /\ \A j, k \in 1..Len(page) : j < k => page[j].key < page[k].key
      /\ ToSet(page) \subseteq Behind(chain, s, sc.cursor)
      /\ Len(page) < PageSize => ToSet(page) = Behind(chain, s, sc.cursor)
      /\ Len(page) >= PageSize =>
           /\ Len(page) = PageSize
           /\ \A e \in Behind(chain, s, sc.cursor) :
                e.key <= page[PageSize].key => e \in ToSet(page)
  BY <1>1, <1>4, PageIs
<1>7. \A e \in EntriesIn(chain, s) : e.key \in 1..(2 * Len(chain) + 1)
  BY <1>1, EntriesAre
<1> HIDE DEF page
<1>8. all \in Seq(Entry) /\ ToSet(all) = ToSet(sc.entries) \cup ToSet(page) /\ IsInjective(all)
  <2> DEFINE old == sc.entries
             m == Len(old)
             n == Len(page)
  <2>1. /\ m \in Nat /\ n \in Nat /\ DOMAIN old = 1..m /\ DOMAIN page = 1..n
        /\ all \in Seq(Entry) /\ DOMAIN all = 1..(m + n)
        /\ \A k \in 1..(m + n) : all[k] = IF k <= m THEN old[k] ELSE page[k - m]
    BY <1>4, <1>6
  <2>2. \A k \in 1..m : old[k] \in EntriesIn(chain, s) /\ old[k].key <= sc.cursor
    BY <1>4, <2>1 DEF ToSet
  <2>3. \A k \in 1..n : page[k] \in EntriesIn(chain, s) /\ page[k].key > sc.cursor
    BY <1>6, <2>1 DEF ToSet, Behind
  <2>4. \A j, k \in 1..m : old[j] = old[k] => j = k
    BY <1>4, <2>1 DEF IsInjective
  <2>5. ASSUME NEW j \in 1..n, NEW k \in 1..n, page[j] = page[k] PROVE j = k
    <3>1. page[j].key \in Int /\ page[k].key \in Int
      BY <1>7, <2>3
    <3> QED
      BY <1>6, <2>1, <2>5, <3>1
  <2> HIDE DEF m, n, old, all
  <2>6. ASSUME NEW j \in 1..(m + n), NEW k \in 1..(m + n), all[j] = all[k] PROVE j = k
    <3>1. CASE j <= m /\ k <= m
      BY <2>1, <2>4, <2>6, <3>1
    <3>2. CASE j > m /\ k > m
      <4>1. j - m \in 1..n /\ k - m \in 1..n /\ all[j] = page[j - m] /\ all[k] = page[k - m]
        BY <2>1, <3>2
      <4>2. j - m = k - m
        BY <2>5, <2>6, <4>1
      <4> QED
        BY <2>1, <4>2
    <3>3. ASSUME NEW a \in 1..m, NEW b \in 1..n, old[a] = page[b] PROVE FALSE
      BY <1>4, <1>7, <2>2, <2>3, <3>3
    <3>4. \A i \in 1..(m + n) : /\ i <= m => i \in 1..m /\ all[i] = old[i]
                                /\ i > m => i - m \in 1..n /\ all[i] = page[i - m]
      BY <2>1
    <3> QED
      BY <2>1, <2>6, <3>1, <3>2, <3>3, <3>4
  <2>7. ToSet(all) = ToSet(old) \cup ToSet(page)
    <3>1. ASSUME NEW i \in 1..(m + n) PROVE all[i] \in ToSet(old) \cup ToSet(page)
      <4>1. CASE i <= m
        <5>1. i \in 1..m /\ all[i] = old[i]
          BY <2>1, <4>1
        <5> QED
          BY <2>1, <5>1 DEF ToSet
      <4>2. CASE i > m
        <5>1. i - m \in 1..n /\ all[i] = page[i - m]
          BY <2>1, <4>2
        <5> QED
          BY <2>1, <5>1 DEF ToSet
      <4> QED
        BY <2>1, <4>1, <4>2
    <3>2. ASSUME NEW i \in 1..m PROVE old[i] \in ToSet(all)
      <4>1. i \in 1..(m + n) /\ all[i] = old[i]
        BY <2>1
      <4> QED
        BY <2>1, <4>1 DEF ToSet
    <3>3. ASSUME NEW i \in 1..n PROVE page[i] \in ToSet(all)
      <4>1. i + m \in 1..(m + n) /\ all[i + m] = page[(i + m) - m] /\ (i + m) - m = i
        BY <2>1
      <4> QED
        BY <2>1, <4>1 DEF ToSet
    <3> QED
      BY <2>1, <3>1, <3>2, <3>3 DEF ToSet
  <2>8. IsInjective(all)
    BY <2>1, <2>6 DEF IsInjective
  <2> QED
    BY <2>1, <2>7, <2>8 DEF old
<1> HIDE DEF all
<1>9. CASE Len(page) < PageSize
  <2>1. ToSet(all) = EntriesIn(chain, s)
    <3>1. ToSet(page) = Behind(chain, s, sc.cursor)
      BY <1>6, <1>9
    <3>2. \A e \in EntriesIn(chain, s) : e.key <= sc.cursor \/ e.key > sc.cursor
      BY <1>4, <1>7
    <3> QED
      BY <1>4, <1>8, <3>1, <3>2 DEF Behind
  <2>2. last \in Scan /\ last.phase = "fetching" /\ last.entries = all /\ last.seen = Len(chain)
    <3>1. {e.tx : e \in ToSet(all)} \in SUBSET Hash
      <4>1. \A e \in ToSet(all) : e \in Entry
        BY <1>8 DEF ToSet
      <4>2. \A e \in ToSet(all) : e.tx \in Hash
        BY <4>1 DEF Entry
      <4> QED
        BY <4>2
    <3>2. Len(chain) \in Nat
      BY <1>1
    <3> QED
      BY <1>1, <1>8, <3>1, <3>2 DEF Scan
  <2>3. Until(Len(chain)) = chain
    BY <1>1, SubSeqFull DEF Until
  <2> HIDE DEF last, sc
  <2>4. Sound(last, s)
    BY <1>1, <1>8, <2>1, <2>2, <2>3 DEF Sound
  <2>5. scan' = [scan EXCEPT ![s] = last]
    BY <1>3, <1>9
  <2> QED
    BY <1>1, <1>2, <2>2, <2>4, <2>5, ScanGoesOn
<1>10. CASE ~(Len(page) < PageSize)
  <2> DEFINE cursor == Last(page).key
  <2>1. Len(page) = PageSize /\ PageSize \in DOMAIN page /\ cursor = page[PageSize].key
    BY <1>5, <1>6, <1>10 DEF Last
  <2>2. page[PageSize] \in Behind(chain, s, sc.cursor)
    BY <1>6, <2>1 DEF ToSet
  <2>3. cursor \in Nat /\ cursor > sc.cursor /\ cursor <= 2 * Len(chain) + 1
    BY <1>7, <2>1, <2>2 DEF Behind
  <2> HIDE DEF cursor
  <2>4. ToSet(all) = {e \in EntriesIn(chain, s) : e.key <= cursor}
    <3>1. ASSUME NEW e \in ToSet(page) PROVE e \in EntriesIn(chain, s) /\ e.key <= cursor
      <4>1. e \in EntriesIn(chain, s) /\ e.key \in Nat
        BY <1>6, <1>7 DEF Behind
      <4>2. PICK k \in 1..Len(page) : page[k] = e
        BY <1>6 DEF ToSet
      <4>3. k = PageSize \/ k < PageSize
        BY <2>1
      <4> QED
        BY <1>5, <1>6, <2>1, <2>3, <4>1, <4>2, <4>3
    <3>2. ASSUME NEW e \in ToSet(sc.entries) PROVE e \in EntriesIn(chain, s) /\ e.key <= cursor
      BY <1>4, <1>7, <2>3
    <3>3. ASSUME NEW e \in EntriesIn(chain, s), e.key <= cursor
          PROVE  e \in ToSet(sc.entries) \cup ToSet(page)
      <4>1. CASE e.key <= sc.cursor
        BY <1>4, <4>1
      <4>2. CASE e.key > sc.cursor
        BY <1>6, <1>10, <2>1, <3>3, <4>2 DEF Behind
      <4> QED
        BY <1>4, <1>7, <4>1, <4>2
    <3> QED
      BY <1>8, <3>1, <3>2, <3>3
  <2>5. /\ more \in Scan /\ more.phase = "paging" /\ more.entries = all
        /\ more.cursor = cursor
    BY <1>1, <1>8, <2>3 DEF Scan, cursor
  <2> HIDE DEF more, sc
  <2>6. Sound(more, s)
    BY <1>8, <2>3, <2>4, <2>5 DEF Sound
  <2>7. scan' = [scan EXCEPT ![s] = more]
    BY <1>3, <1>10
  <2> QED
    BY <1>1, <1>2, <2>5, <2>6, <2>7, ScanGoesOn
<1> QED
  BY <1>9, <1>10

LEMMA FetchKeeps ==
  ASSUME Good, NEW s \in Script, Fetch(s)
  PROVE  Good'
<1> DEFINE sc == scan[s]
<1>1. /\ phase = "reading" /\ scan \in [Script -> Scan \cup {None}]
      /\ sc \in Scan /\ Sound(sc, s) /\ sc.phase = "fetching"
  BY InIs DEF Fetch
<1>2. CASE Die
  BY <1>2, DieKeeps
<1>3. ASSUME NEW tx, scan' = [scan EXCEPT ![s].missing = @ \ {tx}],
             UNCHANGED <<node, phase, proposals, votes, printed>>
      PROVE  Good'
  <2> DEFINE rest == [sc EXCEPT !.missing = @ \ {tx}]
  <2>1. scan' = [scan EXCEPT ![s] = rest]
    BY <1>3
  <2>2. /\ rest \in Scan /\ rest.phase = "fetching"
        /\ rest.entries = sc.entries /\ rest.seen = sc.seen
    BY <1>1 DEF Scan
  <2> HIDE DEF rest, sc
  <2>3. Sound(rest, s)
    BY <1>1, <2>2 DEF Sound
  <2> QED
    BY <1>1, <1>3, <2>1, <2>2, <2>3, ScanGoesOn
<1> QED
  BY <1>2, <1>3 DEF Fetch

LEMMA MineKeeps ==
  ASSUME Good, Mine
  PROVE  Good'
<1>1. /\ chain \in Seq(Tx) /\ CreatedOnce(chain) /\ scan \in [Script -> Scan \cup {None}]
      /\ \A s \in Script : scan[s] # None => scan[s] \in Scan /\ Sound(scan[s], s)
  BY DEF Good, ChainInv, ScanInv
<1>2. /\ phase' = phase /\ scan' = scan /\ proposals' = proposals /\ votes' = votes
      /\ ~Over
  BY DEF Mine, command
<1>3. PICK spends \in (Created(chain) \ Spent(chain)) \cup {None},
           creates \in (Cell \ Created(chain)) \cup {None}, block \in {Tip, Tip + 1} \ {0} :
        chain' = Append(chain, [spends |-> spends, creates |-> creates, block |-> block])
  BY DEF Mine
<1> DEFINE tx == [spends |-> spends, creates |-> creates, block |-> block]
           n == Len(chain)
<1>4. tx \in Tx /\ tx.creates = creates
  <2>1. Tip \in Nat
    <3>1. CASE chain = <<>>
      BY <3>1 DEF Tip
    <3>2. CASE chain # <<>>
      <4>1. Len(chain) \in DOMAIN chain
        BY <1>1, <3>2
      <4>2. chain[Len(chain)] \in Tx
        BY <1>1, <4>1
      <4> QED
        BY <3>2, <4>2 DEF Tip, Last, Tx
    <3> QED
      BY <3>1, <3>2
  <2>2. Created(chain) \subseteq Cell
    <3>1. \A i \in DOMAIN chain : chain[i] \in Tx
      BY <1>1
    <3> QED
      BY <3>1 DEF Created, Tx
  <2> QED
    BY <2>1, <2>2 DEF Tx
<1>5. chain' = Append(chain, tx)
  BY <1>3
<1> HIDE DEF tx
<1>6. /\ n \in Nat /\ chain' \in Seq(Tx) /\ DOMAIN chain = 1..n /\ DOMAIN chain' = 1..(n + 1)
      /\ \A i \in 1..n : chain'[i] = chain[i]
      /\ chain'[n + 1] = tx
  BY <1>1, <1>4, <1>5
<1>7. ChainInv'
  <2>1. ASSUME NEW i \in 1..n, creates # None PROVE chain[i].creates # creates
    BY <1>6, <2>1 DEF Created
  <2>2. ASSUME NEW i \in 1..(n + 1), NEW j \in 1..(n + 1),
               chain'[i].creates = chain'[j].creates, chain'[i].creates # None
        PROVE  i = j
    <3>1. \A k \in 1..(n + 1) : k \in 1..n \/ k = n + 1
      BY <1>6
    <3>2. CASE i \in 1..n /\ j \in 1..n
      BY <1>1, <1>6, <2>2, <3>2 DEF CreatedOnce
    <3>3. CASE i = n + 1 /\ j \in 1..n
      BY <1>4, <1>6, <2>1, <2>2, <3>3
    <3>4. CASE i \in 1..n /\ j = n + 1
      BY <1>4, <1>6, <2>1, <2>2, <3>4
    <3> QED
      BY <3>1, <3>2, <3>3, <3>4
  <2> QED
    BY <1>6, <2>2 DEF ChainInv, CreatedOnce
<1>8. \A s \in Script : scan[s] # None => Sound(scan[s], s)'
  BY <1>1, <1>2, <1>4, <1>5, AppendKeepsSound
<1>9. ScanInv'
  BY <1>1, <1>2, <1>8 DEF ScanInv
<1>10. ASSUME NEW s \in Script, Done(s) PROVE Until(scan[s].seen)' = Until(scan[s].seen)
  <2>1. scan[s] \in Scan /\ Sound(scan[s], s) /\ scan[s].phase # "paging"
    BY <1>1, <1>10 DEF Done
  <2>2. scan[s].seen \in Nat /\ scan[s].seen <= n
    BY <1>1, <2>1, SoundIsComplete
  <2>3. SubSeq(chain', 1, scan[s].seen) = SubSeq(chain, 1, scan[s].seen)
    BY <1>1, <1>4, <1>5, <2>2, AppendKeepsUntil
  <2> QED
    BY <1>2, <2>3 DEF Until
<1>11. ListsInv'
  <2>1. "proposal" \in Script /\ Proposal \subseteq Script
    BY DEF Script
  <2>2. DOMAIN votes' = Proposal
    BY <1>2 DEF Good, ListsInv
  <2>3. \A s \in Script : Done(s)' => Done(s)
    BY <1>2 DEF Done
  <2>4. ASSUME Done("proposal")' PROVE Newest(proposals, Until(scan["proposal"].seen))'
    <3>1. Done("proposal")
      BY <2>1, <2>3, <2>4
    <3>2. Newest(proposals, Until(scan["proposal"].seen))
      BY <3>1 DEF Good, ListsInv
    <3>3. Until(scan["proposal"].seen)' = Until(scan["proposal"].seen)
      BY <1>10, <2>1, <3>1
    <3> QED
      BY <1>2, <3>2, <3>3
  <2>5. ASSUME NEW p \in Proposal, Done(p)'
        PROVE  IsSnapshot(votes[p], Until(scan[p].seen), {c \in VoteCell : VoteOn[c] = p})'
    <3>1. Done(p)
      BY <2>1, <2>3, <2>5
    <3>2. IsSnapshot(votes[p], Until(scan[p].seen), {c \in VoteCell : VoteOn[c] = p})
      BY <3>1 DEF Good, ListsInv
    <3>3. Until(scan[p].seen)' = Until(scan[p].seen)
      BY <1>10, <2>1, <3>1
    <3> QED
      BY <1>2, <3>2, <3>3
  <2> QED
    BY <2>2, <2>4, <2>5 DEF ListsInv
<1>12. PrintsInv'
  BY <1>2 DEF Good, PrintsInv, Done
<1> QED
  BY <1>7, <1>9, <1>11, <1>12 DEF Good

LEMMA NewScanIsSound ==
  ASSUME chain \in Seq(Tx), NEW s \in Script
  PROVE  NewScan \in Scan /\ Sound(NewScan, s)
<1>1. NewScan \in Scan
  BY DEF NewScan, Scan
<1>2. /\ NewScan.phase = "paging" /\ NewScan.cursor = 0 /\ NewScan.entries = <<>>
  BY DEF NewScan
<1>3. IsInjective(NewScan.entries) /\ ToSet(NewScan.entries) = {}
  BY <1>2 DEF IsInjective, ToSet
<1>4. {e \in EntriesIn(chain, s) : e.key <= 0} = {}
  BY EntriesAre
<1>5. Len(chain) \in Nat
  OBVIOUS
<1> QED
  BY <1>1, <1>2, <1>3, <1>4, <1>5 DEF Sound

LEMMA FoundType ==
  ASSUME NEW entries \in Seq(Entry), NEW k \in Outputs(entries)
  PROVE  FoundAt(entries, k) \in Found
<1> DEFINE live == ~IsConsumed(entries[k].cell, entries)
<1>1. entries[k] \in Entry
  BY DEF Outputs
<1>2. entries[k].cell \in Cell /\ entries[k].block_number \in Nat
  BY <1>1 DEF Entry
<1>3. live \in BOOLEAN
  OBVIOUS
<1> HIDE DEF live
<1>4. [cell |-> entries[k].cell, blockNumber |-> entries[k].block_number, isLive |-> live]
        \in Found
  BY <1>2, <1>3 DEF Found
<1> QED
  BY <1>4 DEF FoundAt, live

LEMMA SelectProposalsKeeps ==
  ASSUME Good, SelectProposals
  PROVE  Good'
<1> DEFINE sc == scan["proposal"]
           txs == Until(sc.seen)
           order == NewestFirst(sc.entries)
           n == Cardinality(Outputs(sc.entries))
           m == IF n < Count THEN n ELSE Count
           selected == [k \in 1..(IF Len(order) < Count THEN Len(order) ELSE Count) |->
                          Collected("proposal")[order[k]]]
           done == [sc EXCEPT !.phase = "done"]
<1>0. "proposal" \in Script /\ "proposal" \notin Proposal /\ Script = {"proposal"} \cup Proposal
  BY QueryAssumption DEF QueryAssumption, Script
<1>1. /\ phase = "reading" /\ chain \in Seq(Tx) /\ CreatedOnce(chain)
      /\ sc \in Scan /\ Sound(sc, "proposal") /\ sc.phase = "fetching"
  BY <1>0, InIs DEF SelectProposals, Fetched
<1>2. /\ chain' = chain /\ phase' = phase /\ votes' = votes /\ proposals' = selected
  BY DEF SelectProposals, node
<1>3. scan' = [s \in Script |-> IF s = "proposal" THEN done
                                ELSE IF \E k \in DOMAIN selected : selected[k].cell = s
                                     THEN NewScan ELSE None]
  BY DEF SelectProposals
<1>4. /\ sc.seen \in Nat /\ sc.seen <= Len(chain)
      /\ Complete(sc.entries, txs, "proposal")
  BY <1>0, <1>1, SoundIsComplete
<1>5. txs \in Seq(Tx) /\ CreatedOnce(txs)
  BY <1>1, <1>4, UntilIs
<1>6. sc.entries \in Seq(Entry)
  BY <1>1 DEF Scan
<1>7. n \in Nat /\ Sorted(order, sc.entries, n)
  BY <1>6, NewestFirstIs
<1>8. Count \in Nat
  BY QueryAssumption DEF QueryAssumption
<1>9. Newest(selected, txs)
  <2>1. order \in [1..n -> Outputs(sc.entries)]
    BY <1>7 DEF Sorted
  <2>2. Len(order) = n
    <3> HIDE DEF n, order
    <3> QED
      BY <1>7, <2>1
  <2>3. m \in Nat /\ m <= n
    BY <1>7, <1>8
  <2>4. \A k \in Outputs(sc.entries) : Collected("proposal")[k] = FoundAt(sc.entries, k)
    BY DEF Collected, FoundAt
  <2>5. selected = [k \in 1..m |-> Collected("proposal")[order[k]]]
    BY <2>2
  <2>6. m = IF n < Count THEN n ELSE Count
    OBVIOUS
  <2>7. n = Cardinality(Outputs(sc.entries))
    OBVIOUS
  <2> HIDE DEF order, selected, n, m, sc
  <2>8. \A k \in 1..m : order[k] \in Outputs(sc.entries)
    BY <1>7, <2>1, <2>3
  <2>9. /\ DOMAIN selected = 1..m
        /\ \A k \in 1..m : selected[k] = FoundAt(sc.entries, order[k])
    BY <2>4, <2>5, <2>8
  <2>10. selected \in [1..m -> Found]
    <3>1. \A k \in 1..m : FoundAt(sc.entries, order[k]) \in Found
      BY <1>6, <2>8, FoundType
    <3>2. \A k \in 1..m : Collected("proposal")[order[k]] \in Found
      BY <2>4, <2>8, <3>1
    <3> QED
      BY <2>5, <3>2
  <2> HIDE DEF txs
  <2> QED
    BY <1>4, <1>5, <1>7, <2>3, <2>6, <2>7, <2>9, <2>10, SelectedIsNewest, SMTT(30)
<1>10. done \in Scan /\ done.phase = "done" /\ done.entries = sc.entries /\ done.seen = sc.seen
  <2>1. sc \in Scan
    BY <1>1
  <2> HIDE DEF sc
  <2> QED
    BY <2>1, SMTT(30) DEF Scan
<1> HIDE DEF done, selected, sc, order
<1>11. /\ scan'["proposal"] = done
       /\ \A p \in Proposal : scan'[p] \in {NewScan, None}
  BY <1>0, <1>3
<1>12. ChainInv'
  BY <1>1, <1>2 DEF ChainInv, CreatedOnce
<1>13. ScanInv'
  <2>1. Sound(done, "proposal")
    BY <1>1, <1>10 DEF Sound
  <2>2. \A p \in Proposal : NewScan \in Scan /\ Sound(NewScan, p)
    BY <1>0, <1>1, NewScanIsSound
  <2>3. scan' \in [Script -> Scan \cup {None}]
    <3>1. \A s \in Script : scan'[s] \in Scan \cup {None}
      BY <1>0, <1>10, <1>11, <2>2
    <3>2. scan' = [s \in Script |-> scan'[s]]
      BY <1>3
    <3> QED
      BY <3>1, <3>2
  <2>4. \A s \in Script : scan'[s] # None => scan'[s] \in Scan /\ Sound(scan'[s], s)
    BY <1>0, <1>10, <1>11, <2>1, <2>2
  <2> QED
    BY <1>2, <2>3, <2>4 DEF ScanInv, Sound, Until
<1>14. ListsInv'
  <2>1. DOMAIN votes' = Proposal
    BY <1>2 DEF Good, ListsInv
  <2>2. Newest(proposals, Until(scan["proposal"].seen))'
    <3>1. Newest(selected, SubSeq(chain, 1, sc.seen))
      BY <1>9 DEF Until
    <3>2. scan'["proposal"].seen = sc.seen
      BY <1>10, <1>11
    <3> QED
      BY <1>2, <3>1, <3>2 DEF Until
  <2>3. \A p \in Proposal : ~Done(p)'
    <3>1. NewScan.phase # "done"
      BY DEF NewScan
    <3> QED
      BY <1>11, <3>1 DEF Done
  <2> QED
    BY <2>1, <2>2, <2>3 DEF ListsInv
<1>15. PrintsInv'
  BY <1>1, <1>2 DEF PrintsInv
<1> QED
  BY <1>12, <1>13, <1>14, <1>15 DEF Good

LEMMA CollectVotesKeeps ==
  ASSUME Good, NEW p \in Proposal, CollectVotes(p)
  PROVE  Good'
<1> DEFINE sc == scan[p]
           done == [sc EXCEPT !.phase = "done"]
           found == Collected(p)
           cells == {c \in VoteCell : VoteOn[c] = p}
<1>0. "proposal" \in Script /\ "proposal" # p /\ p \in Script /\ Proposal \subseteq Script
  BY QueryAssumption DEF QueryAssumption, Script
<1>1. /\ phase = "reading" /\ chain \in Seq(Tx) /\ CreatedOnce(chain)
      /\ scan \in [Script -> Scan \cup {None}]
      /\ sc \in Scan /\ Sound(sc, p) /\ sc.phase = "fetching"
  BY <1>0, InIs DEF CollectVotes, Fetched
<1>2. /\ chain' = chain /\ phase' = phase /\ proposals' = proposals
      /\ votes' = [votes EXCEPT ![p] = found]
      /\ scan' = [scan EXCEPT ![p] = done]
  BY DEF CollectVotes, node
<1>3. /\ sc.seen \in Nat /\ sc.seen <= Len(chain)
      /\ Complete(sc.entries, Until(sc.seen), p)
  BY <1>0, <1>1, SoundIsComplete
<1>4. Until(sc.seen) \in Seq(Tx) /\ CreatedOnce(Until(sc.seen))
  BY <1>1, <1>3, UntilIs
<1>5. cells = {c \in Cell : ScriptOf(c) = p}
  BY ScriptOfCell DEF Cell
<1>6. IsSnapshot(found, Until(sc.seen), cells)
  BY <1>3, <1>4, <1>5, CollectedIsSnapshot
<1>7. done \in Scan /\ done.phase = "done" /\ done.entries = sc.entries /\ done.seen = sc.seen
  BY <1>1 DEF Scan
<1> HIDE DEF done, found
<1>8. /\ scan' \in [Script -> Scan \cup {None}] /\ scan'[p] = done
      /\ \A s \in Script \ {p} : scan'[s] = scan[s]
  BY <1>0, <1>1, <1>2, <1>7
<1>9. /\ DOMAIN votes' = Proposal /\ votes'[p] = found
      /\ \A q \in Proposal \ {p} : votes'[q] = votes[q]
  BY <1>2 DEF Good, ListsInv
<1>10. ChainInv'
  BY <1>1, <1>2 DEF ChainInv, CreatedOnce
<1>11. ScanInv'
  <2>1. Sound(done, p)
    BY <1>1, <1>7 DEF Sound
  <2>2. \A s \in Script : scan'[s] # None => scan'[s] \in Scan /\ Sound(scan'[s], s)
    BY <1>7, <1>8, <2>1 DEF Good, ScanInv
  <2> QED
    BY <1>2, <1>8, <2>2 DEF ScanInv, Sound, Until
<1>12. ListsInv'
  <2>1. ASSUME Done("proposal")' PROVE Newest(proposals, Until(scan["proposal"].seen))'
    <3>1. scan'["proposal"] = scan["proposal"]
      BY <1>0, <1>8
    <3>2. Done("proposal")
      BY <2>1, <3>1 DEF Done
    <3>3. Newest(proposals, SubSeq(chain, 1, scan["proposal"].seen))
      BY <3>2 DEF Good, ListsInv, Until
    <3> QED
      BY <1>2, <3>1, <3>3 DEF Until
  <2>2. ASSUME NEW q \in Proposal, Done(q)'
        PROVE  IsSnapshot(votes[q], Until(scan[q].seen), {c \in VoteCell : VoteOn[c] = q})'
    <3>1. CASE q = p
      <4>1. IsSnapshot(found, SubSeq(chain, 1, sc.seen), cells)
        BY <1>6 DEF Until
      <4>2. votes'[q] = found /\ scan'[q].seen = sc.seen
        BY <1>7, <1>8, <1>9, <3>1
      <4> QED
        BY <1>2, <3>1, <4>1, <4>2 DEF Until
    <3>2. CASE q # p
      <4>1. scan'[q] = scan[q] /\ votes'[q] = votes[q]
        BY <1>0, <1>8, <1>9, <3>2
      <4>2. Done(q)
        BY <2>2, <4>1 DEF Done
      <4>3. IsSnapshot(votes[q], SubSeq(chain, 1, scan[q].seen),
                       {c \in VoteCell : VoteOn[c] = q})
        BY <4>2 DEF Good, ListsInv, Until
      <4> QED
        BY <1>2, <4>1, <4>3 DEF Until
    <3> QED
      BY <3>1, <3>2
  <2> QED
    BY <1>9, <2>1, <2>2 DEF ListsInv
<1>13. PrintsInv'
  BY <1>1, <1>2 DEF PrintsInv
<1> QED
  BY <1>10, <1>11, <1>12, <1>13 DEF Good

\* What only goes on with printing.
LEMMA PrintingKeeps ==
  ASSUME Good, UNCHANGED <<node, scan, proposals, votes>>,
         \/ phase' = phase
         \/ /\ Done("proposal")
            /\ \A k \in DOMAIN proposals : Done(proposals[k].cell)
  PROVE  Good'
<1>1. chain' = chain /\ scan' = scan /\ proposals' = proposals /\ votes' = votes
  BY DEF node
<1>2. ChainInv'
  BY <1>1 DEF Good, ChainInv, CreatedOnce
<1>3. ScanInv'
  BY <1>1 DEF Good, ScanInv, Sound, Until
<1>4. ListsInv'
  BY <1>1 DEF Good, ListsInv, Done, Until
<1>5. PrintsInv'
  BY <1>1 DEF Good, PrintsInv, Done
<1> QED
  BY <1>2, <1>3, <1>4, <1>5 DEF Good

LEMMA StartPrintingKeeps ==
  ASSUME Good, StartPrinting
  PROVE  Good'
<1>1. Done("proposal") /\ \A k \in DOMAIN proposals : Done(proposals[k].cell)
  BY DEF StartPrinting, In, Done
<1> QED
  BY <1>1, PrintingKeeps DEF StartPrinting

LEMMA ShowKeeps ==
  ASSUME Good, Show
  PROVE  Good'
<1>1. Die \/ UNCHANGED <<node, phase, scan, proposals, votes>>
  BY DEF Show
<1> QED
  BY <1>1, DieKeeps, PrintingKeeps

LEMMA EndKeeps ==
  ASSUME Good, End
  PROVE  Good'
<1>1. Done("proposal") /\ \A k \in DOMAIN proposals : Done(proposals[k].cell)
  BY DEF Good, PrintsInv, End
<1> QED
  BY <1>1, PrintingKeeps DEF End

LEMMA InitGood ==
  ASSUME Init
  PROVE  Inv
<1>1. "proposal" \in Script /\ "proposal" \notin Proposal /\ Script = {"proposal"} \cup Proposal
  BY QueryAssumption DEF QueryAssumption, Script
<1>2. chain \in Seq(Tx) /\ CreatedOnce(chain)
  BY DEF Init, CreatedOnce
<1>3. NewScan \in Scan /\ Sound(NewScan, "proposal") /\ NewScan.phase # "done"
  BY <1>1, <1>2, NewScanIsSound DEF NewScan
<1>4. scan["proposal"] = NewScan /\ \A p \in Proposal : scan[p] = None
  BY <1>1 DEF Init, NoScans
<1>5. scan \in [Script -> Scan \cup {None}]
  BY <1>1, <1>3 DEF Init, NoScans
<1>6. ScanInv
  BY <1>1, <1>3, <1>4, <1>5 DEF ScanInv
<1>7. ListsInv
  BY <1>3, <1>4 DEF ListsInv, Done, Init, NoVotes
<1>8. PrintsInv
  BY DEF PrintsInv, Init
<1> QED
  BY <1>2, <1>6, <1>7, <1>8 DEF Inv, Good, ChainInv, Init

LEMMA StepKeeps ==
  ASSUME Good, Step
  PROVE  Good'
<1>1. ASSUME NEW s \in Script, GetPage(s) \/ Fetch(s) PROVE Good'
  BY <1>1, GetPageKeeps, FetchKeeps
<1>2. CASE SelectProposals
  BY <1>2, SelectProposalsKeeps
<1>3. ASSUME NEW p \in Proposal, CollectVotes(p) PROVE Good'
  BY <1>3, CollectVotesKeeps
<1>4. CASE StartPrinting \/ Show \/ End
  BY <1>4, StartPrintingKeeps, ShowKeeps, EndKeeps
<1> QED
  BY <1>1, <1>2, <1>3, <1>4 DEF Step

\* A command does not turn the chain back.
LEMMA StepOnChain ==
  ASSUME Step \/ Die
  PROVE  UNCHANGED node
BY DEF Step, GetPage, Fetch, Die, SelectProposals, CollectVotes, StartPrinting, Show, End

LEMMA InvInductive ==
  ASSUME Inv, [Next]_vars
  PROVE  Inv'
<1>1. CASE Mine
  <2>1. reorgs' = reorgs
    BY <1>1 DEF Mine
  <2> QED
    BY <1>1, <2>1, MineKeeps DEF Inv
<1>2. CASE Reorg
  <2>1. reorgs' = reorgs + 1 /\ reorgs \in Nat
    BY <1>2 DEF Reorg, Inv
  <2> QED
    BY <2>1 DEF Inv
<1>3. CASE Step \/ RequestFails
  <2>1. reorgs' = reorgs
    BY <1>3, StepOnChain DEF node, RequestFails
  <2>2. Good => Good'
    BY <1>3, StepKeeps, DieKeeps DEF RequestFails
  <2> QED
    BY <2>1, <2>2 DEF Inv
<1>4. CASE UNCHANGED vars
  <2>1. reorgs' = reorgs /\ phase' = phase /\ UNCHANGED <<node, scan, proposals, votes>>
    BY <1>4 DEF vars, node, command
  <2> QED
    BY <2>1, PrintingKeeps DEF Inv
<1> QED
  BY <1>1, <1>2, <1>3, <1>4 DEF Next

\* The invariant gives the property: when the command has ended, all lists are
\* those of complete scans.
LEMMA InvShows ==
  ASSUME Inv
  PROVE  ShowsSnapshot
<1> SUFFICES ASSUME phase = "ended", reorgs = 0
             PROVE  /\ Newest(proposals, SubSeq(chain, 1, scan["proposal"].seen))
                    /\ \A k \in DOMAIN proposals :
                         IsSnapshot(votes[proposals[k].cell],
                                    SubSeq(chain, 1, scan[proposals[k].cell].seen),
                                    {c \in VoteCell : VoteOn[c] = proposals[k].cell})
  BY DEF ShowsSnapshot
<1>1. Good
  BY DEF Inv
<1>2. Done("proposal") /\ \A k \in DOMAIN proposals : Done(proposals[k].cell)
  BY <1>1 DEF Good, PrintsInv
<1>3. Newest(proposals, SubSeq(chain, 1, scan["proposal"].seen))
  BY <1>1, <1>2 DEF Good, ListsInv, Until
<1>4. \A k \in DOMAIN proposals : proposals[k].cell \in Proposal
  <2> DEFINE there == {proposals[k].cell : k \in DOMAIN proposals}
             txs == SubSeq(chain, 1, scan["proposal"].seen)
  <2>1. IsSnapshot(proposals, txs, there \cap Proposal)
    BY <1>3 DEF Newest
  <2> HIDE DEF txs
  <2>2. there = Created(txs) \cap (there \cap Proposal) \cap Readable
    BY <2>1 DEF IsSnapshot
  <2>3. \A c \in there : c \in Proposal
    BY <2>2
  <2> QED
    BY <2>3
<1>5. ASSUME NEW p \in Proposal, Done(p)
      PROVE  IsSnapshot(votes[p], SubSeq(chain, 1, scan[p].seen), {c \in VoteCell : VoteOn[c] = p})
  BY <1>1, <1>5 DEF Good, ListsInv, Until
<1> QED
  BY <1>2, <1>3, <1>4, <1>5

\* ShowsSnapshot: as long as no block is abandoned, query.ts loses nothing and
\* shows nothing twice while it pages through a chain that grows; the proposals
\* it prints are the newest --count ones, and the votes on each are complete, with
\* ACTIVE and consumed right for the moment of the last page.
THEOREM QueryShowsSnapshot == Spec => []ShowsSnapshot
<1>1. Init => Inv
  BY InitGood
<1>2. Inv /\ [Next]_vars => Inv'
  BY InvInductive
<1>3. Inv => ShowsSnapshot
  BY InvShows
<1> QED
  BY <1>1, <1>2, <1>3, PTL DEF Spec
=============================================================================
