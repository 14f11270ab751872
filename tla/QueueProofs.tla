---------------------------- MODULE QueueProofs -----------------------------
(***************************************************************************)
(* Proofs about the leader daemon's queue and its result store: the list,  *)
(* the queue and the scheduler agree (QueueInv), a hold is what was asked  *)
(* for last (HoldFollowsLast), the store says what is listed (StoreAgrees) *)
(* and never prunes too much (PruneKeepsEnough), and the queue implements  *)
(* TestLife (KeepsPromise), for any number of tests, crashes and failures. *)
(***************************************************************************)
EXTENDS TestQueue, DataLemmas

(* The queue is in the order of creation.                                  *)
PendingInOrder ==
    /\ \A k, l \in DOMAIN pending : k < l => pending[k] < pending[l]
    /\ \A k \in DOMAIN pending : pending[k] <= created

NothingAhead == \A t \in Tests : t > created => all_tests[t] = "unknown"

(* A status that may be on disk for a test: the listed one, or the one it  *)
(* was created with.                                                       *)
Shown(t, status) == all_tests[t] # "unknown" /\ status \in {"Queued", all_tests[t]} /\ status # "Running"

UniqueIds(idx) == \A k, l \in DOMAIN idx : idx[k].id = idx[l].id => k = l

(* What the index and a save in progress say was shown to the clients.     *)
DiskShown ==
    /\ UniqueIds(index)
    /\ \A k \in DOMAIN index : Shown(index[k].id, index[k].status)
    /\ save.pc # "idle" => Shown(save.id, save.status)

LifeInv == QueueInv /\ PendingInOrder /\ NothingAhead /\ DiskShown

(* The last command in the hold channel is what was asked for.             *)
HoldInv ==
    running # NoTest => asked = IF hold_tx = <<>> THEN hold_state ELSE hold_tx[Len(hold_tx)]

-----------------------------------------------------------------------------
(* The files of finished tests.                                            *)
Kept == {t \in Tests : entries[t] \in Terminal}
NumTerminal(idx) == Cardinality(TerminalAt(idx))
Saving == Updated(save.id, save.status)
Least(a, b) == IF a <= b THEN a ELSE b

(* A test is saved with a final status only once, and as queued only when  *)
(* it is new.                                                              *)
EndsOnce ==
    /\ \A t \in Kept : t <= created /\ all_tests[t] # "Running" /\ t \notin Range(pending)
    /\ \A k \in DOMAIN index : index[k].status \in Terminal => entries[index[k].id] \in {index[k].status, "absent"}
    /\ save.pc = "entry" => save.id \notin Kept
    /\ save.pc # "idle" /\ save.status = "Queued" => \A k \in DOMAIN index : index[k].id # save.id

(* Enough files: the index never lists more than max_results finished      *)
(* tests, there are at least as many files as it lists, and one more while *)
(* a file is to be removed.                                                *)
FilesEnough ==
    /\ NumTerminal(index) <= max_results
    /\ save.pc # "prune" => Cardinality(Kept) >= NumTerminal(index)
    /\ save.pc = "prune" =>
          /\ Len(doomed) <= 1
          /\ Cardinality(Kept) >= Least(NumTerminal(Saving), max_results) + Len(doomed)
          /\ doomed # <<>> => NumTerminal(Saving) > max_results /\ entries[doomed[1]] \in Terminal \cup {"absent"}
          /\ save.status \in Terminal => entries[save.id] \in {save.status, "absent"}
    /\ save.pc # "prune" => doomed = <<>>

StoreInv == LifeInv /\ EndsOnce /\ FilesEnough

(* Without crashes and disk failures the files are those of the index that *)
(* is written next, less the ones that are removed, and they say what the  *)
(* clients see, except for the test that is being saved.                   *)
EntryShown(t) ==
    /\ all_tests[t] = "unknown" => entries[t] = "absent"
    /\ all_tests[t] \in {"Queued", "Running"} => entries[t] = "Queued"
    /\ all_tests[t] \in Terminal => entries[t] \in {all_tests[t], "absent"}

Lists(idx, t) == \E k \in DOMAIN idx : idx[k].id = t
Excessive == Range(PruneIds(Saving))

FilesListed ==
    /\ \A k \in DOMAIN index : entries[index[k].id] = index[k].status
    /\ \A t \in Tests : entries[t] # "absent" => Lists(index, t)

FilesPruned ==
    /\ \A k \in DOMAIN Saving : Saving[k].id \notin Excessive => entries[Saving[k].id] = Saving[k].status
    /\ \A t \in Tests : entries[t] # "absent" => Lists(Saving, t) /\ (t \in Excessive => doomed = <<t>>)
    /\ Range(doomed) \subseteq Excessive

StoreExact ==
    /\ save.pc = "entry" => all_tests[save.id] = save.status
    /\ crashes = 0 /\ failures = 0 =>
          /\ IF save.pc = "prune" THEN FilesPruned ELSE FilesListed
          /\ \A t \in Tests : EntryShown(t) \/ (save.pc = "entry" /\ t = save.id)

-----------------------------------------------------------------------------
(* The queue without a test that it holds: VecDeque::remove at the         *)
(* position of the test.                                                   *)
LEMMA WithoutIs ==
    ASSUME pending \in Seq(Tests), PendingInOrder, NEW t \in Range(pending)
    PROVE  /\ Without(t) \in Seq(Tests)
           /\ Range(Without(t)) = Range(pending) \ {t}
           /\ \A k, l \in DOMAIN Without(t) : k < l => Without(t)[k] < Without(t)[l]
  <1> DEFINE p == Position(t)
             W == Without(t)
             Next1(k) == IF k < p THEN k ELSE k + 1
  <1>1. DOMAIN pending = 1..Len(pending) /\ Len(pending) \in Nat /\ \A k \in DOMAIN pending : pending[k] \in Nat
    <2>1. \A k \in DOMAIN pending : pending[k] \in Tests
      OBVIOUS
    <2>2. \A u \in Tests : u \in Nat
      BY DEF Tests
    <2> QED
      BY <2>1, <2>2
  <1>2. \A k, l \in DOMAIN pending : pending[k] = pending[l] => k = l
    BY <1>1 DEF PendingInOrder
  <1>3. p \in DOMAIN pending /\ pending[p] = t
    <2>1. PICK q \in DOMAIN pending : pending[q] = t
      BY DEF Range
    <2>2. \A j \in 1..(q - 1) : pending[j] # t
      BY <1>1, <1>2, <2>1
    <2>3. \E k \in DOMAIN pending : pending[k] = t /\ \A j \in 1..(k - 1) : pending[j] # t
      BY <2>1, <2>2
    <2> QED
      BY <2>3, Zenon DEF Position
  <1>4. /\ W \in Seq(Tests) /\ Len(W) = Len(pending) - 1 /\ DOMAIN W = 1..(Len(pending) - 1)
        /\ \A k \in DOMAIN W : W[k] = pending[Next1(k)]
    <2> DEFINE A == SubSeq(pending, 1, p - 1)
               B == SubSeq(pending, p + 1, Len(pending))
               n == Len(pending)
    <2>1. W = A \o B
      BY DEF Without
    <2> HIDE DEF p, W
    <2>2. p \in Nat /\ 1 <= p /\ p <= n /\ n \in Nat
      BY <1>1, <1>3
    <2>3. A \in Seq(Tests) /\ Len(A) = p - 1 /\ \A k \in 1..(p - 1) : A[k] = pending[k]
      BY <2>2
    <2>4. B \in Seq(Tests) /\ Len(B) = n - p /\ \A k \in 1..(n - p) : B[k] = pending[k + p]
      BY <2>2
    <2> HIDE DEF A, B, n
    <2>5. W \in Seq(Tests) /\ Len(W) = n - 1 /\ DOMAIN W = 1..(n - 1)
      <3>1. W \in Seq(Tests) /\ Len(W) = Len(A) + Len(B)
        <4>1. \A S : \A a, b \in Seq(S) : a \o b \in Seq(S) /\ Len(a \o b) = Len(a) + Len(b)
          OBVIOUS
        <4> QED
          BY <2>1, <2>3, <2>4, <4>1, Zenon
      <3>2. Len(W) = n - 1
        BY <2>2, <2>3, <2>4, <3>1
      <3> QED
        BY <3>1, <3>2
    <2>6. \A k \in 1..(n - 1) : W[k] = IF k <= p - 1 THEN A[k] ELSE B[k - (p - 1)]
      BY <2>1, <2>2, <2>3, <2>4
    <2>7. ASSUME NEW k \in 1..(n - 1) PROVE W[k] = pending[Next1(k)]
      <3>1. CASE k < p
        BY <2>2, <2>3, <2>6, <3>1
      <3>2. CASE ~(k < p)
        <4>1. k - (p - 1) \in 1..(n - p) /\ (k - (p - 1)) + p = k + 1
          BY <2>2, <3>2
        <4>2. W[k] = B[k - (p - 1)]
          BY <2>2, <2>6, <3>2
        <4> QED
          BY <2>4, <3>2, <4>1, <4>2
      <3> QED
        BY <3>1, <3>2
    <2> QED
      BY <2>5, <2>7 DEF n
  <1> HIDE DEF p, W
  <1>5. \A k \in DOMAIN W : Next1(k) \in DOMAIN pending /\ Next1(k) # p
    BY <1>1, <1>3, <1>4
  <1>6. \A k, l \in DOMAIN W : k < l => Next1(k) < Next1(l)
    BY <1>1, <1>3, <1>4
  <1>7. \A l \in DOMAIN pending : l # p => \E k \in DOMAIN W : Next1(k) = l
    <2> SUFFICES ASSUME NEW l \in DOMAIN pending, l # p PROVE \E k \in DOMAIN W : Next1(k) = l
      OBVIOUS
    <2>1. CASE l < p
      BY <1>1, <1>3, <1>4, <2>1
    <2>2. CASE l > p
      <3>1. l - 1 \in DOMAIN W /\ Next1(l - 1) = l
        BY <1>1, <1>3, <1>4, <2>2
      <3> QED
        BY <3>1
    <2> QED
      BY <1>1, <1>3, <2>1, <2>2
  <1> HIDE DEF Next1
  <1>8. \A k, l \in DOMAIN W : k < l => W[k] < W[l]
    BY <1>4, <1>5, <1>6 DEF PendingInOrder
  <1>9. Range(W) = Range(pending) \ {t}
    BY <1>2, <1>3, <1>4, <1>5, <1>7 DEF Range
  <1> QED
    BY <1>4, <1>8, <1>9 DEF W

(* The length of a sequence of tests.                                      *)
LEMMA SeqLength == ASSUME NEW q \in Seq(Tests) PROVE Len(q) \in Nat
  OBVIOUS

(* A test at the end of a sequence.                                        *)
LEMMA Appended ==
    ASSUME NEW q \in Seq(Tests), NEW t \in Tests
    PROVE  /\ Append(q, t) \in Seq(Tests) /\ DOMAIN Append(q, t) = 1..(Len(q) + 1)
           /\ Append(q, t)[Len(q) + 1] = t /\ \A k \in DOMAIN q : Append(q, t)[k] = q[k]
  OBVIOUS

(* U is the index with the entry of t replaced or appended.                *)
WithEntry(U, t, s) ==
    /\ U \in Seq(TestInfo) /\ UniqueIds(U)
    /\ DOMAIN index \subseteq DOMAIN U
    /\ \A k \in DOMAIN index : index[k].id # t => U[k] = index[k]
    /\ \A k \in DOMAIN U : \/ U[k].id = t /\ U[k].status = s
                           \/ k \in DOMAIN index /\ U[k] = index[k] /\ U[k].id # t
    /\ \E p \in DOMAIN U : U[p].id = t /\ U[p].status = s

(* The index with the entry of a test replaced or appended.                *)
LEMMA UpdatedIs ==
    ASSUME index \in Seq(TestInfo), NEW t \in Tests, NEW s \in Status, UniqueIds(index)
    PROVE  WithEntry(Updated(t, s), t, s)
  <1> DEFINE U == Updated(t, s)
             info == [id |-> t, status |-> s]
  <1>1. info \in TestInfo /\ info.id = t /\ info.status = s
    BY DEF TestInfo
  <1>2. Len(index) \in Nat /\ DOMAIN index = 1..Len(index) /\ \A k \in DOMAIN index : index[k] \in TestInfo
    OBVIOUS
  <1> HIDE DEF info
  <1>3. CASE \E k \in DOMAIN index : index[k].id = t
    <2>1. U = [k \in DOMAIN index |-> IF index[k].id = t THEN info ELSE index[k]]
      BY <1>3 DEF Updated, info
    <2>2. U \in [1..Len(index) -> TestInfo]
      BY <1>1, <1>2, <2>1
    <2>3. U \in Seq(TestInfo) /\ DOMAIN U = DOMAIN index
      BY <1>2, <2>1, <2>2
    <2>4. \A k \in DOMAIN index : U[k] = IF index[k].id = t THEN info ELSE index[k]
      BY <2>1
    <2> HIDE DEF U
    <2>5. UniqueIds(U)
      BY <1>1, <2>3, <2>4 DEF UniqueIds
    <2> QED
      BY <1>1, <1>3, <2>3, <2>4, <2>5 DEF U, WithEntry
  <1>4. CASE \A k \in DOMAIN index : index[k].id # t
    <2>1. U = Append(index, info)
      BY <1>4 DEF Updated, info
    <2>2. /\ U \in Seq(TestInfo) /\ DOMAIN U = DOMAIN index \cup {Len(index) + 1}
          /\ U[Len(index) + 1] = info /\ \A k \in DOMAIN index : U[k] = index[k]
      BY <1>1, <1>2, <2>1
    <2> HIDE DEF U
    <2>3. UniqueIds(U)
      BY <1>1, <1>4, <2>2 DEF UniqueIds
    <2> QED
      BY <1>1, <1>4, <2>2, <2>3 DEF U, WithEntry
  <1> QED
    BY <1>3, <1>4

(* The index a save is about to write.                                     *)
LEMMA SavingIs ==
    ASSUME index \in Seq(TestInfo), save.id \in Tests, save.status \in Status, UniqueIds(index)
    PROVE  /\ Saving \in Seq(TestInfo) /\ UniqueIds(Saving)
           /\ DOMAIN index \subseteq DOMAIN Saving
           /\ \A k \in DOMAIN index : index[k].id # save.id => Saving[k] = index[k]
           /\ \A k \in DOMAIN Saving : \/ Saving[k].id = save.id /\ Saving[k].status = save.status
                                       \/ k \in DOMAIN index /\ Saving[k] = index[k] /\ Saving[k].id # save.id
           /\ \E p \in DOMAIN Saving : Saving[p].id = save.id /\ Saving[p].status = save.status
  <1>1. WithEntry(Saving, save.id, save.status)
    BY UpdatedIs, Zenon DEF Saving
  <1> QED
    BY <1>1, Zenon DEF WithEntry

-----------------------------------------------------------------------------
(* f relates each element of S to one of T and each of T to one of S.      *)
Corresponds(f, S, T) ==
    f \in [S -> T] /\ (\A x, y \in S : f[x] = f[y] => x = y) /\ \A z \in T : \E x \in S : f[x] = z

(* Two sets whose elements correspond have the same size.                  *)
LEMMA SameSize ==
    ASSUME NEW S, NEW T, IsFiniteSet(S), NEW f, Corresponds(f, S, T)
    PROVE  IsFiniteSet(T) /\ Cardinality(T) = Cardinality(S)
  <1>1. f \in Bijection(S, T)
    BY DEF Corresponds, Bijection, Injection, IsInjective, Surjection
  <1> QED
    BY <1>1, FS_Bijection DEF ExistsBijection

(* prune() removes the oldest finished tests, as many as are too many.     *)
LEMMA PruneIdsIs ==
    ASSUME NEW idx \in Seq(TestInfo)
    PROVE  LET n == NumTerminal(idx)
               ids == PruneIds(idx) IN
           /\ n \in Nat /\ IsFiniteSet(TerminalAt(idx)) /\ ids \in Seq(Tests)
           /\ Len(ids) = IF n <= max_results THEN 0 ELSE n - max_results
           /\ \A i \in DOMAIN ids : \E k \in TerminalAt(idx) : PosRank(TerminalAt(idx), k) = i /\ ids[i] = idx[k].id
  <1> DEFINE T == TerminalAt(idx)
             n == NumTerminal(idx)
             terminal == Filtered(idx, T)
             ids == PruneIds(idx)
  <1>0. max_results \in Nat
    BY StoreAssumption
  <1>1. T \in SUBSET DOMAIN idx /\ \A k \in DOMAIN idx : idx[k].id \in Tests
    <2>1. \A k \in DOMAIN idx : idx[k] \in TestInfo
      OBVIOUS
    <2> QED
      BY <2>1 DEF TerminalAt, TestInfo
  <1> HIDE DEF T
  <1>2. /\ terminal \in Seq(TestInfo) /\ Len(terminal) = Cardinality(T) /\ Cardinality(T) \in Nat /\ IsFiniteSet(T)
        /\ \A m \in 1..Cardinality(T) : \E k \in T : PosRank(T, k) = m /\ terminal[m] = idx[k]
    BY <1>1, FilterKeeps
  <1>3. n = Cardinality(T)
    BY DEF NumTerminal, T
  <1> HIDE DEF n, terminal
  <1>4. CASE n <= max_results
    <2>1. ids = <<>>
      BY <1>2, <1>3, <1>4 DEF PruneIds, terminal, T
    <2> QED
      BY <1>2, <1>3, <1>4, <2>1 DEF n, T
  <1>5. CASE ~(n <= max_results)
    <2>1. ids = [k \in 1..(n - max_results) |-> terminal[k].id]
      BY <1>2, <1>3, <1>5 DEF PruneIds, terminal, T, Excess
    <2>2. n \in Nat /\ n - max_results \in Nat /\ \A i \in 1..(n - max_results) : i \in 1..n
      BY <1>0, <1>2, <1>3, <1>5
    <2>3. \A i \in 1..(n - max_results) : \E k \in T : PosRank(T, k) = i /\ ids[i] = idx[k].id
      BY <1>2, <1>3, <2>1, <2>2
    <2>4. ids \in [1..(n - max_results) -> Tests]
      <3>1. \A i \in 1..(n - max_results) : ids[i] \in Tests
        BY <1>1, <2>3
      <3> QED
        BY <2>1, <3>1
    <2>5. ids \in Seq(Tests) /\ Len(ids) = n - max_results /\ DOMAIN ids = 1..(n - max_results)
      <3>1. \A m \in Nat : \A g \in [1..m -> Tests] : g \in Seq(Tests) /\ Len(g) = m /\ DOMAIN g = 1..m
        OBVIOUS
      <3> QED
        BY <2>2, <2>4, <3>1, Zenon
    <2> HIDE DEF ids
    <2>6. n \in Nat /\ IsFiniteSet(T)
      BY <1>2, <1>3
    <2>7. \A i \in DOMAIN ids : \E k \in T : PosRank(T, k) = i /\ ids[i] = idx[k].id
      BY <2>3, <2>5
    <2> QED
      BY <1>5, <2>5, <2>6, <2>7 DEF ids, n, T
  <1> QED
    BY <1>4, <1>5

(* The pruned index: the entries of the removed tests are gone, and at     *)
(* most max_results finished tests remain.                                 *)
LEMMA PrunedIs ==
    ASSUME NEW idx \in Seq(TestInfo), UniqueIds(idx)
    PROVE  LET P == Pruned(idx)
               Gone == Range(PruneIds(idx)) IN
           /\ P \in Seq(TestInfo) /\ UniqueIds(P)
           /\ \A m \in DOMAIN P : \E k \in DOMAIN idx : P[m] = idx[k] /\ idx[k].id \notin Gone
           /\ \A k \in DOMAIN idx : idx[k].id \notin Gone => \E m \in DOMAIN P : P[m] = idx[k]
           /\ NumTerminal(P) = Least(NumTerminal(idx), max_results)
  <1> DEFINE ids == PruneIds(idx)
             Gone == Range(PruneIds(idx))
             K == {k \in DOMAIN idx : idx[k].id \notin Gone}
             P == Filtered(idx, K)
             T == TerminalAt(idx)
             TP == TerminalAt(P)
             D == {k \in T : idx[k].id \in Gone}
             n == NumTerminal(idx)
  <1>0. P = Pruned(idx) /\ max_results \in Nat
    BY StoreAssumption DEF Pruned
  <1>1. /\ n \in Nat /\ IsFiniteSet(T) /\ ids \in Seq(Tests)
        /\ Len(ids) = IF n <= max_results THEN 0 ELSE n - max_results
        /\ \A i \in DOMAIN ids : \E k \in T : PosRank(T, k) = i /\ ids[i] = idx[k].id
    BY PruneIdsIs
  <1>2. K \in SUBSET DOMAIN idx /\ T \in SUBSET DOMAIN idx /\ D \in SUBSET T
    BY DEF TerminalAt
  <1>3. /\ P \in Seq(TestInfo) /\ Len(P) = Cardinality(K) /\ Cardinality(K) \in Nat /\ IsFiniteSet(K)
        /\ \A k \in K : PosRank(K, k) \in 1..Cardinality(K) /\ P[PosRank(K, k)] = idx[k]
        /\ \A m \in 1..Cardinality(K) : \E k \in K : PosRank(K, k) = m /\ P[m] = idx[k]
    <2> HIDE DEF K
    <2> QED
      BY <1>2, FilterKeeps, Zenon
  <1>4. DOMAIN P = 1..Cardinality(K)
    BY DEF Filtered
  <1>5. Gone = {ids[i] : i \in DOMAIN ids} /\ DOMAIN ids = 1..Len(ids) /\ Len(ids) \in Nat
    BY <1>1 DEF Range
  <1>6. Len(idx) \in Nat /\ DOMAIN idx = 1..Len(idx)
    OBVIOUS
  <1>7. \A k \in DOMAIN idx : k \in K <=> idx[k].id \notin Gone
    OBVIOUS
  <1>8. T = {k \in DOMAIN idx : idx[k].status \in Terminal} /\ TP = {m \in DOMAIN P : P[m].status \in Terminal}
    BY DEF TerminalAt
  <1>9. n = Cardinality(T) /\ NumTerminal(P) = Cardinality(TP)
    BY DEF NumTerminal
  <1>d. \A k \in T : k \in D <=> idx[k].id \in Gone
    OBVIOUS
  <1> HIDE DEF ids, Gone, K, P, T, TP, n, D
  <1>10. UniqueIds(P)
    BY <1>2, <1>3, <1>4 DEF UniqueIds
  <1>11. Cardinality(TP) = Cardinality(T \ D)
    <2> DEFINE g == [k \in T \ D |-> PosRank(K, k)]
    <2>1. \A k \in T \ D : k \in K /\ PosRank(K, k) \in TP
      BY <1>2, <1>3, <1>4, <1>7, <1>8, <1>d
    <2>2. g \in [T \ D -> TP]
      BY <2>1
    <2>3. \A k, l \in K : PosRank(K, k) = PosRank(K, l) => k = l
      BY <1>2, <1>6, RankOnto, Zenon
    <2>4. \A k, l \in T \ D : g[k] = g[l] => k = l
      BY <2>1, <2>3
    <2>5. \A m \in TP : \E k \in T \ D : g[k] = m
      <3> SUFFICES ASSUME NEW m \in TP PROVE \E k \in T \ D : g[k] = m
        OBVIOUS
      <3>1. PICK k \in K : PosRank(K, k) = m /\ P[m] = idx[k]
        BY <1>3, <1>4, <1>8
      <3>2. k \in T \ D
        BY <1>2, <1>7, <1>8, <1>d, <3>1
      <3> QED
        BY <3>1, <3>2
    <2>6. IsFiniteSet(T \ D)
      BY <1>1, FS_Difference, Zenon
    <2> HIDE DEF g
    <2>7. Corresponds(g, T \ D, TP)
      BY <2>2, <2>4, <2>5, Zenon DEF Corresponds
    <2> QED
      BY <2>6, <2>7, SameSize, Zenon
  <1>12. IsFiniteSet(D) /\ Cardinality(D) = Len(ids)
    <2> DEFINE h == [k \in D |-> PosRank(T, k)]
    <2>1. \A k, l \in T : PosRank(T, k) = PosRank(T, l) => k = l
      BY <1>2, <1>6, RankOnto, Zenon
    <2>2. ASSUME NEW k \in D PROVE PosRank(T, k) \in DOMAIN ids
      <3>1. PICK i \in DOMAIN ids : idx[k].id = ids[i]
        BY <1>2, <1>5, <1>d
      <3>2. PICK l \in T : PosRank(T, l) = i /\ ids[i] = idx[l].id
        BY <1>1
      <3>3. k = l
        BY <1>2, <3>1, <3>2 DEF UniqueIds
      <3> QED
        BY <3>2, <3>3
    <2>3. h \in [D -> 1..Len(ids)]
      BY <1>5, <2>2
    <2>4. \A k, l \in D : h[k] = h[l] => k = l
      BY <1>2, <2>1
    <2>5. \A i \in 1..Len(ids) : \E k \in D : h[k] = i
      <3> SUFFICES ASSUME NEW i \in 1..Len(ids) PROVE \E k \in D : h[k] = i
        OBVIOUS
      <3>1. PICK k \in T : PosRank(T, k) = i /\ ids[i] = idx[k].id
        BY <1>1, <1>5
      <3>2. k \in D
        BY <1>5, <1>d, <3>1
      <3> QED
        BY <3>1, <3>2
    <2>6. IsFiniteSet(D)
      BY <1>1, <1>2, FS_Subset
    <2> HIDE DEF h
    <2>7. Cardinality(1..Len(ids)) = Cardinality(D)
      <3>1. Corresponds(h, D, 1..Len(ids))
        BY <2>3, <2>4, <2>5, Zenon DEF Corresponds
      <3> QED
        BY <2>6, <3>1, SameSize, Zenon
    <2>8. Cardinality(1..Len(ids)) = IF 1 > Len(ids) THEN 0 ELSE Len(ids) - 1 + 1
      <3>1. Len(ids) \in Int
        BY <1>5
      <3> QED
        BY <3>1, FS_Interval
    <2> QED
      BY <1>5, <2>6, <2>7, <2>8
  <1>13. Cardinality(T \ D) = Cardinality(T) - Cardinality(D)
    <2>1. Cardinality(T \ D) = Cardinality(T) - Cardinality(T \cap D)
      BY <1>1, FS_Difference, Zenon
    <2>2. T \cap D = D
      BY <1>2
    <2> QED
      BY <2>1, <2>2, Zenon
  <1>14. NumTerminal(P) = Least(n, max_results)
    BY <1>0, <1>1, <1>9, <1>11, <1>12, <1>13 DEF Least
  <1>15. \A m \in DOMAIN P : \E k \in DOMAIN idx : P[m] = idx[k] /\ idx[k].id \notin Gone
    BY <1>2, <1>3, <1>4, <1>7
  <1>16. \A k \in DOMAIN idx : idx[k].id \notin Gone => \E m \in DOMAIN P : P[m] = idx[k]
    BY <1>3, <1>4, <1>7
  <1> QED
    BY <1>0, <1>3, <1>10, <1>14, <1>15, <1>16 DEF n, Gone

-----------------------------------------------------------------------------
(* The operations of the store keep its files and its index well-formed.   *)
LEMMA StoreType ==
    ASSUME StoreTypeOK, UniqueIds(index),
           \/ StoreStep \/ StoreFailure \/ StoreCrash \/ UNCHANGED storeVars
           \/ \E t \in Tests, s \in Status : BeginSave(t, s)
    PROVE  StoreTypeOK'
  <1>1. /\ entries \in [Tests -> Status \cup {"absent"}] /\ index \in Seq(TestInfo) /\ doomed \in Seq(Tests)
        /\ save \in [pc : {"idle", "entry", "prune"}, id : Tests, status : Status]
        /\ save.id \in Tests /\ save.status \in Status
    BY DEF StoreTypeOK
  <1>2. Saving \in Seq(TestInfo) /\ UniqueIds(Saving)
    BY <1>1, SavingIs, Zenon
  <1>3. CASE WriteEntry
    <2>1. PruneIds(Saving) \in Seq(Tests)
      BY <1>2, PruneIdsIs
    <2> QED
      BY <1>1, <1>3, <2>1, Zenon DEF WriteEntry, StoreTypeOK, Saving
  <1>4. CASE RemoveFile(TRUE) \/ RemoveFile(FALSE)
    <2>1. Head(doomed) \in Tests /\ Tail(doomed) \in Seq(Tests)
      BY <1>1, <1>4 DEF RemoveFile
    <2> QED
      BY <1>1, <1>4, <2>1, Zenon DEF RemoveFile, StoreTypeOK
  <1>5. CASE WriteIndex
    <2>1. Pruned(Saving) \in Seq(TestInfo)
      BY <1>2, PrunedIs
    <2> QED
      BY <1>1, <1>5, <2>1 DEF WriteIndex, StoreTypeOK, Saving
  <1>6. CASE WriteFails \/ StoreCrash \/ UNCHANGED storeVars
    <2>1. /\ save' \in [pc : {"idle", "entry", "prune"}, id : Tests, status : Status]
          /\ UNCHANGED <<entries, index>> /\ (doomed' = doomed \/ doomed' = <<>>)
      BY <1>1, <1>6 DEF WriteFails, StoreCrash, storeVars
    <2>2. doomed' \in Seq(Tests)
      <3>1. <<>> \in Seq(Tests)
        OBVIOUS
      <3> QED
        BY <1>1, <2>1, <3>1, Zenon
    <2>3. entries' \in [Tests -> Status \cup {"absent"}] /\ index' \in Seq(TestInfo)
      BY <1>1, <2>1
    <2> QED
      BY <2>1, <2>2, <2>3, Zenon DEF StoreTypeOK
  <1>7. CASE \E t \in Tests, s \in Status : BeginSave(t, s)
    BY <1>1, <1>7 DEF BeginSave, StoreTypeOK
  <1> QED
    BY <1>3, <1>4, <1>5, <1>6, <1>7, Zenon DEF StoreStep, StoreFailure

(* The statuses that the code saves.                                       *)
LEMMA Statuses == {"Queued", "Running", "Cancelled", "Completed", "Failed"} = Status /\ Terminal \subseteq Status
  BY DEF Status, Terminal

(* The steps that save a test, and the store.                              *)
LEMMA StoreOfStep ==
    ASSUME TypeOK, UniqueIds(index), running = NoTest => phase = "none", Next
    PROVE  StoreTypeOK'
  <1> DEFINE Ok == \/ StoreStep \/ StoreFailure \/ StoreCrash \/ UNCHANGED storeVars
                   \/ \E t \in Tests, s \in Status : BeginSave(t, s)
  <1>1. StoreTypeOK /\ created \in 0..MaxTests /\ MaxTests \in Nat /\ running \in Tests \cup {NoTest}
    BY StoreAssumption, Zenon DEF TypeOK
  <1>2. ASSUME Api PROVE Ok
    <2>1. CASE create_test
      <3>1. created + 1 \in Tests
        BY <1>1, <2>1 DEF create_test, CreateTest, Tests
      <3> QED
        BY <2>1, <3>1, Statuses DEF create_test, CreateTest
    <2>2. CASE cancel_test
      BY <2>2, Statuses DEF cancel_test, CancelRunning, CancelPending
    <2>3. CASE put_rate \/ put_hold \/ delete_hold \/ put_controller
      BY <2>3, Zenon DEF put_rate, put_hold, delete_hold, put_controller, SendHold, PutController
    <2> QED
      BY <1>2, <2>1, <2>2, <2>3 DEF Api
  <1>3. ASSUME Scheduler PROVE Ok
    <2>1. CASE Dequeue \/ ProcessCommands
      BY <2>1 DEF Dequeue, ProcessCommands
    <2>2. CASE Start \/ TickOver \/ TickCancelled \/ TickContinue \/ AllNodesFailed
      BY <2>2 DEF Start, TickOver, TickCancelled, TickContinue, AllNodesFailed, GoTo
    <2>3. CASE Finish \/ NoNodes \/ SetupFailed
      <3>1. running \in Tests /\ (BeginSave(running, "Completed") \/ BeginSave(running, "Failed"))
        BY <1>1, <1>3, <2>3 DEF Finish, NoNodes, SetupFailed, MarkCompleted
      <3> QED
        BY <3>1, Statuses
    <2> QED
      BY <1>3, <2>1, <2>2, <2>3 DEF Scheduler
  <1>4. ASSUME Disk \/ DiskFails \/ Restart PROVE Ok
    BY <1>4 DEF Disk, DiskFails, Restart
  <1> QED
    BY <1>1, <1>2, <1>3, <1>4, StoreType DEF Next

(* The types of the parts of the state that change together.               *)
ListTyped ==
    /\ created \in 0..MaxTests /\ pending \in Seq(Tests) /\ running \in Tests \cup {NoTest}
    /\ all_tests \in [Tests -> Status \cup {"unknown"}]
HoldTyped == hold_tx \in Seq(Rates \cup {Released}) /\ Len(hold_tx) <= Capacity
RunTyped ==
    /\ phase \in {"none", "starting", "sleeping", "fetching", "ending"} /\ cancel \in 0..1
    /\ hold_state \in Rates \cup {Released} /\ asked \in Rates \cup {Released} /\ holds \in Nat /\ cancels \in Nat
UpdatesTyped == updates \in Seq(Updates) /\ Len(updates) <= Capacity
AnswersTyped == applied \subseteq Updates /\ answer \in [Updates -> {"none", "timeout", "not running"}]
HistoryTyped == blocked \in BOOLEAN /\ failures \in Nat /\ crashes \in Nat /\ stopping \subseteq Tests

(* The parts make up the type invariant.                                   *)
LEMMA TypeParts ==
    /\ TypeOK => StoreTypeOK /\ ListTyped /\ HoldTyped /\ RunTyped /\ UpdatesTyped /\ AnswersTyped /\ HistoryTyped
    /\ (StoreTypeOK /\ ListTyped /\ HoldTyped /\ RunTyped /\ UpdatesTyped /\ AnswersTyped /\ HistoryTyped => TypeOK)'
  BY Zenon DEF TypeOK, ListTyped, HoldTyped, RunTyped, UpdatesTyped, AnswersTyped, HistoryTyped

(* What does not change stays well-typed, and so does an emptied channel.  *)
LEMMA TypeFrames ==
    ASSUME TypeOK
    PROVE  /\ UNCHANGED <<created, pending, running, all_tests>> => ListTyped'
           /\ UNCHANGED hold_tx \/ hold_tx' = <<>> => HoldTyped'
           /\ UNCHANGED <<phase, cancel, hold_state, asked, holds, cancels>> => RunTyped'
           /\ UNCHANGED updates \/ updates' = <<>> => UpdatesTyped'
           /\ UNCHANGED <<applied, answer>> => AnswersTyped'
           /\ UNCHANGED <<blocked, failures, crashes, stopping>> => HistoryTyped'
  <1>1. ListTyped /\ HoldTyped /\ RunTyped /\ UpdatesTyped /\ AnswersTyped /\ HistoryTyped
    BY TypeParts
  <1>2. Capacity \in Nat \ {0}
    BY QueueAssumption DEF QueueAssumption
  <1>3. UNCHANGED <<created, pending, running, all_tests>> => ListTyped'
    BY <1>1 DEF ListTyped
  <1>4. UNCHANGED hold_tx => HoldTyped'
    BY <1>1 DEF HoldTyped
  <1>5. hold_tx' = <<>> => HoldTyped'
    BY <1>2 DEF HoldTyped
  <1>6. UNCHANGED <<phase, cancel, hold_state, asked, holds, cancels>> => RunTyped'
    BY <1>1 DEF RunTyped
  <1>7. UNCHANGED updates => UpdatesTyped'
    BY <1>1 DEF UpdatesTyped
  <1>8. updates' = <<>> => UpdatesTyped'
    BY <1>2 DEF UpdatesTyped
  <1>9. UNCHANGED <<applied, answer>> => AnswersTyped'
    BY <1>1, Zenon DEF AnswersTyped
  <1>10. UNCHANGED <<blocked, failures, crashes, stopping>> => HistoryTyped'
    BY <1>1 DEF HistoryTyped
  <1> QED
    BY <1>3, <1>4, <1>5, <1>6, <1>7, <1>8, <1>9, <1>10

(* The handlers of the API leave the state well-typed.                     *)
LEMMA ApiType ==
    ASSUME LifeInv, Api
    PROVE  TypeOK'
  <1>0. TypeOK /\ UniqueIds(index) /\ (running = NoTest => phase = "none") /\ PendingInOrder /\ pending \in Seq(Tests)
    BY Zenon DEF LifeInv, QueueInv, ListAgrees, DiskShown, TypeOK
  <1>1. StoreTypeOK'
    BY <1>0, StoreOfStep DEF Next
  <1>2. ListTyped /\ HoldTyped /\ RunTyped /\ UpdatesTyped /\ AnswersTyped /\ HistoryTyped
    BY <1>0, TypeParts
  <1>3. /\ UNCHANGED <<created, pending, running, all_tests>> => ListTyped'
        /\ UNCHANGED hold_tx => HoldTyped'
        /\ UNCHANGED <<phase, cancel, hold_state, asked, holds, cancels>> => RunTyped'
        /\ UNCHANGED updates => UpdatesTyped'
        /\ UNCHANGED <<applied, answer>> => AnswersTyped'
        /\ UNCHANGED <<blocked, failures, crashes, stopping>> => HistoryTyped'
    BY <1>0, TypeFrames
  <1>4. CASE CreateTest
    <2>1. created \in Nat /\ MaxTests \in Nat /\ created < MaxTests /\ created' = created + 1
      BY <1>2, <1>4, StoreAssumption DEF CreateTest, ListTyped
    <2>2. created' \in 0..MaxTests /\ created' \in Tests
      BY <2>1 DEF Tests
    <2>3. pending' \in Seq(Tests)
      BY <1>0, <1>4, <2>1, <2>2 DEF CreateTest
    <2>4. all_tests' \in [Tests -> Status \cup {"unknown"}] /\ running' = running
      BY <1>2, <1>4, Statuses, Zenon DEF CreateTest, ListTyped
    <2>5. ListTyped'
      BY <1>2, <2>2, <2>3, <2>4 DEF ListTyped
    <2> QED
      BY <1>1, <1>3, <1>4, <2>5, TypeParts DEF CreateTest, runVars, updateVars, history
  <1>5. ASSUME NEW t \in Tests, CancelPending(t) PROVE TypeOK'
    <2>1. pending' \in Seq(Tests)
      BY <1>0, <1>5, WithoutIs DEF CancelPending, MayCancel
    <2>2. all_tests' \in [Tests -> Status \cup {"unknown"}] /\ running' = running /\ created' = created
      BY <1>2, <1>5, Statuses DEF CancelPending, ListTyped
    <2>3. ListTyped'
      BY <1>2, <2>1, <2>2 DEF ListTyped
    <2> QED
      BY <1>1, <1>3, <1>5, <2>3, TypeParts DEF CancelPending, runVars, updateVars, history
  <1>6. CASE CancelRunning
    <2>1. RunTyped'
      BY <1>2, <1>6 DEF CancelRunning, RunTyped
    <2>2. HistoryTyped'
      BY <1>2, <1>6, Zenon DEF CancelRunning, HistoryTyped, ListTyped
    <2> QED
      BY <1>1, <1>3, <1>6, <2>1, <2>2, TypeParts DEF CancelRunning, updateVars
  <1>7. ASSUME NEW c \in Rates \cup {Released}, SendHold(c) PROVE TypeOK'
    <2>1. hold_tx' = Append(hold_tx, c) /\ Len(hold_tx) < Capacity /\ Capacity \in Nat
      BY <1>7, QueueAssumption DEF SendHold, HoldHasRoom, QueueAssumption
    <2>2. HoldTyped'
      <3>1. \A S : \A q \in Seq(S), x \in S : Append(q, x) \in Seq(S) /\ Len(Append(q, x)) = Len(q) + 1 /\ Len(q) \in Nat
        OBVIOUS
      <3>2. hold_tx' \in Seq(Rates \cup {Released}) /\ Len(hold_tx') = Len(hold_tx) + 1 /\ Len(hold_tx) \in Nat
        BY <1>2, <2>1, <3>1, Zenon DEF HoldTyped
      <3> QED
        BY <2>1, <3>2 DEF HoldTyped
    <2>3. RunTyped'
      BY <1>2, <1>7 DEF SendHold, RunTyped
    <2> QED
      BY <1>1, <1>3, <1>7, <2>2, <2>3, TypeParts DEF SendHold, updateVars, history
  <1>8. ASSUME NEW u \in Updates, PutController(u) PROVE TypeOK'
    <2>1. UpdatesTyped'
      <3>1. \A S : \A q \in Seq(S), x \in S : Append(q, x) \in Seq(S) /\ Len(Append(q, x)) = Len(q) + 1 /\ Len(q) \in Nat
        OBVIOUS
      <3>2. CASE updates' = Append(updates, u) /\ Len(updates) < Capacity
        <4>1. updates' \in Seq(Updates) /\ Len(updates') = Len(updates) + 1 /\ Len(updates) \in Nat
          BY <1>2, <3>1, <3>2, Zenon DEF UpdatesTyped
        <4> QED
          BY <3>2, <4>1, QueueAssumption DEF UpdatesTyped, QueueAssumption
      <3> QED
        BY <1>3, <1>8, <3>2, Zenon DEF PutController
    <2>2. AnswersTyped'
      BY <1>2, <1>8, Zenon DEF PutController, AnswersTyped
    <2> QED
      BY <1>1, <1>3, <1>8, <2>1, <2>2, TypeParts, Zenon DEF PutController, runVars, history
  <1> QED
    BY <1>4, <1>5, <1>6, <1>7, <1>8
       DEF Api, create_test, cancel_test, put_rate, put_hold, delete_hold, put_controller

(* So do the scheduler, the store and a restart.                           *)
LEMMA SchedulerType ==
    ASSUME LifeInv, Scheduler \/ Disk \/ DiskFails \/ Restart \/ UNCHANGED vars
    PROVE  TypeOK'
  <1>0. TypeOK /\ UniqueIds(index) /\ (running = NoTest => phase = "none") /\ PendingInOrder /\ pending \in Seq(Tests)
    BY Zenon DEF LifeInv, QueueInv, ListAgrees, DiskShown, TypeOK
  <1>1. StoreTypeOK'
    <2>1. CASE UNCHANGED vars
      BY <1>0, <2>1, StoreType, TypeParts DEF vars, storeVars
    <2>2. CASE Next
      BY <1>0, <2>2, StoreOfStep
    <2> QED
      BY <2>1, <2>2 DEF Next
  <1>2. StoreTypeOK /\ ListTyped /\ HoldTyped /\ RunTyped /\ UpdatesTyped /\ AnswersTyped /\ HistoryTyped
    BY <1>0, TypeParts
  <1>3. /\ UNCHANGED <<created, pending, running, all_tests>> => ListTyped'
        /\ UNCHANGED hold_tx \/ hold_tx' = <<>> => HoldTyped'
        /\ UNCHANGED <<phase, cancel, hold_state, asked, holds, cancels>> => RunTyped'
        /\ UNCHANGED updates \/ updates' = <<>> => UpdatesTyped'
        /\ UNCHANGED <<applied, answer>> => AnswersTyped'
        /\ UNCHANGED <<blocked, failures, crashes, stopping>> => HistoryTyped'
    BY <1>0, TypeFrames
  <1>4. CASE Dequeue
    <2>1. NextTest \in Range(pending) /\ NextTest \in Tests
      BY <1>0, <1>4 DEF Dequeue, NextTest, Range
    <2>2. pending' \in Seq(Tests)
      BY <1>0, <1>4, <2>1, WithoutIs DEF Dequeue
    <2> HIDE DEF NextTest
    <2>3. all_tests' \in [Tests -> Status \cup {"unknown"}] /\ running' \in Tests /\ created' = created
      BY <1>2, <1>4, <2>1, Statuses DEF Dequeue, ListTyped
    <2>4. ListTyped'
      BY <1>2, <2>2, <2>3 DEF ListTyped
    <2>5. RunTyped'
      BY <1>4 DEF Dequeue, RunTyped
    <2> QED
      BY <1>1, <1>3, <1>4, <2>4, <2>5, TypeParts DEF Dequeue, history
  <1>5. CASE Start \/ TickOver \/ TickCancelled \/ TickContinue \/ AllNodesFailed
    <2>1. RunTyped'
      BY <1>2, <1>5 DEF Start, TickOver, TickCancelled, TickContinue, AllNodesFailed, GoTo, RunTyped
    <2> QED
      BY <1>1, <1>3, <1>5, <2>1, TypeParts, Zenon
         DEF Start, TickOver, TickCancelled, TickContinue, AllNodesFailed, GoTo, updateVars, history
  <1>6. CASE ProcessCommands
    <2>1. hold_tx # <<>> => LastCommand \in Rates \cup {Released}
      <3>1. \A S : \A q \in Seq(S) : q # <<>> => q[Len(q)] \in S
        OBVIOUS
      <3> QED
        BY <1>2, <3>1, Zenon DEF LastCommand, HoldTyped
    <2>2. Range(updates) \subseteq Updates
      <3>1. \A S : \A q \in Seq(S) : \A i \in DOMAIN q : q[i] \in S
        OBVIOUS
      <3> QED
        BY <1>2, <3>1, Zenon DEF Range, UpdatesTyped
    <2>3. RunTyped'
      BY <1>2, <1>6, <2>1 DEF ProcessCommands, RunTyped
    <2>4. AnswersTyped'
      BY <1>2, <1>6, <2>2, Zenon DEF ProcessCommands, AnswersTyped
    <2> QED
      BY <1>1, <1>3, <1>6, <2>3, <2>4, TypeParts DEF ProcessCommands, history
  <1>7. ASSUME NEW s \in Status, MarkCompleted(s) PROVE TypeOK'
    <2>1. ListTyped'
      BY <1>2, <1>7, Zenon DEF MarkCompleted, ClearRunning, ListTyped
    <2>2. RunTyped'
      BY <1>2, <1>7 DEF MarkCompleted, RunTyped
    <2> QED
      BY <1>1, <1>3, <1>7, <2>1, <2>2, TypeParts DEF MarkCompleted, history
  <1>8. CASE Disk \/ DiskFails
    <2>1. HistoryTyped'
      BY <1>2, <1>8 DEF Disk, DiskFails, queueVars, history, HistoryTyped
    <2> QED
      BY <1>1, <1>3, <1>8, <2>1, TypeParts, Zenon DEF Disk, DiskFails, queueVars, runVars, updateVars
  <1>9. CASE Restart
    <2>1. all_tests' \in [Tests -> Status \cup {"unknown"}]
      <3>1. ASSUME NEW t, \E k \in DOMAIN index : index[k].id = t
            PROVE  (CHOOSE i \in Range(index) : i.id = t).status \in Status
        <4>1. \E i \in Range(index) : i.id = t
          BY <3>1 DEF Range
        <4>2. Range(index) \subseteq TestInfo
          BY <1>2 DEF Range, StoreTypeOK
        <4>3. (CHOOSE i \in Range(index) : i.id = t) \in TestInfo
          BY <4>1, <4>2
        <4> QED
          BY <4>3 DEF TestInfo
      <3> QED
        BY <1>9, <3>1, Zenon DEF Restart
    <2>2. pending' = <<>> /\ running' = NoTest /\ created' = created /\ <<>> \in Seq(Tests)
      BY <1>9 DEF Restart
    <2>3. ListTyped'
      BY <1>2, <2>1, <2>2 DEF ListTyped
    <2>4. RunTyped'
      BY <1>9 DEF Restart, RunTyped
    <2>5. HistoryTyped'
      <3>1. blocked' = FALSE /\ crashes' = crashes + 1 /\ UNCHANGED <<failures, stopping>>
        BY <1>9 DEF Restart
      <3>2. crashes' \in Nat
        BY <1>2, <3>1 DEF HistoryTyped
      <3> QED
        BY <1>2, <3>1, <3>2, Zenon DEF HistoryTyped
    <2> QED
      BY <1>1, <1>3, <1>9, <2>3, <2>4, <2>5, TypeParts DEF Restart
  <1>10. CASE UNCHANGED vars
    BY <1>1, <1>3, <1>10, TypeParts DEF vars
  <1> QED
    BY <1>4, <1>5, <1>6, <1>7, <1>8, <1>9, <1>10, Statuses DEF Scheduler, Finish, NoNodes, SetupFailed

-----------------------------------------------------------------------------
(* What a step does to the list: nothing, or one of five changes.          *)
Quiet ==
    /\ UNCHANGED <<created, pending, running, all_tests, crashes>>
    /\ phase' = "none" <=> phase = "none"

Ends(status) == phase # "none" /\ MarkCompleted(status)

(* Every step of the daemon is one of these.                               *)
LEMMA StepKinds ==
    ASSUME Next \/ UNCHANGED vars
    PROVE  \/ Quiet /\ UNCHANGED storeVars
           \/ Quiet /\ StoreStep
           \/ Quiet /\ StoreFailure /\ DiskFails
           \/ CreateTest
           \/ \E t \in Tests : CancelPending(t)
           \/ Dequeue
           \/ \E s \in {"Completed", "Failed"} : Ends(s)
           \/ Restart
  <1>1. ASSUME Api PROVE (Quiet /\ UNCHANGED storeVars) \/ CreateTest \/ \E t \in Tests : CancelPending(t)
    <2>1. CancelRunning => Quiet /\ UNCHANGED storeVars
      BY Zenon DEF CancelRunning, Quiet, storeVars, updateVars
    <2>2. \A c : SendHold(c) => Quiet /\ UNCHANGED storeVars
      BY Zenon DEF SendHold, Quiet, storeVars, updateVars, history
    <2>3. \A u \in Updates : PutController(u) => Quiet /\ UNCHANGED storeVars
      BY Zenon DEF PutController, Quiet, storeVars, runVars, history
    <2> QED
      BY <1>1, <2>1, <2>2, <2>3, Zenon
         DEF Api, create_test, cancel_test, put_rate, put_hold, delete_hold, put_controller
  <1>2. ASSUME Scheduler
        PROVE  (Quiet /\ UNCHANGED storeVars) \/ Dequeue \/ \E s \in {"Completed", "Failed"} : Ends(s)
    <2>1. \A from, to : from # "none" /\ to # "none" /\ GoTo(from, to) => Quiet /\ UNCHANGED storeVars
      BY Zenon DEF GoTo, Quiet, storeVars, updateVars, history
    <2>2. ProcessCommands => Quiet /\ UNCHANGED storeVars
      BY Zenon DEF ProcessCommands, Quiet, storeVars, history
    <2>3. Start \/ TickOver \/ TickCancelled \/ TickContinue \/ AllNodesFailed => Quiet /\ UNCHANGED storeVars
      <3>1. "starting" # "none" /\ "sleeping" # "none" /\ "fetching" # "none" /\ "ending" # "none"
        OBVIOUS
      <3> QED
        BY <2>1, <3>1, Zenon DEF Start, TickOver, TickCancelled, TickContinue, AllNodesFailed
    <2>4. Finish \/ NoNodes \/ SetupFailed => \E s \in {"Completed", "Failed"} : Ends(s)
      BY Zenon DEF Finish, NoNodes, SetupFailed, Ends
    <2> QED
      BY <1>2, <2>2, <2>3, <2>4, Zenon DEF Scheduler
  <1>3. Disk => Quiet /\ StoreStep
    BY Zenon DEF Disk, Quiet, queueVars, runVars, history
  <1>4. DiskFails => Quiet /\ StoreFailure
    BY Zenon DEF DiskFails, Quiet, queueVars, runVars
  <1>5. UNCHANGED vars => Quiet /\ UNCHANGED storeVars
    BY Zenon DEF vars, Quiet, storeVars
  <1> QED
    BY <1>1, <1>2, <1>3, <1>4, <1>5, Zenon DEF Next

ListInv == ListAgrees /\ PendingInOrder /\ NothingAhead

(* The types that the proofs about the list use.                           *)
LEMMA ListFacts ==
    ASSUME TypeOK, PendingInOrder
    PROVE  /\ created \in Nat /\ MaxTests \in Nat /\ created <= MaxTests
           /\ Tests \subseteq Nat \ {0} /\ NoTest \notin Tests
           /\ pending \in Seq(Tests) /\ DOMAIN pending = 1..Len(pending) /\ Len(pending) \in Nat
           /\ Range(pending) \subseteq Tests
           /\ \A t \in Range(pending) : t <= created
           /\ all_tests \in [Tests -> Status \cup {"unknown"}]
           /\ running \in Tests \cup {NoTest}
  <1>1. created \in 0..MaxTests /\ pending \in Seq(Tests) /\ all_tests \in [Tests -> Status \cup {"unknown"}]
        /\ running \in Tests \cup {NoTest} /\ MaxTests \in Nat
    BY StoreAssumption, Zenon DEF TypeOK
  <1>2. Tests \subseteq Nat \ {0} /\ NoTest \notin Tests
    BY <1>1 DEF Tests, NoTest
  <1>3. DOMAIN pending = 1..Len(pending) /\ Len(pending) \in Nat /\ \A k \in DOMAIN pending : pending[k] \in Tests
    BY <1>1
  <1>4. Range(pending) \subseteq Tests /\ \A t \in Range(pending) : t <= created
    BY <1>3, Zenon DEF Range, PendingInOrder
  <1>5. created \in Nat /\ created <= MaxTests
    BY <1>1
  <1> QED
    BY <1>1, <1>2, <1>3, <1>4, <1>5, Zenon

(* A queue in order holds a test once.                                     *)
LEMMA OrderUnique ==
    ASSUME NEW q \in Seq(Tests), \A k, l \in DOMAIN q : k < l => q[k] < q[l]
    PROVE  \A k, l \in DOMAIN q : q[k] = q[l] => k = l
  <1>1. DOMAIN q \subseteq Nat /\ \A k \in DOMAIN q : q[k] \in Nat
    BY StoreAssumption DEF Tests
  <1> QED
    BY <1>1

(* POST /tests: the new test is the last of the queue.                     *)
LEMMA CreateList ==
    ASSUME TypeOK, ListInv, CreateTest
    PROVE  ListInv' /\ created + 1 \in Tests /\ Life!Accept(created + 1)
  <1> DEFINE t == created + 1
  <1>0. /\ created \in Nat /\ MaxTests \in Nat /\ created <= MaxTests
        /\ pending \in Seq(Tests) /\ Range(pending) \subseteq Tests /\ \A u \in Range(pending) : u <= created
        /\ all_tests \in [Tests -> Status \cup {"unknown"}] /\ running \in Tests \cup {NoTest} /\ NoTest \notin Tests
        /\ DOMAIN pending = 1..Len(pending) /\ Len(pending) \in Nat
    BY ListFacts, Zenon DEF ListInv
  <1>1. /\ created < MaxTests /\ created' = t /\ pending' = Append(pending, t)
        /\ all_tests' = [all_tests EXCEPT ![t] = "Queued"] /\ UNCHANGED <<running, phase, crashes>>
    BY Zenon DEF CreateTest, runVars, history
  <1>2. t \in Tests /\ t > created
    BY <1>0, <1>1 DEF Tests
  <1>3. /\ pending' \in Seq(Tests) /\ DOMAIN pending' = 1..(Len(pending) + 1)
        /\ pending'[Len(pending) + 1] = t /\ \A k \in DOMAIN pending : pending'[k] = pending[k]
    BY <1>0, <1>1, <1>2, Appended, ZenonT(30)
  <1>4. all_tests[t] = "unknown"
    BY <1>2, Zenon DEF ListInv, NothingAhead
  <1>5. \A u \in Tests : all_tests'[u] = IF u = t THEN "Queued" ELSE all_tests[u]
    BY <1>0, <1>1, Zenon
  <1> HIDE DEF t
  <1>6. Range(pending') = Range(pending) \cup {t}
    <2>1. DOMAIN pending' = DOMAIN pending \cup {Len(pending) + 1}
      BY <1>0, <1>3
    <2>2. Range(pending') = {pending'[k] : k \in DOMAIN pending \cup {Len(pending) + 1}}
      BY <2>1, Zenon DEF Range
    <2>3. \A x : x \in Range(pending') => x \in Range(pending) \cup {t}
      BY <1>3, <2>2, Zenon DEF Range
    <2>4. \A x : x \in Range(pending) \cup {t} => x \in Range(pending')
      BY <1>3, <2>2, Zenon DEF Range
    <2> QED
      BY <2>3, <2>4, Zenon
  <1>7. PendingInOrder'
    <2>1. \A k, l \in DOMAIN pending' : k < l => pending'[k] < pending'[l]
      <3> SUFFICES ASSUME NEW k \in DOMAIN pending', NEW l \in DOMAIN pending', k < l PROVE pending'[k] < pending'[l]
        OBVIOUS
      <3>1. k \in DOMAIN pending /\ pending'[k] = pending[k] /\ pending[k] <= created /\ pending[k] \in Nat
        <4>1. k \in DOMAIN pending
          BY <1>0, <1>3
        <4>2. pending[k] \in Tests /\ pending[k] <= created
          BY <1>0, <4>1, Zenon DEF Range
        <4> QED
          BY <1>0, <1>3, <4>1, <4>2 DEF Tests
      <3>2. CASE l \in DOMAIN pending
        BY <1>3, <3>1, <3>2 DEF ListInv, PendingInOrder
      <3>3. CASE l = Len(pending) + 1
        BY <1>0, <1>2, <1>3, <3>1, <3>3 DEF Tests
      <3> QED
        BY <1>0, <1>3, <3>2, <3>3
    <2>2. \A u \in Range(pending') : u <= created'
      BY <1>0, <1>1, <1>2, <1>6 DEF t, Tests
    <2>3. \A k \in DOMAIN pending' : pending'[k] <= created'
      BY <2>2, Zenon DEF Range
    <2> QED
      BY <2>1, <2>3, Zenon DEF PendingInOrder
  <1>8. NothingAhead'
    <2>1. \A u \in Tests : u > created' => u > created /\ u # t
      BY <1>0, <1>1, <1>2 DEF t, Tests
    <2> QED
      BY <1>5, <2>1, Zenon DEF NothingAhead, ListInv
  <1>9. ListAgrees'
    <2>1. \A k, l \in DOMAIN pending' : pending'[k] = pending'[l] => k = l
      BY <1>3, <1>7, OrderUnique, Zenon DEF PendingInOrder
    <2>2. "Queued" # "Running" /\ "unknown" # "Running"
      OBVIOUS
    <2> QED
      BY <1>0, <1>1, <1>2, <1>4, <1>5, <1>6, <2>1, <2>2, Zenon DEF ListAgrees, ListInv
  <1>10. Life!Accept(t)
    <2>1. \A u \in Range(pending) : u < t
      BY <1>0, <1>2 DEF Tests
    <2> QED
      BY <1>1, <1>4, <1>6, <2>1, Zenon DEF Life!Accept
  <1> QED
    BY <1>2, <1>7, <1>8, <1>9, <1>10, Zenon DEF ListInv, t

(* A test that leaves the queue: it is withdrawn, or it is its turn.       *)
LEMMA LeaveList ==
    ASSUME TypeOK, ListInv, NEW t \in Range(pending), pending' = Without(t), UNCHANGED <<created, crashes>>,
           NEW s \in {"Cancelled", "Running"}, all_tests' = [all_tests EXCEPT ![t] = s],
           \/ s = "Cancelled" /\ UNCHANGED <<running, phase>>
           \/ s = "Running" /\ running = NoTest /\ running' = t /\ phase' # "none"
    PROVE  ListInv' /\ Range(pending)' = Range(pending) \ {t}
  <1>0. /\ pending \in Seq(Tests) /\ Range(pending) \subseteq Tests /\ \A u \in Range(pending) : u <= created
        /\ all_tests \in [Tests -> Status \cup {"unknown"}] /\ running \in Tests \cup {NoTest} /\ NoTest \notin Tests
        /\ created \in Nat /\ Tests \subseteq Nat \ {0}
    BY ListFacts, Zenon DEF ListInv
  <1>1. /\ pending' \in Seq(Tests) /\ Range(pending') = Range(pending) \ {t}
        /\ \A k, l \in DOMAIN pending' : k < l => pending'[k] < pending'[l]
    BY <1>0, WithoutIs, Zenon DEF ListInv
  <1>2. \A u \in Tests : all_tests'[u] = IF u = t THEN s ELSE all_tests[u]
    BY <1>0, Zenon
  <1>3. PendingInOrder'
    <2>1. \A k \in DOMAIN pending' : pending'[k] \in Range(pending)
      BY <1>1, Zenon DEF Range
    <2> QED
      BY <1>0, <1>1, <2>1, Zenon DEF PendingInOrder
  <1>4. NothingAhead'
    <2>1. \A u \in Tests : u > created => u # t
      BY <1>0
    <2> QED
      BY <1>2, <2>1, Zenon DEF NothingAhead, ListInv
  <1>5. ListAgrees'
    <2>1. \A k, l \in DOMAIN pending' : pending'[k] = pending'[l] => k = l
      BY <1>1, OrderUnique, Zenon
    <2>2. "Queued" # "Running" /\ "Cancelled" # "Running" /\ "Cancelled" # "Queued"
      OBVIOUS
    <2>3. t \in Tests /\ all_tests[t] = "Queued" /\ t # NoTest
      BY <1>0, Zenon DEF ListAgrees, ListInv
    <2>4. \A u \in Range(pending') : all_tests'[u] = "Queued"
      BY <1>0, <1>1, <1>2, Zenon DEF ListAgrees, ListInv
    <2>5. crashes' = 0 => \A u \in Tests : all_tests'[u] = "Queued" => u \in Range(pending')
      BY <1>1, <1>2, <2>2, Zenon DEF ListAgrees, ListInv
    <2>6. \A u \in Tests : all_tests'[u] = "Running" <=> running' = u
      BY <1>0, <1>2, <2>2, <2>3, Zenon DEF ListAgrees, ListInv
    <2>7. running' = NoTest <=> phase' = "none"
      BY <2>2, <2>3, Zenon DEF ListAgrees, ListInv
    <2> QED
      BY <2>1, <2>4, <2>5, <2>6, <2>7, Zenon DEF ListAgrees
  <1> QED
    BY <1>1, <1>3, <1>4, <1>5, Zenon DEF ListInv

(* DELETE /tests/{id} of a waiting test withdraws it.                      *)
LEMMA CancelList ==
    ASSUME TypeOK, ListInv, NEW t \in Tests, CancelPending(t)
    PROVE  ListInv' /\ Life!Withdraw(t)
  <1>1. /\ t \in Range(pending) /\ pending' = Without(t) /\ UNCHANGED <<created, crashes, running, phase>>
        /\ all_tests' = [all_tests EXCEPT ![t] = "Cancelled"]
    BY Zenon DEF CancelPending, MayCancel, runVars, history
  <1>2. ListInv' /\ Range(pending)' = Range(pending) \ {t}
    BY <1>1, LeaveList, Zenon
  <1> QED
    BY <1>1, <1>2, Zenon DEF Life!Withdraw

(* try_dequeue takes the oldest test that waits, when none runs.           *)
LEMMA DequeueList ==
    ASSUME TypeOK, ListInv, Dequeue
    PROVE  ListInv' /\ Head(pending) \in Tests /\ Life!Run(Head(pending))
  <1> DEFINE t == Head(pending)
  <1>0. /\ pending \in Seq(Tests) /\ Range(pending) \subseteq Tests /\ Tests \subseteq Nat \ {0}
        /\ DOMAIN pending = 1..Len(pending) /\ Len(pending) \in Nat /\ NoTest \notin Tests
    BY ListFacts, Zenon DEF ListInv
  <1>1. /\ running = NoTest /\ pending # <<>> /\ running' = t /\ pending' = Without(t)
        /\ all_tests' = [all_tests EXCEPT ![t] = "Running"] /\ phase' = "starting"
        /\ UNCHANGED <<created, crashes>>
    BY Zenon DEF Dequeue, NextTest, history
  <1>2. 1 \in DOMAIN pending /\ t = pending[1]
    BY <1>0, <1>1
  <1>3. t \in Range(pending)
    BY <1>2, Zenon DEF Range
  <1>4. \A u \in Range(pending) : t <= u
    <2> SUFFICES ASSUME NEW k \in DOMAIN pending PROVE t <= pending[k]
      BY Zenon DEF Range
    <2>1. k = 1 \/ 1 < k
      BY <1>0
    <2>2. 1 < k => t < pending[k]
      BY <1>2, Zenon DEF ListInv, PendingInOrder
    <2>3. t \in Nat /\ pending[k] \in Nat
      <3>1. pending[k] \in Range(pending)
        BY Zenon DEF Range
      <3>2. Range(pending) \subseteq Nat
        BY <1>0, Zenon
      <3> QED
        BY <1>3, <3>1, <3>2, Zenon
    <2> QED
      BY <1>2, <2>1, <2>2, <2>3
  <1> HIDE DEF t
  <1>5. "starting" # "none"
    OBVIOUS
  <1>6. ListInv' /\ Range(pending)' = Range(pending) \ {t}
    BY <1>1, <1>3, <1>5, LeaveList, Zenon
  <1>7. \A u \in Tests : all_tests[u] # "Running"
    BY <1>0, <1>1, Zenon DEF ListInv, ListAgrees
  <1>8. Life!Run(t)
    BY <1>1, <1>3, <1>4, <1>6, <1>7, Zenon DEF Life!Run
  <1> QED
    BY <1>0, <1>3, <1>6, <1>8, Zenon DEF t

(* mark_completed ends the running test.                                   *)
LEMMA EndList ==
    ASSUME TypeOK, ListInv, NEW s \in {"Completed", "Failed"}, Ends(s)
    PROVE  ListInv' /\ running \in Tests /\ Life!End(running)
  <1>0. /\ all_tests \in [Tests -> Status \cup {"unknown"}] /\ running \in Tests \cup {NoTest} /\ NoTest \notin Tests
        /\ created \in Nat
    BY ListFacts, Zenon DEF ListInv
  <1>1. /\ phase # "none" /\ running' = NoTest /\ all_tests' = [all_tests EXCEPT ![running] = s] /\ phase' = "none"
        /\ UNCHANGED <<created, pending, crashes>>
    BY Zenon DEF Ends, MarkCompleted, ClearRunning, history
  <1>2. running \in Tests /\ all_tests[running] = "Running"
    BY <1>0, <1>1, Zenon DEF ListInv, ListAgrees
  <1>3. \A u \in Tests : all_tests'[u] = IF u = running THEN s ELSE all_tests[u]
    BY <1>0, <1>1, Zenon
  <1>4. s # "Running" /\ s # "Queued" /\ "Running" # "Queued" /\ "Running" # "unknown"
    OBVIOUS
  <1>5. PendingInOrder'
    BY <1>1, Zenon DEF ListInv, PendingInOrder
  <1>6. NothingAhead'
    BY <1>1, <1>2, <1>3, <1>4, Zenon DEF ListInv, NothingAhead
  <1>7. ListAgrees'
    <2>1. \A u \in Range(pending) : u # running /\ u \in Tests
      <3>1. Range(pending) \subseteq Tests
        BY ListFacts, Zenon DEF ListInv
      <3> QED
        BY <1>2, <1>4, <3>1, Zenon DEF ListInv, ListAgrees
    <2>2. \A u \in Tests : all_tests'[u] = "Running" <=> running' = u
      BY <1>0, <1>1, <1>2, <1>3, <1>4, Zenon DEF ListInv, ListAgrees
    <2>3. \A u \in Range(pending) : all_tests'[u] = "Queued"
      BY <1>3, <2>1, Zenon DEF ListInv, ListAgrees
    <2>4. crashes = 0 => \A u \in Tests : all_tests'[u] = "Queued" => u \in Range(pending)
      BY <1>3, <1>4, Zenon DEF ListInv, ListAgrees
    <2> QED
      BY <1>1, <2>2, <2>3, <2>4, Zenon DEF ListInv, ListAgrees
  <1>8. Life!End(running)
    BY <1>1, <1>2, Zenon DEF Life!End
  <1> QED
    BY <1>2, <1>5, <1>6, <1>7, <1>8, Zenon DEF ListInv

(* The list of a daemon that starts is what the index says.                *)
LEMMA RestartList ==
    ASSUME TypeOK, TypeOK', ListInv, DiskShown, Restart
    PROVE  /\ ListInv' /\ Life!Forget
           /\ \A k \in DOMAIN index : all_tests'[index[k].id] = index[k].status
           /\ \A t \in Tests : all_tests'[t] # "unknown" => \E k \in DOMAIN index : index[k].id = t
  <1>0. index \in Seq(TestInfo) /\ created \in Nat /\ MaxTests \in Nat /\ NoTest \notin Tests
    BY ListFacts, Zenon DEF TypeOK, StoreTypeOK, ListInv
  <1>1. /\ pending' = <<>> /\ running' = NoTest /\ phase' = "none" /\ created' = created
        /\ crashes' = crashes + 1 /\ crashes \in Nat
        /\ all_tests' = [t \in Tests |-> IF \E k \in DOMAIN index : index[k].id = t
                                         THEN (CHOOSE i \in Range(index) : i.id = t).status ELSE "unknown"]
    BY Zenon DEF Restart, TypeOK
  <1>2. \A k \in DOMAIN index : index[k].id \in Tests /\ index[k].status \in Status
    <2>1. \A k \in DOMAIN index : index[k] \in TestInfo
      BY <1>0
    <2>2. \A i \in TestInfo : i.id \in Tests /\ i.status \in Status
      BY DEF TestInfo
    <2> QED
      BY <2>1, <2>2, Zenon
  <1>3. ASSUME NEW k \in DOMAIN index PROVE all_tests'[index[k].id] = index[k].status
    <2>1. \A i \in Range(index) : i.id = index[k].id => i = index[k]
      BY Zenon DEF DiskShown, UniqueIds, Range
    <2>2. index[k] \in Range(index)
      BY Zenon DEF Range
    <2>3. (CHOOSE i \in Range(index) : i.id = index[k].id) = index[k]
      BY <2>1, <2>2, Zenon
    <2> QED
      BY <1>1, <1>2, <2>3, Zenon
  <1>4. \A t \in Tests : (~\E k \in DOMAIN index : index[k].id = t) => all_tests'[t] = "unknown"
    BY <1>1, Zenon
  <1>5. ASSUME NEW t \in Tests
        PROVE  \/ all_tests'[t] = "unknown"
               \/ /\ all_tests[t] # "unknown" /\ all_tests'[t] \in {"Queued", all_tests[t]}
                  /\ all_tests'[t] # "Running"
    <2>1. CASE \E k \in DOMAIN index : index[k].id = t
      <3>1. PICK k \in DOMAIN index : index[k].id = t
        BY <2>1
      <3> QED
        BY <1>3, <3>1, Zenon DEF DiskShown, Shown
    <2>2. CASE ~\E k \in DOMAIN index : index[k].id = t
      BY <1>4, <2>2, Zenon
    <2> QED
      BY <2>1, <2>2, Zenon
  <1>6. DOMAIN pending' = {} /\ Range(pending') = {} /\ crashes' # 0
    BY <1>1 DEF Range
  <1>7. PendingInOrder'
    BY <1>6, Zenon DEF PendingInOrder
  <1>8. NothingAhead'
    BY <1>1, <1>5, Zenon DEF ListInv, NothingAhead
  <1>9. ListAgrees'
    <2>1. \A t \in Tests : all_tests'[t] # "Running"
      BY <1>5
    <2> QED
      BY <1>0, <1>1, <1>6, <2>1, Zenon DEF ListAgrees
  <1>10. Life!Forget
    <2>1. all_tests' \in [Tests -> Status \cup {"unknown"}]
      BY Zenon DEF TypeOK
    <2>2. \A t \in Tests : all_tests'[t] \in {"Completed", "Failed", "Cancelled", "unknown", "Queued"}
      BY <1>5, <2>1 DEF Status, Terminal
    <2>3. all_tests' \in [Tests -> Life!Ended \cup {"unknown", "Queued"}]
      BY <2>1, <2>2 DEF Life!Ended
    <2>4. \A t \in Tests : \/ all_tests'[t] \in {all_tests[t], "unknown"}
                           \/ all_tests'[t] = "Queued" /\ all_tests[t] # "unknown"
      BY <1>5, Zenon
    <2> QED
      BY <1>6, <2>3, <2>4, Zenon DEF Life!Forget
  <1> QED
    BY <1>3, <1>4, <1>7, <1>8, <1>9, <1>10, Zenon DEF ListInv

-----------------------------------------------------------------------------
(* While the daemon runs, a status that may be on disk may stay there.     *)
LEMMA ShownKept ==
    ASSUME NEW t \in Tests, NEW s \in Status, NEW x \in Tests, NEW st, Shown(x, st),
           all_tests \in [Tests -> Status \cup {"unknown"}], all_tests' = [all_tests EXCEPT ![t] = s],
           \/ all_tests[t] \in {"unknown", "Queued"}
           \/ all_tests[t] = "Running" /\ s # "Running"
    PROVE  Shown(x, st)'
  <1>1. s # "unknown" /\ "Queued" # "Running" /\ "Queued" # "unknown"
    BY DEF Status, Terminal
  <1>2. CASE x # t
    <2>1. all_tests'[x] = all_tests[x]
      BY <1>2, Zenon
    <2> QED
      BY <2>1, Zenon DEF Shown
  <1>3. CASE x = t
    <2>1. all_tests'[x] = s
      BY <1>3, Zenon
    <2>2. st = "Queued"
      BY <1>3, Zenon DEF Shown
    <2> QED
      BY <1>1, <2>1, <2>2, Zenon DEF Shown
  <1> QED
    BY <1>2, <1>3, Zenon

(* The steps that change the list leave the index alone.                   *)
LEMMA DiskFrame ==
    ASSUME TypeOK, DiskShown, UNCHANGED index, NEW t \in Tests, NEW s \in Status,
           all_tests' = [all_tests EXCEPT ![t] = s],
           \/ all_tests[t] \in {"unknown", "Queued"}
           \/ all_tests[t] = "Running" /\ s # "Running",
           save'.pc # "idle" => save'.id = t /\ save'.status = s /\ s # "Running"
    PROVE  DiskShown'
  <1>1. all_tests \in [Tests -> Status \cup {"unknown"}] /\ index \in Seq(TestInfo)
    BY Zenon DEF TypeOK, StoreTypeOK
  <1>2. \A k \in DOMAIN index : index[k].id \in Tests
    <2>1. \A k \in DOMAIN index : index[k] \in TestInfo
      BY <1>1
    <2>2. \A i \in TestInfo : i.id \in Tests
      BY DEF TestInfo
    <2> QED
      BY <2>1, <2>2, Zenon
  <1>3. ASSUME NEW k \in DOMAIN index PROVE Shown(index[k].id, index[k].status)'
    <2>1. PICK x \in Tests : x = index[k].id
      BY <1>2
    <2>2. PICK st : st = index[k].status
      OBVIOUS
    <2>3. Shown(x, st)
      BY <2>1, <2>2, Zenon DEF DiskShown
    <2>4. Shown(x, st)'
      BY <1>1, <2>3, ShownKept, Zenon
    <2>5. index'[k].id = x /\ index'[k].status = st
      BY <2>1, <2>2, Zenon
    <2> QED
      BY <2>4, <2>5, Zenon DEF Shown
  <1>4. save'.pc # "idle" => Shown(save.id, save.status)'
    <2>1. all_tests'[t] = s /\ s # "unknown"
      BY <1>1 DEF Status, Terminal
    <2> QED
      BY <2>1, Zenon DEF Shown
  <1> QED
    BY <1>3, <1>4, Zenon DEF DiskShown, UniqueIds

(* The disk operations write to the index only what save() was given.      *)
LEMMA DiskStored ==
    ASSUME TypeOK, DiskShown, UNCHANGED all_tests, StoreStep \/ StoreFailure
    PROVE  DiskShown'
  <1>1. /\ index \in Seq(TestInfo) /\ save \in [pc : {"idle", "entry", "prune"}, id : Tests, status : Status]
        /\ save.id \in Tests /\ save.status \in Status
    BY Zenon DEF TypeOK, StoreTypeOK
  <1>2. \A x, st : Shown(x, st)' <=> Shown(x, st)
    BY Zenon DEF Shown
  <1>3. save'.id = save.id /\ save'.status = save.status /\ (save'.pc # "idle" => save.pc # "idle")
    BY <1>1 DEF StoreStep, StoreFailure, WriteEntry, RemoveFile, WriteIndex, WriteFails
  <1>4. save'.pc # "idle" => Shown(save.id, save.status)'
    BY <1>3, Zenon DEF DiskShown, Shown
  <1>5. CASE UNCHANGED index
    BY <1>4, <1>5, Zenon DEF DiskShown, UniqueIds, Shown
  <1>6. CASE WriteIndex
    <2> DEFINE U == Updated(save.id, save.status)
               P == Pruned(U)
    <2>1. index' = P /\ Shown(save.id, save.status)
      <3>1. "prune" # "idle"
        OBVIOUS
      <3> QED
        BY <1>6, <3>1, Zenon DEF WriteIndex, DiskShown
    <2>2. /\ U \in Seq(TestInfo) /\ UniqueIds(U)
          /\ \A k \in DOMAIN U : \/ U[k].id = save.id /\ U[k].status = save.status
                                 \/ k \in DOMAIN index /\ U[k] = index[k] /\ U[k].id # save.id
      <3>1. UniqueIds(index)
        BY Zenon DEF DiskShown
      <3> QED
        <4>1. WithEntry(U, save.id, save.status)
          BY <1>1, <3>1, UpdatedIs, Zenon
        <4> QED
          BY <4>1, Zenon DEF WithEntry
    <2> HIDE DEF U
    <2>3. UniqueIds(P) /\ \A m \in DOMAIN P : \E k \in DOMAIN U : P[m] = U[k]
      BY <2>2, PrunedIs, Zenon
    <2> HIDE DEF P
    <2>4. ASSUME NEW m \in DOMAIN index' PROVE Shown(index[m].id, index[m].status)'
      <3>1. PICK k \in DOMAIN U : index'[m] = U[k]
        BY <2>1, <2>3, Zenon
      <3>2. Shown(U[k].id, U[k].status)
        BY <2>1, <2>2, Zenon DEF DiskShown
      <3> QED
        BY <3>1, <3>2, Zenon DEF Shown
    <2>5. UniqueIds(index)'
      BY <2>1, <2>3, Zenon DEF UniqueIds
    <2> QED
      BY <1>4, <2>4, <2>5, Zenon DEF DiskShown
  <1> QED
    BY <1>5, <1>6, Zenon DEF StoreStep, StoreFailure, WriteEntry, RemoveFile, WriteFails

(* A step that leaves the list alone.                                      *)
LEMMA QuietList ==
    ASSUME ListInv, Quiet
    PROVE  ListInv' /\ UNCHANGED <<all_tests, Range(pending)>>
  BY Zenon DEF ListInv, ListAgrees, PendingInOrder, NothingAhead, Quiet

(* The queue, the list and the index agree after every step.               *)
LEMMA LifeStep ==
    ASSUME LifeInv, Next \/ UNCHANGED vars
    PROVE  LifeInv' /\ (Life!LifeNext \/ UNCHANGED Life!lifeVars)
  <1>1. TypeOK /\ ListInv /\ DiskShown
    BY Zenon DEF LifeInv, QueueInv, ListInv
  <1>2. TypeOK'
    BY ApiType, SchedulerType, Zenon DEF Next
  <1>3. SUFFICES ListInv' /\ DiskShown' /\ (Life!LifeNext \/ UNCHANGED Life!lifeVars)
    BY <1>2, Zenon DEF LifeInv, QueueInv, ListInv
  <1>4. CASE Quiet /\ UNCHANGED storeVars
    BY <1>1, <1>4, QuietList, Zenon DEF DiskShown, Shown, UniqueIds, Quiet, storeVars, Life!lifeVars
  <1>5. CASE Quiet /\ (StoreStep \/ StoreFailure)
    BY <1>1, <1>5, QuietList, DiskStored, Zenon DEF Quiet, Life!lifeVars
  <1>6. CASE CreateTest
    <2>1. ListInv' /\ Life!LifeNext
      BY <1>1, <1>6, CreateList, Zenon DEF Life!LifeNext
    <2>2. created + 1 \in Tests /\ created + 1 > created
      <3>1. created \in Nat /\ MaxTests \in Nat /\ created < MaxTests
        BY <1>1, <1>6, ListFacts, Zenon DEF ListInv, CreateTest
      <3> QED
        BY <3>1 DEF Tests
    <2>3. /\ UNCHANGED index /\ all_tests' = [all_tests EXCEPT ![created + 1] = "Queued"]
          /\ save'.id = created + 1 /\ save'.status = "Queued" /\ all_tests[created + 1] = "unknown"
      BY <1>1, <1>6, <2>2 DEF CreateTest, BeginSave, ListInv, NothingAhead
    <2>4. "Queued" \in Status /\ "Queued" # "Running"
      BY DEF Status
    <2>5. DiskShown'
      BY <1>1, <2>2, <2>3, <2>4, DiskFrame, Zenon
    <2> QED
      BY <2>1, <2>5, Zenon
  <1>7. ASSUME NEW t \in Tests, CancelPending(t)
        PROVE  ListInv' /\ DiskShown' /\ Life!LifeNext
    <2>1. ListInv' /\ Life!LifeNext
      BY <1>1, <1>7, CancelList, Zenon DEF Life!LifeNext
    <2>2. /\ UNCHANGED index /\ all_tests' = [all_tests EXCEPT ![t] = "Cancelled"]
          /\ save'.id = t /\ save'.status = "Cancelled" /\ all_tests[t] = "Queued"
      BY <1>1, <1>7 DEF CancelPending, MayCancel, BeginSave, ListInv, ListAgrees
    <2>3. "Cancelled" \in Status /\ "Cancelled" # "Running"
      BY DEF Status, Terminal
    <2>4. DiskShown'
      BY <1>1, <2>2, <2>3, DiskFrame, Zenon
    <2> QED
      BY <2>1, <2>4, Zenon
  <1>8. CASE Dequeue
    <2>1. ListInv' /\ Life!LifeNext /\ Head(pending) \in Tests
      BY <1>1, <1>8, DequeueList, Zenon DEF Life!LifeNext
    <2>2. /\ UNCHANGED <<index, save>> /\ save.pc = "idle" /\ all_tests' = [all_tests EXCEPT ![Head(pending)] = "Running"]
      BY <1>8, Zenon DEF Dequeue, Free, NextTest, storeVars
    <2>3. all_tests[Head(pending)] = "Queued"
      <3>1. Head(pending) \in Range(pending)
        BY <1>1, <1>8, DequeueList, Zenon DEF Life!Run
      <3> QED
        BY <1>1, <3>1, Zenon DEF ListInv, ListAgrees
    <2>4. "Running" \in Status
      BY DEF Status
    <2>5. DiskShown'
      BY <1>1, <2>1, <2>2, <2>3, <2>4, DiskFrame, Zenon
    <2> QED
      BY <2>1, <2>5, Zenon
  <1>9. ASSUME NEW s \in {"Completed", "Failed"}, Ends(s)
        PROVE  ListInv' /\ DiskShown' /\ Life!LifeNext
    <2>1. ListInv' /\ Life!LifeNext /\ running \in Tests /\ all_tests[running] = "Running"
      BY <1>1, <1>9, EndList, Zenon DEF Life!LifeNext, Life!End
    <2>2. /\ UNCHANGED index /\ all_tests' = [all_tests EXCEPT ![running] = s]
          /\ save'.id = running /\ save'.status = s
      BY <1>9 DEF Ends, MarkCompleted, BeginSave
    <2>3. s \in Status /\ s # "Running"
      BY DEF Status, Terminal
    <2>4. DiskShown'
      BY <1>1, <2>1, <2>2, <2>3, DiskFrame, Zenon
    <2> QED
      BY <2>1, <2>4, Zenon
  <1>10. CASE Restart
    <2>1. ListInv' /\ Life!Forget /\ \A k \in DOMAIN index : all_tests'[index[k].id] = index[k].status
      BY <1>1, <1>2, <1>10, RestartList, Zenon
    <2>2. UNCHANGED index /\ save'.pc = "idle"
      BY <1>1, <1>10, Zenon DEF Restart, StoreCrash, TypeOK, StoreTypeOK
    <2>3. \A k \in DOMAIN index : index[k].status # "unknown" /\ index[k].status # "Running"
      <3>1. index \in Seq(TestInfo)
        BY <1>1, Zenon DEF TypeOK, StoreTypeOK
      <3>2. \A k \in DOMAIN index : index[k] \in TestInfo
        BY <3>1
      <3>3. \A i \in TestInfo : i.status # "unknown"
        BY DEF TestInfo, Status, Terminal
      <3> QED
        BY <1>1, <3>2, <3>3, Zenon DEF DiskShown, Shown
    <2>4. DiskShown'
      BY <1>1, <2>1, <2>2, <2>3, Zenon DEF DiskShown, Shown, UniqueIds
    <2> QED
      BY <2>1, <2>4, Zenon DEF Life!LifeNext
  <1> QED
    BY <1>4, <1>5, <1>6, <1>7, <1>8, <1>9, <1>10, StepKinds, Zenon

(* TestQueue::new starts with nothing listed, queued or stored.            *)
LEMMA LifeInit == Init => LifeInv
  <1> SUFFICES ASSUME Init PROVE LifeInv
    OBVIOUS
  <1>0. MaxTests \in Nat \ {0} /\ 1 \in Tests /\ NoTest \notin Tests
    BY StoreAssumption DEF Tests, NoTest
  <1>1. TypeOK
    <2>1. StoreTypeOK
      BY <1>0 DEF Init, StoreInit, StoreTypeOK, Status
    <2>2. /\ <<>> \in Seq(Tests) /\ <<>> \in Seq(Updates) /\ <<>> \in Seq(Rates \cup {Released}) /\ Len(<<>>) = 0
          /\ 0 \in 0..MaxTests /\ 0 \in 0..1 /\ 0 <= Capacity /\ 0 \in Nat
      BY <1>0, QueueAssumption DEF QueueAssumption
    <2>3. /\ [t \in Tests |-> "unknown"] \in [Tests -> Status \cup {"unknown"}]
          /\ [u \in Updates |-> "none"] \in [Updates -> {"none", "timeout", "not running"}]
      OBVIOUS
    <2>4. blocked \in BOOLEAN
      BY Zenon DEF Init
    <2> QED
      BY <2>1, <2>2, <2>3, <2>4, Zenon DEF Init, TypeOK
  <1>2. DOMAIN pending = {} /\ DOMAIN index = {} /\ Range(pending) = {}
    BY DEF Init, StoreInit, Range
  <1>3. \A t \in Tests : all_tests[t] = "unknown"
    BY Zenon DEF Init
  <1>4. "unknown" # "Queued" /\ "unknown" # "Running" /\ running = NoTest /\ phase = "none" /\ save.pc = "idle"
    BY DEF Init, StoreInit
  <1> QED
    BY <1>0, <1>1, <1>2, <1>3, <1>4, Zenon
       DEF LifeInv, QueueInv, ListAgrees, PendingInOrder, NothingAhead, DiskShown, UniqueIds

(* The list, the queue and the scheduler agree between any two steps, for  *)
(* every number of tests, requests, crashes and disk failures: a waiting   *)
(* test is listed as queued and waits once, exactly the scheduler's test   *)
(* is listed as running, and before a restart what is listed as queued     *)
(* waits (enqueue, cancel, try_dequeue, mark_completed).                   *)
THEOREM QueueAgrees == Spec => []QueueInv
  <1>1. Init => LifeInv
    BY LifeInit
  <1>2. LifeInv /\ [Next]_vars => LifeInv'
    BY LifeStep, Zenon
  <1>3. LifeInv => QueueInv
    BY Zenon DEF LifeInv
  <1> QED
    BY <1>1, <1>2, <1>3, PTL DEF Spec

(* The daemon implements the life of a test: every step of its handlers,   *)
(* its scheduler, its store and every restart is, for what the clients     *)
(* see, one of TestLife or none at all.                                    *)
THEOREM PromiseKept == Spec => KeepsPromise
  <1>1. Init => LifeInv /\ Life!LifeInit
    <2>1. Init => Life!LifeInit
      BY DEF Init, Life!LifeInit, Range
    <2> QED
      BY <2>1, LifeInit
  <1>2. LifeInv /\ [Next]_vars => LifeInv' /\ [Life!LifeNext]_(Life!lifeVars)
    BY LifeStep, Zenon
  <1> QED
    BY <1>1, <1>2, PTL DEF Spec, KeepsPromise, Life!LifeSpec

-----------------------------------------------------------------------------
(* The commands in the hold channel end with the one asked for last.       *)
LEMMA HoldStep ==
    ASSUME TypeOK, HoldInv, Next \/ UNCHANGED vars
    PROVE  HoldInv'
  <1>1. hold_tx \in Seq(Rates \cup {Released})
    BY Zenon DEF TypeOK
  <1>2. CASE UNCHANGED <<running, hold_tx, hold_state, asked>>
    BY <1>2, Zenon DEF HoldInv
  <1>3. CASE running' = NoTest
    BY <1>3, Zenon DEF HoldInv
  <1>4. CASE hold_tx' = <<>> /\ hold_state' = asked'
    BY <1>4, Zenon DEF HoldInv
  <1>5. ASSUME NEW c \in Rates \cup {Released}, SendHold(c) PROVE HoldInv'
    <2>1. hold_tx' = Append(hold_tx, c) /\ asked' = c
      BY <1>5, Zenon DEF SendHold
    <2>2. hold_tx' # <<>> /\ hold_tx'[Len(hold_tx')] = c
      BY <1>1, <2>1
    <2> QED
      BY <2>1, <2>2, Zenon DEF HoldInv
  <1>6. CASE ProcessCommands
    <2>1. /\ UNCHANGED <<running, asked>> /\ hold_tx' = <<>>
          /\ hold_state' = IF hold_tx = <<>> THEN hold_state ELSE hold_tx[Len(hold_tx)]
      BY <1>6, Zenon DEF ProcessCommands, LastCommand
    <2> QED
      BY <2>1, Zenon DEF HoldInv
  <1>7. CASE Api
    <2>1. CancelRunning \/ (\E u \in Updates : PutController(u)) \/ CreateTest \/ (\E t \in Tests : CancelPending(t))
          => UNCHANGED <<running, hold_tx, hold_state, asked>>
      BY Zenon DEF CancelRunning, PutController, CreateTest, CancelPending, runVars
    <2> QED
      BY <1>2, <1>5, <1>7, <2>1, Zenon
         DEF Api, create_test, cancel_test, put_rate, put_hold, delete_hold, put_controller
  <1>8. CASE Scheduler
    <2>1. Start \/ TickOver \/ TickCancelled \/ TickContinue \/ AllNodesFailed
          => UNCHANGED <<running, hold_tx, hold_state, asked>>
      BY Zenon DEF Start, TickOver, TickCancelled, TickContinue, AllNodesFailed, GoTo
    <2>2. Dequeue => hold_tx' = <<>> /\ hold_state' = asked'
      BY Zenon DEF Dequeue
    <2>3. Finish \/ NoNodes \/ SetupFailed => running' = NoTest
      BY Zenon DEF Finish, NoNodes, SetupFailed, MarkCompleted, ClearRunning
    <2> QED
      BY <1>2, <1>3, <1>4, <1>6, <1>8, <2>1, <2>2, <2>3, Zenon DEF Scheduler
  <1>9. CASE Disk \/ DiskFails \/ Restart \/ UNCHANGED vars
    BY <1>2, <1>3, <1>9, Zenon DEF Disk, DiskFails, queueVars, runVars, Restart, vars
  <1> QED
    BY <1>7, <1>8, <1>9, Zenon DEF Next

(* A coordinator that has processed its commands holds what the last       *)
(* accepted request for this very test asked for, never one of an earlier  *)
(* test or of an earlier run (send_hold, send_release, process_commands).  *)
THEOREM HoldIsLast == Spec => []HoldFollowsLast
  <1>1. Init => HoldInv
    BY Zenon DEF Init, HoldInv
  <1>2. TypeOK /\ HoldInv /\ [Next]_vars => HoldInv'
    BY HoldStep, Zenon
  <1>3. HoldInv => HoldFollowsLast
    BY Zenon DEF HoldInv, HoldFollowsLast
  <1>4. Spec => []TypeOK
    <2>1. QueueInv => TypeOK
      BY Zenon DEF QueueInv
    <2> QED
      BY <2>1, QueueAgrees, PTL
  <1> QED
    BY <1>1, <1>2, <1>3, <1>4, PTL DEF Spec

-----------------------------------------------------------------------------
(* What save() adds to the finished tests of the index.                    *)
LEMMA UpdatedCount ==
    ASSUME index \in Seq(TestInfo), UniqueIds(index), NEW t \in Tests, NEW s \in Status
    PROVE  LET n == NumTerminal(index)
               m == NumTerminal(Updated(t, s)) IN
           /\ n \in Nat /\ m \in Nat
           /\ s \in Terminal => n <= m /\ m <= n + 1
           /\ s \notin Terminal /\ (\A k \in DOMAIN index : index[k].id # t) => m = n
  <1> DEFINE U == Updated(t, s)
             A == TerminalAt(index)
             B == TerminalAt(U)
  <1>1. /\ U \in Seq(TestInfo) /\ UniqueIds(U) /\ DOMAIN index \subseteq DOMAIN U
        /\ \A k \in DOMAIN index : index[k].id # t => U[k] = index[k]
        /\ \A k \in DOMAIN U : \/ U[k].id = t /\ U[k].status = s
                               \/ k \in DOMAIN index /\ U[k] = index[k] /\ U[k].id # t
        /\ \E p \in DOMAIN U : U[p].id = t /\ U[p].status = s
    <2>1. WithEntry(U, t, s)
      BY UpdatedIs, Zenon
    <2> QED
      BY <2>1, Zenon DEF WithEntry
  <1> HIDE DEF U
  <1>2. IsFiniteSet(A) /\ NumTerminal(index) \in Nat /\ IsFiniteSet(B) /\ NumTerminal(U) \in Nat
    BY <1>1, PruneIdsIs, Zenon
  <1>3. ASSUME s \in Terminal
        PROVE  NumTerminal(index) <= NumTerminal(U) /\ NumTerminal(U) <= NumTerminal(index) + 1
    <2>1. PICK p \in DOMAIN U : U[p].id = t /\ U[p].status = s
      BY <1>1
    <2>2. B = A \cup {p}
      <3>1. ASSUME NEW k \in B PROVE k \in A \cup {p}
        BY <1>1, <2>1, <3>1, Zenon DEF TerminalAt, UniqueIds
      <3>2. ASSUME NEW k \in A \cup {p} PROVE k \in B
        <4>1. CASE k = p
          BY <1>3, <2>1, <4>1, Zenon DEF TerminalAt
        <4>2. CASE k # p
          <5>1. k \in DOMAIN index /\ index[k].status \in Terminal /\ k \in DOMAIN U
            BY <1>1, <3>2, <4>2, Zenon DEF TerminalAt
          <5>2. U[k] = index[k]
            BY <1>1, <2>1, <4>2, <5>1, Zenon DEF UniqueIds
          <5> QED
            BY <5>1, <5>2, Zenon DEF TerminalAt
        <4> QED
          BY <4>1, <4>2
      <3> QED
        BY <3>1, <3>2, Zenon
    <2>3. Cardinality(B) = IF p \in A THEN Cardinality(A) ELSE Cardinality(A) + 1
      BY <1>2, <2>2, FS_AddElement, Zenon
    <2> QED
      BY <1>2, <2>3 DEF NumTerminal
  <1>4. ASSUME s \notin Terminal, \A k \in DOMAIN index : index[k].id # t
        PROVE  NumTerminal(U) = NumTerminal(index)
    <2>1. B = A
      BY <1>1, <1>4, Zenon DEF TerminalAt
    <2> QED
      BY <2>1 DEF NumTerminal
  <1> QED
    BY <1>2, <1>3, <1>4, Zenon DEF U

(* The files of finished tests are finitely many.                          *)
LEMMA KeptFinite ==
    /\ IsFiniteSet(Tests) /\ Kept \subseteq Tests /\ IsFiniteSet(Kept) /\ Cardinality(Kept) \in Nat
    /\ Kept' \subseteq Tests /\ IsFiniteSet(Kept') /\ Cardinality(Kept') \in Nat
  <1>1. IsFiniteSet(Tests)
    BY StoreAssumption, FS_Interval DEF Tests
  <1>2. Kept \subseteq Tests /\ Kept' \subseteq Tests
    BY Zenon DEF Kept
  <1> QED
    BY <1>1, <1>2, FS_Subset, FS_CardinalityType, Zenon

(* A test whose file says that it has ended is not queued or run again.    *)
LEMMA KeptList ==
    ASSUME LifeInv, EndsOnce, Next \/ UNCHANGED vars, NEW t \in Kept
    PROVE  t <= created' /\ all_tests'[t] # "Running" /\ t \notin Range(pending)'
  <1>0. TypeOK /\ ListInv /\ DiskShown /\ TypeOK'
    BY LifeStep, Zenon DEF LifeInv, QueueInv, ListInv
  <1>1. t <= created /\ all_tests[t] # "Running" /\ t \notin Range(pending) /\ t \in Tests
    BY Zenon DEF EndsOnce, Kept
  <1>2. all_tests \in [Tests -> Status \cup {"unknown"}] /\ created \in Nat /\ t \in Nat
    <2>1. Tests \subseteq Nat \ {0}
      BY <1>0, ListFacts, Zenon DEF ListInv
    <2> QED
      BY <1>0, <1>1, <2>1, ListFacts DEF ListInv
  <1>3. CASE Quiet
    BY <1>1, <1>3, Zenon DEF Quiet
  <1>4. CASE CreateTest
    <2>1. Life!Accept(created + 1) /\ created' = created + 1
      BY <1>0, <1>4, CreateList, Zenon DEF CreateTest
    <2>2. t # created + 1 /\ t <= created + 1
      BY <1>1, <1>2
    <2>3. all_tests'[t] = all_tests[t] /\ t \notin Range(pending)'
      BY <1>1, <1>2, <2>1, <2>2, Zenon DEF Life!Accept
    <2> QED
      BY <1>1, <2>1, <2>2, <2>3, Zenon
  <1>5. ASSUME NEW u \in Tests, CancelPending(u)
        PROVE  t <= created' /\ all_tests'[t] # "Running" /\ t \notin Range(pending)'
    <2>1. Life!Withdraw(u) /\ created' = created
      BY <1>0, <1>5, CancelList, Zenon DEF CancelPending
    <2>2. t # u
      BY <1>1, <2>1, Zenon DEF Life!Withdraw
    <2> QED
      BY <1>1, <1>2, <2>1, <2>2, Zenon DEF Life!Withdraw
  <1>6. CASE Dequeue
    <2>1. Life!Run(Head(pending)) /\ created' = created
      BY <1>0, <1>6, DequeueList, Zenon DEF Dequeue
    <2>2. t # Head(pending)
      BY <1>1, <2>1, Zenon DEF Life!Run
    <2> QED
      BY <1>1, <1>2, <2>1, <2>2, Zenon DEF Life!Run
  <1>7. ASSUME NEW s \in {"Completed", "Failed"}, Ends(s)
        PROVE  t <= created' /\ all_tests'[t] # "Running" /\ t \notin Range(pending)'
    <2>1. Life!End(running) /\ created' = created
      BY <1>0, <1>7, EndList, Zenon DEF Ends, MarkCompleted
    <2>2. t # running
      BY <1>1, <2>1, Zenon DEF Life!End
    <2> QED
      BY <1>1, <1>2, <2>1, <2>2, Zenon DEF Life!End
  <1>8. CASE Restart
    <2>1. Life!Forget /\ created' = created
      BY <1>0, <1>8, RestartList, Zenon DEF Restart
    <2>2. all_tests'[t] # "Running"
      BY <1>1, <2>1 DEF Life!Forget, Life!Ended
    <2> QED
      BY <1>1, <2>1, <2>2, Zenon DEF Life!Forget
  <1> QED
    BY <1>3, <1>4, <1>5, <1>6, <1>7, <1>8, StepKinds, Zenon

(* What a step does to the store: a handler or the scheduler leaves it     *)
(* alone or begins to save a test that has no final file yet, a disk       *)
(* operation leaves the list alone, and a restart ends the save.           *)
Begins(t, s) ==
    /\ save.pc = "idle" /\ BeginSave(t, s) /\ all_tests' = [all_tests EXCEPT ![t] = s]
    /\ t \notin Kept /\ (s = "Queued" => \A k \in DOMAIN index : index[k].id # t)
    /\ UNCHANGED <<crashes, failures>>

(* What a step of the queue does to the store: it leaves it alone, begins  *)
(* a save, restarts, or takes one of the store's own steps.                *)
LEMMA StoreKinds ==
    ASSUME LifeInv, EndsOnce, Next \/ UNCHANGED vars
    PROVE  \/ UNCHANGED storeVars /\ (Quiet \/ Dequeue)
           \/ StoreCrash /\ crashes' # 0
           \/ \E t \in Tests, s \in Status : Begins(t, s)
           \/ StoreStep /\ Quiet
           \/ StoreFailure /\ Quiet /\ failures' # 0
  <1>0. TypeOK /\ ListInv /\ DiskShown
    BY Zenon DEF LifeInv, QueueInv, ListInv
  <1>1. {"Queued", "Cancelled", "Completed", "Failed"} \subseteq Status /\ "Queued" \notin {"Cancelled", "Completed", "Failed"}
    BY DEF Status, Terminal
  <1>2. CASE CreateTest
    <2>1. created + 1 \in Tests /\ Life!Accept(created + 1)
      BY <1>0, <1>2, CreateList, Zenon
    <2>2. /\ save.pc = "idle" /\ BeginSave(created + 1, "Queued") /\ UNCHANGED <<crashes, failures>>
          /\ all_tests' = [all_tests EXCEPT ![created + 1] = "Queued"]
      BY <1>2, Zenon DEF CreateTest, Free, history
    <2>3. created + 1 \notin Kept
      <3>1. created \in Nat /\ ~(created + 1 <= created)
        BY <1>0, ListFacts DEF ListInv
      <3> QED
        BY <3>1, Zenon DEF EndsOnce
    <2>4. \A k \in DOMAIN index : index[k].id # created + 1
      BY <1>0, <2>1, Zenon DEF DiskShown, Shown, Life!Accept
    <2>5. Begins(created + 1, "Queued")
      BY <2>2, <2>3, <2>4, Zenon DEF Begins
    <2> QED
      BY <1>1, <2>1, <2>5, Zenon
  <1>3. ASSUME NEW t \in Tests, CancelPending(t) PROVE Begins(t, "Cancelled")
    <2>1. t \notin Kept
      BY <1>3, Zenon DEF EndsOnce, CancelPending, MayCancel
    <2> QED
      BY <1>1, <1>3, <2>1, Zenon DEF Begins, CancelPending, Free, history
  <1>4. ASSUME NEW s \in {"Completed", "Failed"}, Ends(s) PROVE running \in Tests /\ Begins(running, s)
    <2>1. running \in Tests /\ Life!End(running)
      BY <1>0, <1>4, EndList, Zenon
    <2>2. running \notin Kept
      BY <2>1, Zenon DEF EndsOnce, Life!End
    <2> QED
      BY <1>1, <1>4, <2>1, <2>2, Zenon DEF Begins, Ends, MarkCompleted, Free, history
  <1>5. CASE Dequeue
    BY <1>5, Zenon DEF Dequeue
  <1>6. CASE Restart
    <2>1. crashes \in Nat /\ crashes' = crashes + 1
      BY <1>0, <1>6, Zenon DEF Restart, TypeOK
    <2>2. crashes' # 0
      BY <2>1
    <2> QED
      BY <1>6, <2>2, Zenon DEF Restart
  <1>7. DiskFails => failures' # 0
    <2>1. failures \in Nat
      BY <1>0, Zenon DEF TypeOK
    <2> QED
      BY <2>1 DEF DiskFails
  <1> QED
    BY <1>1, <1>2, <1>3, <1>4, <1>5, <1>6, <1>7, StepKinds, Zenon

(* The types that the proofs about the store use.                          *)
LEMMA StoreFacts ==
    ASSUME LifeInv
    PROVE  /\ entries \in [Tests -> Status \cup {"absent"}] /\ index \in Seq(TestInfo) /\ doomed \in Seq(Tests)
           /\ save \in [pc : {"idle", "entry", "prune"}, id : Tests, status : Status]
           /\ save.id \in Tests /\ save.status \in Status /\ save.pc \in {"idle", "entry", "prune"}
           /\ UniqueIds(index) /\ max_results \in Nat
           /\ NumTerminal(index) \in Nat /\ NumTerminal(Saving) \in Nat
           /\ save.status \in Terminal
              => NumTerminal(index) <= NumTerminal(Saving) /\ NumTerminal(Saving) <= NumTerminal(index) + 1
           /\ save.status \notin Terminal /\ (\A k \in DOMAIN index : index[k].id # save.id)
              => NumTerminal(Saving) = NumTerminal(index)
           /\ save.pc # "idle" /\ save.status \notin Terminal => save.status = "Queued"
  <1>1. /\ entries \in [Tests -> Status \cup {"absent"}] /\ index \in Seq(TestInfo) /\ doomed \in Seq(Tests)
        /\ save \in [pc : {"idle", "entry", "prune"}, id : Tests, status : Status] /\ UniqueIds(index)
    BY Zenon DEF LifeInv, QueueInv, TypeOK, StoreTypeOK, DiskShown
  <1>2. save.id \in Tests /\ save.status \in Status /\ save.pc \in {"idle", "entry", "prune"}
    BY <1>1
  <1>3. save.pc # "idle" /\ save.status \notin Terminal => save.status = "Queued"
    <2>1. save.pc # "idle" => save.status # "Running"
      BY Zenon DEF LifeInv, DiskShown, Shown
    <2> QED
      BY <1>2, <2>1 DEF Status
  <1>4. max_results \in Nat
    BY StoreAssumption
  <1> QED
    BY <1>1, <1>2, <1>3, <1>4, UpdatedCount, Zenon DEF Saving

(* While files are removed there are more of them than the index needs.    *)
LEMMA SpareFile ==
    ASSUME StoreInv, save.pc = "prune"
    PROVE  NumTerminal(index) <= Least(NumTerminal(Saving), max_results)
           /\ Cardinality(Kept) >= NumTerminal(index)
           /\ Least(NumTerminal(Saving), max_results) \in Nat
  <1>1. /\ NumTerminal(index) \in Nat /\ NumTerminal(Saving) \in Nat /\ max_results \in Nat
        /\ NumTerminal(index) <= NumTerminal(Saving)
    <2>1. save.pc # "idle"
      OBVIOUS
    <2>2. CASE save.status \in Terminal
      BY <2>2, StoreFacts, Zenon DEF StoreInv
    <2>3. CASE save.status \notin Terminal
      <3>1. NumTerminal(Saving) = NumTerminal(index)
        BY <2>1, <2>3, StoreFacts, Zenon DEF StoreInv, EndsOnce
      <3>2. NumTerminal(index) \in Nat
        BY StoreFacts, Zenon DEF StoreInv
      <3> QED
        BY <3>1, <3>2, StoreFacts, Counting, Zenon DEF StoreInv
    <2> QED
      BY <2>2, <2>3
  <1>2. NumTerminal(index) <= max_results /\ Cardinality(Kept) >= Least(NumTerminal(Saving), max_results) + Len(doomed)
    BY Zenon DEF StoreInv, FilesEnough
  <1>3. Len(doomed) \in Nat /\ Cardinality(Kept) \in Nat
    <2>1. doomed \in Seq(Tests)
      BY StoreFacts, Zenon DEF StoreInv
    <2> QED
      BY <2>1, KeptFinite
  <1> QED
    BY <1>1, <1>2, <1>3 DEF Least

(* A step that leaves the files and the index alone.                       *)
LEMMA FilesFrame ==
    ASSUME StoreInv, Next \/ UNCHANGED vars, UNCHANGED <<entries, index>>,
           save'.pc = "idle" => (save.pc = "prune" \/ doomed = <<>>) /\ doomed' = <<>>,
           save'.pc = "entry" => /\ save.pc # "prune" /\ doomed' = doomed /\ save'.id \notin Kept
                                 /\ save'.status = "Queued" => \A k \in DOMAIN index : index[k].id # save'.id,
           save'.pc = "prune" => UNCHANGED <<save, doomed>>,
           save'.pc \in {"idle", "entry", "prune"}
    PROVE  EndsOnce' /\ FilesEnough'
  <1>1. Kept' = Kept /\ NumTerminal(index)' = NumTerminal(index)
    BY Zenon DEF Kept, NumTerminal, TerminalAt
  <1>2. LifeInv /\ EndsOnce /\ FilesEnough
    BY Zenon DEF StoreInv
  <1>3. save.pc # "prune" => Cardinality(Kept) >= NumTerminal(index) /\ doomed = <<>>
    BY <1>2, Zenon DEF FilesEnough
  <1>4. EndsOnce'
    <2>1. \A t \in Kept : t <= created' /\ all_tests'[t] # "Running" /\ t \notin Range(pending)'
      BY <1>2, KeptList, Zenon
    <2>2. \A k \in DOMAIN index' : index'[k].status \in Terminal => entries'[index'[k].id] \in {index'[k].status, "absent"}
      BY <1>2, Zenon DEF EndsOnce
    <2>3. save'.pc = "entry" => save'.id \notin Kept'
      BY <1>1, Zenon
    <2>4. save'.pc # "idle" /\ save'.status = "Queued" => \A k \in DOMAIN index' : index'[k].id # save'.id
      <3>1. save'.pc = "entry" \/ save'.pc = "prune" \/ save'.pc = "idle"
        OBVIOUS
      <3> QED
        BY <1>2, <3>1, Zenon DEF EndsOnce
    <2> QED
      BY <1>1, <2>1, <2>2, <2>3, <2>4, Zenon DEF EndsOnce
  <1>5. FilesEnough'
    <2>1. "prune" # "idle" /\ "prune" # "entry"
      OBVIOUS
    <2>2. CASE save'.pc = "prune"
      <3>1. UNCHANGED <<save, doomed>> /\ Saving' = Saving
        BY <2>2, Zenon DEF Saving, Updated
      <3>2. NumTerminal(Saving)' = NumTerminal(Saving)
        BY <3>1, Zenon DEF NumTerminal, TerminalAt
      <3> QED
        BY <1>1, <1>2, <3>1, <3>2, Zenon DEF FilesEnough
    <2>3. CASE save'.pc # "prune"
      <3>1. doomed' = <<>>
        BY <1>3, <2>3, Zenon
      <3>2. Cardinality(Kept) >= NumTerminal(index)
        BY <1>3, SpareFile, Zenon
      <3> QED
        BY <1>1, <1>2, <2>3, <3>1, <3>2, Zenon DEF FilesEnough
    <2> QED
      BY <2>2, <2>3
  <1> QED
    BY <1>4, <1>5

(* The rename of an entry file: one more finished test, and one to remove  *)
(* when that is one too many.                                              *)
LEMMA EntryWritten ==
    ASSUME StoreInv, Quiet, WriteEntry
    PROVE  EndsOnce' /\ FilesEnough'
  <1> DEFINE n == NumTerminal(index)
             m == NumTerminal(Saving)
  <1>0. /\ LifeInv /\ EndsOnce /\ FilesEnough
        /\ entries \in [Tests -> Status \cup {"absent"}] /\ index \in Seq(TestInfo) /\ UniqueIds(index)
        /\ save.id \in Tests /\ save.status \in Status /\ max_results \in Nat /\ n \in Nat /\ m \in Nat
        /\ save \in [pc : {"idle", "entry", "prune"}, id : Tests, status : Status]
    BY StoreFacts, Zenon DEF StoreInv
  <1>1. /\ save.pc = "entry" /\ entries' = [entries EXCEPT ![save.id] = save.status] /\ index' = index
        /\ doomed' = PruneIds(Saving)
    BY Zenon DEF WriteEntry, Saving
  <1>2. save'.pc = "prune" /\ save'.id = save.id /\ save'.status = save.status
    BY <1>0 DEF WriteEntry
  <1>3. Saving' = Saving /\ NumTerminal(index)' = n /\ NumTerminal(Saving)' = m
    <2>1. Saving' = Saving
      BY <1>1, <1>2, Zenon DEF Saving, Updated
    <2> QED
      BY <1>1, <2>1, Zenon DEF NumTerminal, TerminalAt
  <1>4. \A t \in Tests : entries'[t] = IF t = save.id THEN save.status ELSE entries[t]
    BY <1>0, <1>1, Zenon
  <1>5. save.id \notin Kept /\ all_tests[save.id] # "unknown" /\ save.status \in {"Queued", all_tests[save.id]}
    <2>1. "entry" # "idle"
      OBVIOUS
    <2> QED
      BY <1>0, <1>1, <2>1, Zenon DEF EndsOnce, LifeInv, DiskShown, Shown
  <1>6. "Queued" \notin Terminal /\ "Running" \notin Terminal
    BY DEF Terminal
  <1>7. Kept' = IF save.status \in Terminal THEN Kept \cup {save.id} ELSE Kept
    BY <1>0, <1>4, <1>5, Zenon DEF Kept
  <1>8. ASSUME save.status \in Terminal
        PROVE  save.id <= created /\ all_tests[save.id] # "Running" /\ save.id \notin Range(pending)
    <2>1. all_tests[save.id] = save.status
      BY <1>5, <1>6, <1>8, Zenon
    <2>2. ~(save.id > created)
      BY <1>0, <1>5, Zenon DEF LifeInv, NothingAhead
    <2>3. save.id <= created
      BY <1>0, <2>2, ListFacts DEF LifeInv, QueueInv
    <2>4. all_tests[save.id] # "Running" /\ all_tests[save.id] # "Queued"
      BY <1>6, <1>8, <2>1, Zenon
    <2>5. ListAgrees
      BY <1>0, Zenon DEF LifeInv, QueueInv
    <2>6. save.id \notin Range(pending)
      BY <1>0, <2>4, <2>5, Zenon DEF ListAgrees
    <2> QED
      BY <2>3, <2>4, <2>6, Zenon
  <1>9. ASSUME NEW k \in DOMAIN index, index[k].status \in Terminal
        PROVE  entries'[index[k].id] \in {index[k].status, "absent"}
    <2>1. index[k].id \in Tests
      <3>1. index[k] \in TestInfo
        BY <1>0
      <3> QED
        BY <3>1 DEF TestInfo
    <2>2. CASE index[k].id # save.id
      BY <1>0, <1>4, <1>9, <2>1, <2>2, Zenon DEF EndsOnce
    <2>3. CASE index[k].id = save.id
      <3>1. index[k].status = all_tests[save.id]
        BY <1>0, <1>6, <1>9, <2>3, Zenon DEF LifeInv, DiskShown, Shown
      <3>2. save.status # "Queued"
        <4>1. "entry" # "idle"
          OBVIOUS
        <4> QED
          BY <1>0, <1>1, <2>3, <4>1, Zenon DEF EndsOnce
      <3> QED
        BY <1>0, <1>4, <1>5, <2>3, <3>1, <3>2, Zenon
    <2> QED
      BY <2>2, <2>3
  <1>10. EndsOnce'
    <2>1. \A t \in Kept' : t <= created' /\ all_tests'[t] # "Running" /\ t \notin Range(pending)'
      BY <1>0, <1>7, <1>8, Zenon DEF EndsOnce, Quiet
    <2>2. "prune" # "entry" /\ "entry" # "idle"
      OBVIOUS
    <2>3. \A k \in DOMAIN index' : index'[k].status \in Terminal => entries'[index'[k].id] \in {index'[k].status, "absent"}
      BY <1>1, <1>9, Zenon
    <2>4. save'.pc # "idle" /\ save'.status = "Queued" => \A k \in DOMAIN index' : index'[k].id # save'.id
      <3>1. save.pc # "idle" /\ index' = index /\ save'.id = save.id /\ save'.status = save.status
        BY <1>1, <1>2, <2>2, Zenon
      <3>2. save.pc # "idle" /\ save.status = "Queued" => \A k \in DOMAIN index : index[k].id # save.id
        BY <1>0, Zenon DEF EndsOnce
      <3> QED
        BY <3>1, <3>2, Zenon
    <2>5. save'.pc = "entry" => save'.id \notin Kept'
      BY <1>2, <2>2, Zenon
    <2> QED
      BY <2>1, <2>3, <2>4, <2>5, Zenon DEF EndsOnce
  <1>11. /\ n <= m /\ m <= n + 1 /\ n <= max_results /\ Cardinality(Kept) >= n /\ Cardinality(Kept) \in Nat
         /\ save.status \notin Terminal => m = n
         /\ Cardinality(Kept') = IF save.status \in Terminal THEN Cardinality(Kept) + 1 ELSE Cardinality(Kept)
    <2>0. "entry" # "idle" /\ "entry" # "prune"
      OBVIOUS
    <2>1. n <= max_results /\ Cardinality(Kept) >= n
      BY <1>0, <1>1, <2>0, Zenon DEF FilesEnough
    <2>2. save.status \notin Terminal => m = n
      BY <1>0, <1>1, <2>0, StoreFacts, Zenon DEF EndsOnce
    <2>3. save.status \in Terminal => n <= m /\ m <= n + 1
      BY <1>0, StoreFacts, Zenon
    <2>4. n <= m /\ m <= n + 1
      BY <1>0, <2>2, <2>3
    <2>5. IsFiniteSet(Kept) /\ Cardinality(Kept) \in Nat
      BY KeptFinite
    <2>6. Cardinality(Kept \cup {save.id}) = Cardinality(Kept) + 1
      BY <1>5, <2>5, FS_AddElement, Zenon
    <2> QED
      BY <1>7, <2>1, <2>2, <2>4, <2>5, <2>6, Zenon
  <1>12. Saving \in Seq(TestInfo) /\ \A k \in DOMAIN Saving : \/ Saving[k].id = save.id /\ Saving[k].status = save.status
                                                              \/ k \in DOMAIN index /\ Saving[k] = index[k]
    BY <1>0, SavingIs, Zenon
  <1>13. /\ doomed' \in Seq(Tests) /\ Len(doomed') = IF m <= max_results THEN 0 ELSE m - max_results
         /\ \A i \in DOMAIN doomed' : \E k \in TerminalAt(Saving) : doomed'[i] = Saving[k].id
    BY <1>1, <1>12, PruneIdsIs, Zenon
  <1>14. doomed' # <<>> => entries'[doomed'[1]] \in Terminal \cup {"absent"}
    <2> SUFFICES ASSUME doomed' # <<>> PROVE entries'[doomed'[1]] \in Terminal \cup {"absent"}
      OBVIOUS
    <2>1. 1 \in DOMAIN doomed'
      BY <1>13
    <2>2. PICK k \in DOMAIN Saving : Saving[k].status \in Terminal /\ doomed'[1] = Saving[k].id
      BY <1>13, <2>1, Zenon DEF TerminalAt
    <2>3. CASE Saving[k].id = save.id /\ Saving[k].status = save.status
      BY <1>0, <1>4, <2>2, <2>3, Zenon
    <2>4. CASE k \in DOMAIN index /\ Saving[k] = index[k]
      BY <1>9, <2>2, <2>4, Zenon
    <2> QED
      BY <1>12, <2>3, <2>4, Zenon
  <1> HIDE DEF n, m
  <1>15. Len(doomed') <= 1 /\ Cardinality(Kept') >= Least(m, max_results) + Len(doomed') /\ (doomed' # <<>> => m > max_results)
    <2>1. Len(doomed') = IF m <= max_results THEN 0 ELSE m - max_results
      BY <1>13
    <2>2. doomed' # <<>> => Len(doomed') # 0
      BY <1>13
    <2>3. CASE save.status \in Terminal
      BY <1>0, <1>11, <2>1, <2>2, <2>3 DEF Least
    <2>4. CASE save.status \notin Terminal
      BY <1>0, <1>11, <2>1, <2>2, <2>4 DEF Least
    <2> QED
      BY <2>3, <2>4
  <1>16. entries'[save.id] = save.status
    BY <1>0, <1>4
  <1> QED
    BY <1>1, <1>2, <1>3, <1>10, <1>11, <1>14, <1>15, <1>16, Zenon DEF FilesEnough

(* The removal of one file of a finished test, done or refused.            *)
LEMMA FileRemoved ==
    ASSUME StoreInv, Quiet, NEW ok \in BOOLEAN, RemoveFile(ok)
    PROVE  EndsOnce' /\ FilesEnough'
  <1> DEFINE n == NumTerminal(index)
             m == NumTerminal(Saving)
  <1>0. /\ LifeInv /\ EndsOnce /\ FilesEnough /\ doomed \in Seq(Tests)
        /\ entries \in [Tests -> Status \cup {"absent"}] /\ max_results \in Nat /\ n \in Nat /\ m \in Nat
    BY StoreFacts, StoreType, Zenon DEF StoreInv, LifeInv
  <1>1. /\ save.pc = "prune" /\ doomed # <<>> /\ doomed' = Tail(doomed) /\ UNCHANGED <<index, save>>
        /\ entries' = IF ok THEN [entries EXCEPT ![Head(doomed)] = "absent"] ELSE entries
    BY Zenon DEF RemoveFile
  <1>2. /\ Len(doomed) <= 1 /\ Cardinality(Kept) >= Least(m, max_results) + Len(doomed) /\ n <= max_results
        /\ save.status \in Terminal => entries[save.id] \in {save.status, "absent"}
    BY <1>0, <1>1, Zenon DEF FilesEnough
  <1>3. Len(doomed) = 1 /\ doomed' = <<>> /\ Len(doomed') = 0 /\ Head(doomed) \in Tests
    <2>1. doomed \in Seq(Tests) /\ doomed # <<>> /\ Len(doomed) <= 1 /\ doomed' = Tail(doomed)
      BY <1>0, <1>1, <1>2, Zenon
    <2>2. Len(doomed) = 1
      BY <2>1, SMTT(30)
    <2>3. doomed' \in Seq(Tests) /\ Len(doomed') = 0 /\ Head(doomed) \in Tests
      BY <2>1, <2>2
    <2> QED
      BY <2>2, <2>3
  <1>4. \A t \in Tests : entries'[t] \in {entries[t], "absent"}
    BY <1>0, <1>1, Zenon
  <1>5. \A t \in Tests : t # Head(doomed) => entries'[t] = entries[t]
    BY <1>0, <1>1, Zenon
  <1>6. "absent" \notin Terminal
    BY DEF Terminal
  <1>7. Kept' \subseteq Kept /\ Kept \ {Head(doomed)} \subseteq Kept'
    BY <1>4, <1>5, <1>6, Zenon DEF Kept
  <1>8. Cardinality(Kept') \in Nat /\ Cardinality(Kept') >= Least(m, max_results)
    <2>1. IsFiniteSet(Kept) /\ Cardinality(Kept) \in Nat
      BY KeptFinite
    <2>2. IsFiniteSet(Kept')
      BY <1>7, <2>1, FS_Subset, Zenon
    <2>3. /\ Cardinality(Kept \ {Head(doomed)}) \in Nat
          /\ Cardinality(Kept \ {Head(doomed)}) >= Cardinality(Kept) - 1
      <3>1. IsFiniteSet(Kept \ {Head(doomed)})
        BY <2>1, FS_Subset, Zenon
      <3>2. Cardinality(Kept \ {Head(doomed)}) \in Nat
        BY <3>1, FS_CardinalityType, Zenon
      <3>3. Cardinality(Kept \ {Head(doomed)}) = IF Head(doomed) \in Kept THEN Cardinality(Kept) - 1 ELSE Cardinality(Kept)
        BY <2>1, FS_RemoveElement, Zenon
      <3> QED
        BY <2>1, <3>2, <3>3
    <2>4. Cardinality(Kept') \in Nat
      BY <2>2, FS_CardinalityType, Zenon
    <2>5. Cardinality(Kept \ {Head(doomed)}) <= Cardinality(Kept')
      BY <1>7, <2>2, FS_Subset, Zenon
    <2>6. Least(m, max_results) \in Nat
      BY <1>0 DEF Least
    <2> DEFINE a == Cardinality(Kept)
               b == Cardinality(Kept \ {Head(doomed)})
               d == Cardinality(Kept')
               l == Least(m, max_results)
    <2>7. a >= l + Len(doomed) /\ Len(doomed) = 1
      BY <1>2, <1>3, Zenon
    <2>8. a \in Nat /\ b \in Nat /\ d \in Nat /\ l \in Nat /\ b >= a - 1 /\ b <= d
      BY <2>1, <2>3, <2>4, <2>5, <2>6, Zenon
    <2> HIDE DEF m, a, b, d, l
    <2>9. d \in Nat /\ d >= l
      BY <2>7, <2>8
    <2> QED
      BY <2>9, Zenon DEF d, l
  <1>9. NumTerminal(index)' = n /\ NumTerminal(Saving)' = m /\ Saving' = Saving
    <2>1. Saving' = Saving
      BY <1>1, Zenon DEF Saving, Updated
    <2> QED
      BY <1>1, <2>1, Zenon DEF NumTerminal, TerminalAt
  <1>10. EndsOnce'
    <2>1. \A t \in Kept' : t <= created' /\ all_tests'[t] # "Running" /\ t \notin Range(pending)'
      BY <1>0, <1>7, Zenon DEF EndsOnce, Quiet
    <2>2. \A k \in DOMAIN index' : index'[k].status \in Terminal => entries'[index'[k].id] \in {index'[k].status, "absent"}
      <3>1. \A k \in DOMAIN index : index[k].id \in Tests
        <4>1. \A i \in TestInfo : i.id \in Tests
          BY DEF TestInfo
        <4>2. \A k \in DOMAIN index : index[k] \in TestInfo
          <5>1. index \in Seq(TestInfo)
            BY <1>0, StoreFacts, Zenon
          <5> QED
            BY <5>1
        <4> QED
          BY <4>1, <4>2, Zenon
      <3> QED
        BY <1>0, <1>1, <1>4, <3>1, Zenon DEF EndsOnce
    <2>3. "prune" # "entry" /\ "prune" # "idle"
      OBVIOUS
    <2>4. save'.pc # "idle" /\ save'.status = "Queued" => \A k \in DOMAIN index' : index'[k].id # save'.id
      BY <1>0, <1>1, Zenon DEF EndsOnce
    <2> QED
      BY <1>1, <2>1, <2>2, <2>3, <2>4, Zenon DEF EndsOnce
  <1>11. save'.status \in Terminal => entries'[save'.id] \in {save'.status, "absent"}
    <2>1. save.id \in Tests
      BY <1>0, StoreFacts, Zenon
    <2> QED
      BY <1>1, <1>2, <1>4, <2>1, Zenon
  <1>12. Len(doomed') <= 1 /\ Cardinality(Kept') >= Least(m, max_results) + Len(doomed')
    <2>1. Least(m, max_results) \in Nat
      BY <1>0 DEF Least
    <2> HIDE DEF m
    <2> QED
      BY <1>3, <1>8, <2>1
  <1>13. max_results' = max_results
    OBVIOUS
  <1> HIDE DEF n, m
  <1> QED
    BY <1>1, <1>2, <1>3, <1>9, <1>10, <1>11, <1>12, Zenon DEF FilesEnough

(* The rename of the index: it lists no more finished tests than there are *)
(* files of them.                                                          *)
LEMMA IndexWritten ==
    ASSUME StoreInv, Quiet, WriteIndex
    PROVE  EndsOnce' /\ FilesEnough'
  <1> DEFINE m == NumTerminal(Saving)
  <1>0. /\ LifeInv /\ EndsOnce /\ FilesEnough
        /\ entries \in [Tests -> Status \cup {"absent"}] /\ index \in Seq(TestInfo) /\ UniqueIds(index)
        /\ save.id \in Tests /\ save.status \in Status /\ max_results \in Nat /\ m \in Nat
        /\ save \in [pc : {"idle", "entry", "prune"}, id : Tests, status : Status]
    BY StoreFacts, Zenon DEF StoreInv
  <1>1. /\ save.pc = "prune" /\ doomed = <<>> /\ doomed' = <<>> /\ entries' = entries
        /\ index' = Pruned(Saving)
    BY Zenon DEF WriteIndex, Saving
  <1>2. save'.pc = "idle"
    BY <1>0 DEF WriteIndex
  <1>3. /\ Saving \in Seq(TestInfo) /\ UniqueIds(Saving)
        /\ \A k \in DOMAIN Saving : \/ Saving[k].id = save.id /\ Saving[k].status = save.status
                                    \/ k \in DOMAIN index /\ Saving[k] = index[k]
    BY <1>0, SavingIs, Zenon
  <1>4. /\ \A j \in DOMAIN index' : \E k \in DOMAIN Saving : index'[j] = Saving[k]
        /\ NumTerminal(Pruned(Saving)) = Least(m, max_results)
    BY <1>1, <1>3, PrunedIs, Zenon
  <1>5. Kept' = Kept /\ NumTerminal(index)' = NumTerminal(Pruned(Saving))
    BY <1>1, Zenon DEF Kept, NumTerminal, TerminalAt
  <1>6. EndsOnce'
    <2>1. \A t \in Kept' : t <= created' /\ all_tests'[t] # "Running" /\ t \notin Range(pending)'
      BY <1>0, <1>5, Zenon DEF EndsOnce, Quiet
    <2>2. ASSUME NEW j \in DOMAIN index', index'[j].status \in Terminal
          PROVE  entries'[index'[j].id] \in {index'[j].status, "absent"}
      <3>1. PICK k \in DOMAIN Saving : index'[j] = Saving[k]
        BY <1>4, Zenon
      <3>2. save.status \in Terminal => entries[save.id] \in {save.status, "absent"}
        BY <1>0, <1>1, Zenon DEF FilesEnough
      <3>3. CASE Saving[k].id = save.id /\ Saving[k].status = save.status
        BY <1>1, <2>2, <3>1, <3>2, <3>3, Zenon
      <3>4. CASE k \in DOMAIN index /\ Saving[k] = index[k]
        BY <1>0, <1>1, <2>2, <3>1, <3>4, Zenon DEF EndsOnce
      <3> QED
        BY <1>3, <3>3, <3>4, Zenon
    <2>3. "idle" # "entry"
      OBVIOUS
    <2> QED
      BY <1>2, <2>1, <2>2, <2>3, Zenon DEF EndsOnce
  <1>7. FilesEnough'
    <2>1. Cardinality(Kept) >= Least(m, max_results)
      <3>1. Cardinality(Kept) >= Least(m, max_results) + Len(doomed)
        BY <1>0, <1>1, Zenon DEF FilesEnough
      <3>2. Least(m, max_results) \in Nat /\ Len(doomed) = 0
        BY <1>0, <1>1 DEF Least
      <3> HIDE DEF m
      <3> QED
        BY <3>1, <3>2
    <2>2. Least(m, max_results) <= max_results
      <3> HIDE DEF m
      <3> QED
        BY <1>0 DEF Least
    <2>3. "idle" # "prune"
      OBVIOUS
    <2> QED
      BY <1>1, <1>2, <1>4, <1>5, <2>1, <2>2, <2>3, Zenon DEF FilesEnough
  <1> QED
    BY <1>6, <1>7

(* The invariant of the store is kept by every step.                       *)
LEMMA StoreInvStep == StoreInv /\ [Next]_vars => StoreInv'
  <1> SUFFICES ASSUME StoreInv, Next \/ UNCHANGED vars PROVE StoreInv'
    BY Zenon
  <1>0. LifeInv /\ EndsOnce /\ FilesEnough
    BY Zenon DEF StoreInv
  <1>1. LifeInv'
    BY <1>0, LifeStep, Zenon
  <1> SUFFICES EndsOnce' /\ FilesEnough'
    BY <1>1, Zenon DEF StoreInv
  <1>2. /\ save.pc # "prune" => doomed = <<>>
        /\ save \in [pc : {"idle", "entry", "prune"}, id : Tests, status : Status]
        /\ save.pc \in {"idle", "entry", "prune"}
    BY <1>0, StoreFacts, Zenon DEF FilesEnough
  <1>3. "prune" # "idle" /\ "entry" # "idle" /\ "entry" # "prune"
    OBVIOUS
  <1>4. CASE UNCHANGED storeVars
    <2>1. UNCHANGED <<entries, index>> /\ UNCHANGED <<save, doomed>>
      BY <1>4, Zenon DEF storeVars
    <2> QED
      BY <1>0, <1>2, <1>3, <2>1, FilesFrame, Zenon DEF EndsOnce
  <1>5. CASE StoreCrash
    <2>1. save'.pc = "idle"
      BY <1>2, <1>5 DEF StoreCrash
    <2>2. UNCHANGED <<entries, index>> /\ doomed' = <<>>
      BY <1>5, Zenon DEF StoreCrash
    <2> QED
      BY <1>2, <1>3, <2>1, <2>2, FilesFrame, Zenon
  <1>6. CASE \E t \in Tests, s \in Status : Begins(t, s)
    <2>1. PICK t \in Tests, s \in Status : Begins(t, s)
      BY <1>6, Zenon
    <2> QED
      BY <1>2, <1>3, <2>1, FilesFrame, Zenon DEF Begins, BeginSave
  <1>7. CASE StoreStep /\ Quiet
    BY <1>7, EntryWritten, FileRemoved, IndexWritten, Zenon DEF StoreStep
  <1>8. CASE StoreFailure /\ Quiet
    <2>1. CASE RemoveFile(FALSE)
      BY <1>8, <2>1, FileRemoved, Zenon
    <2>2. CASE WriteFails
      <3>1. save'.pc = "idle"
        BY <1>2, <2>2 DEF WriteFails
      <3>2. UNCHANGED <<entries, index>> /\ doomed' = doomed /\ (save.pc # "prune" \/ doomed = <<>>)
        BY <1>3, <2>2, Zenon DEF WriteFails
      <3> QED
        BY <1>2, <1>3, <3>1, <3>2, FilesFrame, Zenon
    <2> QED
      BY <1>8, <2>1, <2>2, Zenon DEF StoreFailure
  <1> QED
    BY <1>0, <1>4, <1>5, <1>6, <1>7, <1>8, StoreKinds, Zenon

(* A new store, with no file and an empty index, satisfies the invariant.  *)
LEMMA StoreInvInit == Init => StoreInv
  <1> SUFFICES ASSUME Init PROVE EndsOnce /\ FilesEnough
    BY LifeInit, Zenon DEF StoreInv
  <1>1. /\ index = <<>> /\ doomed = <<>> /\ DOMAIN index = {} /\ save.pc = "idle" /\ "idle" # "entry" /\ "idle" # "prune"
        /\ \A t \in Tests : entries[t] = "absent"
    BY DEF Init, StoreInit
  <1>2. Kept = {} /\ TerminalAt(index) = {}
    <2>1. "absent" \notin Terminal
      BY DEF Terminal
    <2> QED
      BY <1>1, <2>1, Zenon DEF Kept, TerminalAt
  <1>3. Cardinality({}) = 0 /\ 0 <= max_results /\ 0 >= 0
    BY StoreAssumption, FS_EmptySet
  <1>4. NumTerminal(index) = 0 /\ Cardinality(Kept) = 0
    BY <1>2, <1>3, Zenon DEF NumTerminal
  <1> QED
    BY <1>1, <1>2, <1>3, <1>4, Zenon DEF EndsOnce, FilesEnough

(* A file goes only when it is pruned, and then max_results others stay.   *)
LEMMA PruneStep ==
    ASSUME StoreInv, StoreInv', Next \/ UNCHANGED vars, NEW t \in Tests, entries[t] # "absent", entries'[t] = "absent"
    PROVE  entries[t] \in Terminal /\ Cardinality(Kept') >= max_results
  <1>0. /\ LifeInv /\ EndsOnce /\ FilesEnough /\ FilesEnough'
        /\ entries \in [Tests -> Status \cup {"absent"}] /\ doomed \in Seq(Tests)
        /\ save.id \in Tests /\ save.status \in Status
    BY StoreFacts, Zenon DEF StoreInv
  <1>1. "absent" \notin Status
    BY DEF Status, Terminal
  <1>2. RemoveFile(TRUE)
    <2>1. entries' # entries
      OBVIOUS
    <2>2. ~WriteEntry
      BY <1>0, <1>1, Zenon DEF WriteEntry
    <2> QED
      BY <1>0, <2>1, <2>2, StoreKinds, Zenon
         DEF storeVars, StoreCrash, Begins, BeginSave, StoreStep, StoreFailure, WriteFails, WriteIndex, RemoveFile
  <1>3. /\ save.pc = "prune" /\ doomed # <<>> /\ UNCHANGED <<index, save>>
        /\ entries' = [entries EXCEPT ![Head(doomed)] = "absent"]
    BY <1>2, Zenon DEF RemoveFile
  <1>4. t = Head(doomed)
    BY <1>0, <1>3, Zenon
  <1>5. t = doomed[1]
    BY <1>0, <1>3, <1>4
  <1>6. entries[t] \in Terminal /\ NumTerminal(Saving) > max_results
    BY <1>0, <1>3, <1>5, Zenon DEF FilesEnough
  <1>7. NumTerminal(Saving)' = NumTerminal(Saving)
    <2>1. Saving' = Saving
      BY <1>3, Zenon DEF Saving, Updated
    <2> QED
      BY <2>1, Zenon DEF NumTerminal, TerminalAt
  <1>8. Cardinality(Kept') >= Least(NumTerminal(Saving), max_results) + Len(doomed')
    BY <1>0, <1>3, <1>7, Zenon DEF FilesEnough
  <1>9. /\ NumTerminal(Saving) \in Nat /\ max_results \in Nat /\ Len(doomed') \in Nat /\ Cardinality(Kept') \in Nat
    <2>1. LifeInv' /\ doomed' \in Seq(Tests)
      BY StoreType, Zenon DEF StoreInv, LifeInv, QueueInv, TypeOK, StoreTypeOK
    <2>2. Len(doomed') \in Nat
      BY <2>1, SeqLength, Zenon
    <2> QED
      BY <1>0, <2>2, StoreFacts, KeptFinite, Zenon
  <1> QED
    BY <1>6, <1>8, <1>9 DEF Least

(* Pruning, for every number of tests and every sequence of saves, crashes *)
(* and disk failures: a file that prune removes is that of a test that has *)
(* ended, and at least max_results results stay on disk, although a save   *)
(* that was cut off leaves files that the index does not list.             *)
THEOREM PrunesRight == Spec => PruneKeepsEnough
  <1>1. Init => StoreInv
    BY StoreInvInit
  <1>2. StoreInv /\ [Next]_vars => StoreInv'
    BY StoreInvStep
  <1>3. StoreInv /\ StoreInv' /\ [Next]_vars =>
          [\A t \in Tests : entries[t] # "absent" /\ entries'[t] = "absent" =>
              /\ entries[t] \in Terminal
              /\ Cardinality({u \in Tests : entries'[u] \in Terminal}) >= max_results]_vars
    BY PruneStep, Zenon DEF Kept
  <1> QED
    BY <1>1, <1>2, <1>3, PTL DEF Spec, PruneKeepsEnough

-----------------------------------------------------------------------------
(* A step after which nothing has crashed or failed.                       *)
LEMMA Unfailed ==
    ASSUME LifeInv, EndsOnce, Next \/ UNCHANGED vars, crashes' = 0, failures' = 0
    PROVE  /\ crashes = 0 /\ failures = 0
           /\ \/ UNCHANGED storeVars /\ (Quiet \/ Dequeue)
              \/ \E t \in Tests, s \in Status : Begins(t, s)
              \/ StoreStep /\ Quiet
  <1>1. failures \in Nat /\ crashes \in Nat
    BY Zenon DEF LifeInv, QueueInv, TypeOK
  <1>2. ~DiskFails /\ ~Restart
    BY <1>1 DEF DiskFails, Restart
  <1>3. \A c, d : /\ SendHold(c) => UNCHANGED <<failures, crashes>>
                  /\ GoTo(c, d) => UNCHANGED <<failures, crashes>>
                  /\ PutController(c) => UNCHANGED <<failures, crashes>>
                  /\ CancelPending(c) => UNCHANGED <<failures, crashes>>
                  /\ MarkCompleted(c) => UNCHANGED <<failures, crashes>>
    BY Zenon DEF SendHold, GoTo, PutController, CancelPending, MarkCompleted, history
  <1>4. Api => UNCHANGED <<failures, crashes>>
    BY <1>3, Zenon DEF Api, create_test, cancel_test, put_rate, put_hold, delete_hold, put_controller,
                       CreateTest, CancelRunning, history
  <1>5. Scheduler => UNCHANGED <<failures, crashes>>
    <2>1. Dequeue \/ ProcessCommands => UNCHANGED <<failures, crashes>>
      BY Zenon DEF Dequeue, ProcessCommands, history
    <2> QED
      BY <1>3, <2>1, Zenon DEF Scheduler, Start, TickOver, TickCancelled, TickContinue, AllNodesFailed,
                                Finish, NoNodes, SetupFailed
  <1>6. Disk \/ UNCHANGED vars => UNCHANGED <<failures, crashes>>
    BY Zenon DEF Disk, history, vars
  <1>7. UNCHANGED <<failures, crashes>>
    BY <1>2, <1>4, <1>5, <1>6, Zenon DEF Next
  <1> QED
    BY <1>7, StoreKinds, Zenon

(* A status that is saved is the one that is listed.                       *)
LEMMA SavedIsListed ==
    ASSUME LifeInv, EndsOnce, StoreExact, Next \/ UNCHANGED vars, save'.pc = "entry"
    PROVE  all_tests'[save'.id] = save'.status
  <1>1. /\ save \in [pc : {"idle", "entry", "prune"}, id : Tests, status : Status]
        /\ all_tests \in [Tests -> Status \cup {"unknown"}]
    BY StoreFacts, Zenon DEF LifeInv, QueueInv, TypeOK
  <1>2. "entry" # "idle" /\ "entry" # "prune"
    OBVIOUS
  <1>3. CASE UNCHANGED storeVars /\ (Quiet \/ Dequeue)
    <2>1. save' = save /\ ~Dequeue
      BY <1>2, <1>3, Zenon DEF storeVars, Dequeue, Free
    <2> QED
      BY <1>3, <2>1, Zenon DEF StoreExact, Quiet
  <1>4. CASE \E t \in Tests, s \in Status : Begins(t, s)
    <2>1. PICK t \in Tests, s \in Status : Begins(t, s)
      BY <1>4, Zenon
    <2>2. save'.id = t /\ save'.status = s
      BY <2>1 DEF Begins, BeginSave
    <2> QED
      BY <1>1, <2>1, <2>2, Zenon DEF Begins
  <1>5. ~(StoreCrash \/ StoreStep \/ StoreFailure)
    <2>1. StoreCrash => save'.pc = "idle"
      BY <1>1 DEF StoreCrash
    <2>2. WriteIndex \/ WriteFails => save'.pc = "idle"
      BY <1>1 DEF WriteIndex, WriteFails
    <2>3. WriteEntry => save'.pc = "prune"
      BY <1>1 DEF WriteEntry
    <2>4. RemoveFile(TRUE) \/ RemoveFile(FALSE) => save'.pc = "prune"
      BY Zenon DEF RemoveFile
    <2> QED
      BY <1>2, <2>1, <2>2, <2>3, <2>4, Zenon DEF StoreStep, StoreFailure
  <1> QED
    BY <1>3, <1>4, <1>5, StoreKinds, Zenon

(* The files of a store that is left alone.                                *)
LEMMA ExactSame ==
    ASSUME StoreInv, UNCHANGED storeVars, Quiet \/ Dequeue,
           IF save.pc = "prune" THEN FilesPruned ELSE FilesListed,
           \A t \in Tests : EntryShown(t) \/ (save.pc = "entry" /\ t = save.id)
    PROVE  /\ IF save'.pc = "prune" THEN FilesPruned' ELSE FilesListed'
           /\ \A t \in Tests : EntryShown(t)' \/ (save'.pc = "entry" /\ t = save'.id)
  <1>1. UNCHANGED <<entries, index, save, doomed>>
    BY Zenon DEF storeVars
  <1>2. FilesListed => FilesListed'
    BY <1>1, Zenon DEF FilesListed, Lists
  <1>3. FilesPruned => FilesPruned'
    <2>1. Saving' = Saving
      BY <1>1, Zenon DEF Saving, Updated
    <2>2. Excessive' = Excessive
      BY <2>1, Zenon DEF Excessive
    <2> QED
      BY <1>1, <2>1, <2>2, Zenon DEF FilesPruned, Lists
  <1>4. CASE Quiet
    BY <1>1, <1>2, <1>3, <1>4, Zenon DEF EntryShown, Quiet
  <1>5. CASE Dequeue
    <2>0. LifeInv /\ TypeOK /\ ListInv /\ DiskShown
      BY Zenon DEF StoreInv, LifeInv, QueueInv, ListInv
    <2>1. PICK h \in Tests : all_tests[h] = "Queued" /\ all_tests' = [all_tests EXCEPT ![h] = "Running"]
      BY <1>5, <2>0, DequeueList, Zenon DEF Life!Run, Dequeue, NextTest, ListInv, ListAgrees
    <2>2. save.pc = "idle" /\ "idle" # "entry" /\ "idle" # "prune"
      BY <1>5 DEF Dequeue, Free
    <2>3. all_tests \in [Tests -> Status \cup {"unknown"}]
      BY <2>0, Zenon DEF TypeOK
    <2>4. \A t \in Tests : all_tests'[t] = IF t = h THEN "Running" ELSE all_tests[t]
      BY <2>1, <2>3, Zenon
    <2>5. "Running" # "unknown" /\ "Running" \notin Terminal
      BY DEF Terminal
    <2>6. \A t \in Tests : EntryShown(t)'
      BY <1>1, <2>1, <2>2, <2>4, <2>5, Zenon DEF EntryShown
    <2> QED
      BY <1>1, <1>2, <2>2, <2>6, Zenon
  <1> QED
    BY <1>4, <1>5, Zenon

(* A sequence of at most one test.                                         *)
LEMMA AtMostOne ==
    ASSUME NEW q \in Seq(Tests), Len(q) <= 1
    PROVE  /\ q # <<>> => 1 \in DOMAIN q /\ Head(q) = q[1] /\ q[1] \in Tests /\ DOMAIN Tail(q) = {}
           /\ \A i \in DOMAIN q : q = <<q[i]>>
  <1>1. Len(q) \in Nat /\ DOMAIN q = 1..Len(q)
    OBVIOUS
  <1>2. CASE Len(q) = 0
    BY <1>1, <1>2
  <1>3. CASE Len(q) = 1
    <2>1. DOMAIN q = {1} /\ q[1] \in Tests /\ q = <<q[1]>>
      BY <1>1, <1>3
    <2>2. q # <<>> => DOMAIN Tail(q) = {}
      <3>1. DOMAIN Tail(q) = 1..(Len(q) - 1)
        OBVIOUS
      <3> QED
        BY <1>3, <3>1
    <2> QED
      BY <2>1, <2>2
  <1> QED
    BY <1>1, <1>2, <1>3

(* A save that begins: the file of its test is the one that is behind.     *)
LEMMA ExactBegins ==
    ASSUME StoreInv, NEW t \in Tests, NEW s \in Status, Begins(t, s), FilesListed,
           \A u \in Tests : EntryShown(u)
    PROVE  /\ save'.pc = "entry" /\ FilesListed'
           /\ \A u \in Tests : EntryShown(u)' \/ u = save'.id
  <1>1. save'.pc = "entry" /\ save'.id = t
    BY Zenon DEF Begins, BeginSave
  <1>2. UNCHANGED <<entries, index>> /\ all_tests' = [all_tests EXCEPT ![t] = s]
    BY Zenon DEF Begins, BeginSave
  <1>3. all_tests \in [Tests -> Status \cup {"unknown"}]
    BY Zenon DEF StoreInv, LifeInv, QueueInv, TypeOK
  <1>4. \A u \in Tests : u # t => all_tests'[u] = all_tests[u]
    BY <1>2, <1>3, Zenon
  <1> QED
    BY <1>1, <1>2, <1>4, Zenon DEF FilesListed, Lists, EntryShown

(* The file of the saved test is written: the files are those of the index *)
(* to be written.                                                          *)
LEMMA ExactEntry ==
    ASSUME StoreInv, StoreInv', Quiet, WriteEntry, FilesListed, all_tests[save.id] = save.status,
           \A t \in Tests : EntryShown(t) \/ t = save.id
    PROVE  FilesPruned' /\ \A t \in Tests : EntryShown(t)'
  <1>0. /\ LifeInv /\ EndsOnce /\ FilesEnough' /\ entries \in [Tests -> Status \cup {"absent"}]
        /\ index \in Seq(TestInfo) /\ UniqueIds(index) /\ save.id \in Tests /\ save.status \in Status
        /\ save \in [pc : {"idle", "entry", "prune"}, id : Tests, status : Status]
    BY StoreFacts, Zenon DEF StoreInv
  <1>1. /\ save.pc = "entry" /\ entries' = [entries EXCEPT ![save.id] = save.status] /\ index' = index
        /\ doomed' = PruneIds(Saving)
    BY Zenon DEF WriteEntry, Saving
  <1>2. save'.pc = "prune" /\ save'.id = save.id /\ save'.status = save.status
    BY <1>0 DEF WriteEntry
  <1>3. Saving' = Saving /\ Excessive' = Excessive /\ Excessive = Range(doomed')
    <2>1. Saving' = Saving
      BY <1>1, <1>2, Zenon DEF Saving, Updated
    <2> QED
      BY <1>1, <2>1, Zenon DEF Excessive
  <1>4. \A t \in Tests : entries'[t] = IF t = save.id THEN save.status ELSE entries[t]
    BY <1>0, <1>1, Zenon
  <1>5. /\ DOMAIN index \subseteq DOMAIN Saving
        /\ \A k \in DOMAIN index : index[k].id # save.id => Saving[k] = index[k]
        /\ \A k \in DOMAIN Saving : \/ Saving[k].id = save.id /\ Saving[k].status = save.status
                                    \/ k \in DOMAIN index /\ Saving[k] = index[k] /\ Saving[k].id # save.id
        /\ \E p \in DOMAIN Saving : Saving[p].id = save.id /\ Saving[p].status = save.status
    BY <1>0, SavingIs, Zenon
  <1>6. \A k \in DOMAIN index : index[k].id \in Tests
    <2>1. \A i \in TestInfo : i.id \in Tests
      BY Zenon DEF TestInfo
    <2>2. \A k \in DOMAIN index : index[k] \in TestInfo
      BY <1>0
    <2> QED
      BY <2>1, <2>2, Zenon
  <1>7. \A k \in DOMAIN Saving : entries'[Saving[k].id] = Saving[k].status
    <2> SUFFICES ASSUME NEW k \in DOMAIN Saving PROVE entries'[Saving[k].id] = Saving[k].status
      BY Zenon
    <2>1. CASE Saving[k].id = save.id /\ Saving[k].status = save.status
      BY <1>0, <1>4, <2>1, Zenon
    <2>2. CASE k \in DOMAIN index /\ Saving[k] = index[k] /\ Saving[k].id # save.id
      <3>1. entries'[Saving[k].id] = entries[Saving[k].id]
        BY <1>4, <1>6, <2>2, Zenon
      <3> QED
        BY <2>2, <3>1, Zenon DEF FilesListed
    <2> QED
      BY <1>5, <2>1, <2>2, Zenon
  <1>8. ASSUME NEW t \in Tests, entries'[t] # "absent" PROVE Lists(Saving, t)
    <2>1. CASE t = save.id
      BY <1>5, <2>1, Zenon DEF Lists
    <2>2. CASE t # save.id
      <3>1. entries[t] # "absent"
        BY <1>4, <1>8, <2>2, Zenon
      <3>2. PICK k \in DOMAIN index : index[k].id = t
        BY <3>1, Zenon DEF FilesListed, Lists
      <3> QED
        BY <1>5, <2>2, <3>2, Zenon DEF Lists
    <2> QED
      BY <2>1, <2>2, Zenon
  <1>9. ASSUME NEW t \in Excessive PROVE doomed' = <<t>>
    <2>1. doomed' \in Seq(Tests)
      BY Zenon DEF StoreInv, LifeInv, QueueInv, TypeOK, StoreTypeOK
    <2>2. Len(doomed') <= 1
      BY <1>0, <1>2, Zenon DEF FilesEnough
    <2>3. PICK i \in DOMAIN doomed' : doomed'[i] = t
      BY <1>3, Zenon DEF Range
    <2> QED
      BY <2>1, <2>2, <2>3, AtMostOne, Zenon
  <1>10. FilesPruned'
    BY <1>3, <1>7, <1>8, <1>9, Zenon DEF FilesPruned, Lists
  <1>11. ASSUME NEW t \in Tests PROVE EntryShown(t)'
    <2>1. CASE t # save.id
      BY <1>4, <2>1, Zenon DEF EntryShown, Quiet
    <2>2. CASE t = save.id
      <3>1. all_tests'[t] = save.status /\ entries'[t] = save.status
        BY <1>4, <2>2, Zenon DEF Quiet
      <3>2. save.status # "Running" /\ "unknown" \notin Status
        <4>1. "entry" # "idle"
          OBVIOUS
        <4>2. "unknown" \notin Status
          BY DEF Status, Terminal
        <4> QED
          BY <1>0, <1>1, <4>1, <4>2, Zenon DEF LifeInv, DiskShown, Shown
      <3> QED
        BY <1>0, <3>1, <3>2, Zenon DEF EntryShown
    <2> QED
      BY <2>1, <2>2, Zenon
  <1> QED
    BY <1>10, <1>11

(* A file is removed: that of a test which the new index leaves out.       *)
LEMMA ExactRemoved ==
    ASSUME StoreInv, StoreInv', Quiet, RemoveFile(TRUE), FilesPruned, \A t \in Tests : EntryShown(t)
    PROVE  FilesPruned' /\ \A t \in Tests : EntryShown(t)'
  <1> DEFINE h == Head(doomed)
  <1>0. /\ LifeInv /\ FilesEnough /\ FilesEnough' /\ doomed \in Seq(Tests)
        /\ entries \in [Tests -> Status \cup {"absent"}]
    BY StoreFacts, Zenon DEF StoreInv
  <1>1. /\ save.pc = "prune" /\ doomed # <<>> /\ doomed' = Tail(doomed) /\ UNCHANGED <<index, save>>
        /\ entries' = [entries EXCEPT ![h] = "absent"]
    BY Zenon DEF RemoveFile
  <1>2. Len(doomed) <= 1 /\ entries[doomed[1]] \in Terminal \cup {"absent"}
    BY <1>0, <1>1, Zenon DEF FilesEnough
  <1>3. 1 \in DOMAIN doomed /\ h = doomed[1] /\ h \in Tests /\ DOMAIN doomed' = {}
    BY <1>0, <1>1, <1>2, AtMostOne, Zenon
  <1>4. Saving' = Saving /\ Excessive' = Excessive
    <2>1. Saving' = Saving
      BY <1>1, Zenon DEF Saving, Updated
    <2> QED
      BY <2>1, Zenon DEF Excessive
  <1>5. h \in Excessive
    BY <1>3, Zenon DEF FilesPruned, Range
  <1>6. \A t \in Tests : (t # h => entries'[t] = entries[t]) /\ entries'[h] = "absent"
    BY <1>0, <1>1, <1>3, Zenon
  <1>7. \A k \in DOMAIN Saving : Saving[k].id \in Tests
    <2>1. \A i \in TestInfo : i.id \in Tests
      BY DEF TestInfo
    <2>2. Saving \in Seq(TestInfo)
      BY <1>0, StoreFacts, SavingIs, Zenon
    <2>3. \A k \in DOMAIN Saving : Saving[k] \in TestInfo
      BY <2>2
    <2> QED
      BY <2>1, <2>3, Zenon
  <1>8. \A t : doomed = <<t>> => t = h
    BY <1>3
  <1> HIDE DEF h
  <1>9. FilesPruned'
    <2>1. \A k \in DOMAIN Saving : Saving[k].id \notin Excessive => entries'[Saving[k].id] = Saving[k].status
      BY <1>5, <1>6, <1>7, Zenon DEF FilesPruned
    <2>2. \A t \in Tests : entries'[t] # "absent" => Lists(Saving, t) /\ t \notin Excessive
      BY <1>6, <1>8, Zenon DEF FilesPruned
    <2>3. Range(doomed') = {}
      BY <1>3, Zenon DEF Range
    <2> QED
      BY <1>4, <2>1, <2>2, <2>3, Zenon DEF FilesPruned, Lists
  <1>10. ASSUME NEW t \in Tests PROVE EntryShown(t)'
    <2>1. CASE t # h
      BY <1>6, <2>1, Zenon DEF EntryShown, Quiet
    <2>2. CASE t = h
      <3>1. entries'[t] = "absent" /\ entries[t] \in Terminal \cup {"absent"} /\ "Queued" \notin Terminal \cup {"absent"}
        BY <1>2, <1>3, <1>6, <2>2, Zenon DEF Terminal
      <3> QED
        BY <3>1, Zenon DEF EntryShown, Quiet
    <2> QED
      BY <2>1, <2>2, Zenon
  <1> QED
    BY <1>9, <1>10

(* The index is written: it lists the files that are left.                 *)
LEMMA ExactIndex ==
    ASSUME StoreInv, Quiet, WriteIndex, FilesPruned, \A t \in Tests : EntryShown(t)
    PROVE  save'.pc = "idle" /\ FilesListed' /\ \A t \in Tests : EntryShown(t)'
  <1>0. /\ LifeInv /\ index \in Seq(TestInfo) /\ UniqueIds(index) /\ save.id \in Tests /\ save.status \in Status
        /\ save \in [pc : {"idle", "entry", "prune"}, id : Tests, status : Status]
    BY StoreFacts, Zenon DEF StoreInv
  <1>1. doomed = <<>> /\ entries' = entries /\ index' = Pruned(Saving)
    BY Zenon DEF WriteIndex, Saving
  <1>2. save'.pc = "idle"
    BY <1>0 DEF WriteIndex
  <1>3. Saving \in Seq(TestInfo) /\ UniqueIds(Saving)
    BY <1>0, SavingIs, Zenon
  <1>4. /\ \A j \in DOMAIN index' : \E k \in DOMAIN Saving : index'[j] = Saving[k] /\ Saving[k].id \notin Excessive
        /\ \A k \in DOMAIN Saving : Saving[k].id \notin Excessive => \E j \in DOMAIN index' : index'[j] = Saving[k]
    BY <1>1, <1>3, PrunedIs, Zenon DEF Excessive
  <1>5. \A t : doomed # <<t>>
    BY <1>1
  <1>6. \A j \in DOMAIN index' : entries'[index'[j].id] = index'[j].status
    <2> SUFFICES ASSUME NEW j \in DOMAIN index' PROVE entries'[index'[j].id] = index'[j].status
      BY Zenon
    <2>1. PICK k \in DOMAIN Saving : index'[j] = Saving[k] /\ Saving[k].id \notin Excessive
      BY <1>4, Zenon
    <2>2. entries[Saving[k].id] = Saving[k].status
      BY <2>1, Zenon DEF FilesPruned
    <2> QED
      BY <1>1, <2>1, <2>2, Zenon
  <1>7. ASSUME NEW t \in Tests, entries'[t] # "absent" PROVE \E j \in DOMAIN index' : index'[j].id = t
    <2>1. Lists(Saving, t) /\ t \notin Excessive
      BY <1>1, <1>5, <1>7, Zenon DEF FilesPruned
    <2>2. PICK k \in DOMAIN Saving : Saving[k].id = t
      BY <2>1, Zenon DEF Lists
    <2> QED
      BY <1>4, <2>1, <2>2, Zenon
  <1>8. FilesListed'
    BY <1>6, <1>7, Zenon DEF FilesListed, Lists
  <1> QED
    BY <1>1, <1>2, <1>8, Zenon DEF EntryShown, Quiet

(* Without crashes and failures the files stay those of the index.         *)
LEMMA StoreExactStep == StoreInv /\ StoreExact /\ [Next]_vars => StoreExact'
  <1> SUFFICES ASSUME StoreInv, StoreExact, Next \/ UNCHANGED vars PROVE StoreExact'
    BY Zenon
  <1>0. LifeInv /\ EndsOnce /\ StoreInv'
    BY StoreInvStep, Zenon DEF StoreInv
  <1>1. save'.pc = "entry" => all_tests'[save'.id] = save'.status
    BY <1>0, SavedIsListed, Zenon
  <1> SUFFICES ASSUME crashes' = 0, failures' = 0
               PROVE  /\ IF save'.pc = "prune" THEN FilesPruned' ELSE FilesListed'
                      /\ \A t \in Tests : EntryShown(t)' \/ (save'.pc = "entry" /\ t = save'.id)
    BY <1>1, Zenon DEF StoreExact
  <1>2. crashes = 0 /\ failures = 0
    BY <1>0, Unfailed, Zenon
  <1>3. /\ IF save.pc = "prune" THEN FilesPruned ELSE FilesListed
        /\ \A t \in Tests : EntryShown(t) \/ (save.pc = "entry" /\ t = save.id)
    BY <1>2, Zenon DEF StoreExact
  <1>4. "prune" # "idle" /\ "entry" # "idle" /\ "entry" # "prune"
    OBVIOUS
  <1>5. CASE UNCHANGED storeVars /\ (Quiet \/ Dequeue)
    BY <1>3, <1>5, ExactSame, Zenon
  <1>6. CASE \E t \in Tests, s \in Status : Begins(t, s)
    <2>1. PICK t \in Tests, s \in Status : Begins(t, s)
      BY <1>6, Zenon
    <2>2. FilesListed /\ \A u \in Tests : EntryShown(u)
      BY <1>3, <1>4, <2>1, Zenon DEF Begins
    <2> QED
      BY <1>4, <2>1, <2>2, ExactBegins, Zenon
  <1>7. CASE WriteEntry /\ Quiet
    <2>1. save.pc = "entry" /\ FilesListed /\ all_tests[save.id] = save.status /\ \A t \in Tests : EntryShown(t) \/ t = save.id
      BY <1>3, <1>4, <1>7, Zenon DEF WriteEntry, StoreExact
    <2>2. save'.pc = "prune"
      <3>1. save \in [pc : {"idle", "entry", "prune"}, id : Tests, status : Status]
        BY <1>0, StoreFacts, Zenon
      <3> QED
        BY <1>7, <3>1 DEF WriteEntry
    <2> QED
      BY <1>0, <1>7, <2>1, <2>2, ExactEntry, Zenon
  <1>8. CASE RemoveFile(TRUE) /\ Quiet
    <2>1. save'.pc = "prune" /\ FilesPruned /\ \A t \in Tests : EntryShown(t)
      BY <1>3, <1>4, <1>8, Zenon DEF RemoveFile
    <2> QED
      BY <1>0, <1>8, <2>1, ExactRemoved, Zenon
  <1>9. CASE WriteIndex /\ Quiet
    <2>1. FilesPruned /\ \A t \in Tests : EntryShown(t)
      BY <1>3, <1>4, <1>9, Zenon DEF WriteIndex
    <2> QED
      BY <1>4, <1>9, <2>1, ExactIndex, Zenon
  <1> QED
    BY <1>0, <1>5, <1>6, <1>7, <1>8, <1>9, Unfailed, Zenon DEF StoreStep

(* Between two saves the index is the set of files.                        *)
LEMMA ExactAgrees ==
    ASSUME StoreInv, StoreExact
    PROVE  StoreAgrees
  <1> SUFFICES ASSUME save.pc = "idle", crashes = 0, failures = 0
               PROVE  /\ Len(index) = Cardinality(Range(index))
                      /\ Range(index) = {[id |-> t, status |-> entries[t]] : t \in {u \in Tests : entries[u] # "absent"}}
                      /\ Cardinality(Kept) <= max_results
                      /\ \A t \in Tests : EntryShown(t)
    BY Zenon DEF StoreAgrees, Kept, EntryShown
  <1>0. /\ LifeInv /\ FilesEnough /\ index \in Seq(TestInfo) /\ UniqueIds(index)
        /\ "absent" \notin Status /\ entries \in [Tests -> Status \cup {"absent"}]
    <2>1. "absent" \notin Status
      BY DEF Status, Terminal
    <2> QED
      BY <2>1, StoreFacts, Zenon DEF StoreInv
  <1>1. FilesListed /\ \A t \in Tests : EntryShown(t)
    <2>1. "idle" # "prune" /\ "idle" # "entry"
      OBVIOUS
    <2> QED
      BY <2>1, Zenon DEF StoreExact
  <1>2. \A k \in DOMAIN index : index[k] \in TestInfo
    BY <1>0
  <1>3. \A i \in TestInfo : i.id \in Tests /\ i.status \in Status /\ i = [id |-> i.id, status |-> i.status]
    BY DEF TestInfo
  <1>4. DOMAIN index = 1..Len(index) /\ Len(index) \in Nat
    BY <1>0
  <1>5. IsFiniteSet(DOMAIN index) /\ Cardinality(DOMAIN index) = Len(index)
    <2>1. 1 \in Int /\ Len(index) \in Int
      BY <1>4
    <2>2. /\ IsFiniteSet(1..Len(index))
          /\ Cardinality(1..Len(index)) = IF 1 > Len(index) THEN 0 ELSE Len(index) - 1 + 1
      BY <2>1, FS_Interval, Zenon
    <2> QED
      BY <1>4, <2>2
  <1>6. Len(index) = Cardinality(Range(index))
    <2> DEFINE f == [k \in DOMAIN index |-> index[k]]
    <2>1. f \in [DOMAIN index -> Range(index)] /\ \A z \in Range(index) : \E k \in DOMAIN index : f[k] = z
      BY Zenon DEF Range
    <2>2. \A k, l \in DOMAIN index : f[k] = f[l] => k = l
      BY <1>0, Zenon DEF UniqueIds
    <2> HIDE DEF f
    <2>3. Corresponds(f, DOMAIN index, Range(index))
      BY <2>1, <2>2, Zenon DEF Corresponds
    <2> QED
      BY <1>5, <2>3, SameSize, Zenon
  <1>7. ASSUME NEW k \in DOMAIN index
        PROVE  index[k].id \in Tests /\ entries[index[k].id] # "absent" /\ index[k] = [id |-> index[k].id, status |-> entries[index[k].id]]
    BY <1>0, <1>1, <1>2, <1>3, Zenon DEF FilesListed
  <1>8. ASSUME NEW t \in Tests, entries[t] # "absent" PROVE \E k \in DOMAIN index : index[k].id = t
    BY <1>1, <1>8, Zenon DEF FilesListed, Lists
  <1>9. Range(index) = {[id |-> t, status |-> entries[t]] : t \in {u \in Tests : entries[u] # "absent"}}
    <2>1. \A k \in DOMAIN index : index[k] \in {[id |-> t, status |-> entries[t]] : t \in {u \in Tests : entries[u] # "absent"}}
      BY <1>7, Zenon
    <2>2. ASSUME NEW t \in Tests, entries[t] # "absent" PROVE [id |-> t, status |-> entries[t]] \in Range(index)
      <3>1. PICK k \in DOMAIN index : index[k].id = t
        BY <1>8, <2>2, Zenon
      <3>2. index[k] = [id |-> t, status |-> entries[t]]
        BY <1>7, <3>1, Zenon
      <3> QED
        BY <3>2 DEF Range
    <2> QED
      BY <2>1, <2>2, Zenon DEF Range
  <1>10. Cardinality(Kept) <= max_results
    <2> DEFINE f == [k \in TerminalAt(index) |-> index[k].id]
    <2>1. IsFiniteSet(TerminalAt(index))
      BY <1>0, PruneIdsIs, Zenon
    <2>2. f \in [TerminalAt(index) -> Kept]
      BY <1>1, <1>7, Zenon DEF TerminalAt, Kept, FilesListed
    <2>3. \A k, l \in TerminalAt(index) : f[k] = f[l] => k = l
      BY <1>0, Zenon DEF UniqueIds, TerminalAt
    <2>4. "absent" \notin Terminal
      BY DEF Terminal
    <2>5. \A z \in Kept : \E k \in TerminalAt(index) : f[k] = z
      BY <1>1, <1>8, <2>4, Zenon DEF TerminalAt, Kept, FilesListed
    <2> HIDE DEF f
    <2>6. Cardinality(Kept) = NumTerminal(index)
      <3>1. Corresponds(f, TerminalAt(index), Kept)
        BY <2>2, <2>3, <2>5, Zenon DEF Corresponds
      <3> QED
        BY <2>1, <3>1, SameSize, Zenon DEF NumTerminal
    <2> QED
      BY <1>0, <2>6, Zenon DEF FilesEnough
  <1> QED
    BY <1>1, <1>6, <1>9, <1>10, Zenon

(* The store agrees with the list, for every number of tests and saves, as *)
(* long as nothing crashed or failed: between two saves the index lists    *)
(* the files, once each and with their status, the files say what the      *)
(* clients see, and no more than max_results finished tests are kept       *)
(* (ResultStore::save, prune).                                             *)
THEOREM StoreIsExact == Spec => []StoreAgrees
  <1>1. Init => StoreInv /\ StoreExact
    <2> SUFFICES ASSUME Init PROVE StoreExact
      BY StoreInvInit
    <2>1. /\ DOMAIN index = {} /\ save.pc = "idle" /\ "idle" # "entry" /\ "idle" # "prune"
          /\ \A t \in Tests : entries[t] = "absent" /\ all_tests[t] = "unknown"
      BY DEF Init, StoreInit
    <2>2. "unknown" \notin {"Queued", "Running"} /\ "unknown" \notin Terminal
      BY DEF Terminal
    <2> QED
      BY <2>1, <2>2, Zenon DEF StoreExact, FilesListed, EntryShown
  <1>2. StoreInv /\ StoreExact /\ [Next]_vars => (StoreInv /\ StoreExact)'
    BY StoreInvStep, StoreExactStep
  <1>3. StoreInv /\ StoreExact => StoreAgrees
    BY ExactAgrees
  <1> QED
    BY <1>1, <1>2, <1>3, PTL DEF Spec
=============================================================================
