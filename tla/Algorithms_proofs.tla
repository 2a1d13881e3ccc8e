------------------------- MODULE Algorithms_proofs -------------------------
(***************************************************************************)
(* What unpacking an archive, chunking a text or a statute, and listing a  *)
(* library do, for all of them and every limit.                            *)
(*                                                                         *)
(* The loops are recursive functions on 0..n.  Induction over n is had     *)
(* from the well-foundedness of < on Nat, stated of sets: a set of numbers *)
(* that is not empty has a least element.                                  *)
(***************************************************************************)
EXTENDS Algorithms, FiniteSetTheorems, SequenceTheorems, WellFoundedInduction, TLAPS

-----------------------------------------------------------------------------
(* Induction, and loops. *)

NatLess == {ss \in Nat \X Nat : ss[1] < ss[2]}

LEMMA NatLessWF == IsWellFoundedOn(NatLess, Nat)
  BY NatLessThanWellFounded DEF OpToRel, NatLess

LEMMA LeastNat ==
  ASSUME NEW T, T \subseteq Nat, T # {}
  PROVE  \E x \in T : \A y \in T : x <= y
  <1>1. PICK x \in T : \A y \in T : ~ (<<y, x>> \in NatLess)
    BY WFMin, NatLessWF
  <1>2. ASSUME NEW y \in T PROVE x <= y
    <2>1. x \in Nat /\ y \in Nat
      OBVIOUS
    <2>2. <<y, x>> \in Nat \X Nat /\ <<y, x>>[1] = y /\ <<y, x>>[2] = x
      BY <2>1
    <2>3. ~(y < x)
      BY <1>1, <2>2 DEF NatLess
    <2> QED
      BY <2>1, <2>3
  <1> QED
    BY <1>2

\* Induction, on the set of the numbers that have the property.
LEMMA NatSetInduction ==
  ASSUME NEW S, 0 \in S, \A n \in Nat : n \in S => n + 1 \in S
  PROVE  Nat \subseteq S
  <1> SUFFICES ASSUME Nat \ S # {} PROVE FALSE
    OBVIOUS
  <1>1. PICK x \in Nat \ S : \A y \in Nat \ S : x <= y
    BY LeastNat
  <1>2. x # 0 /\ x - 1 \in Nat
    BY <1>1
  <1>3. x - 1 \in S
    BY <1>1, <1>2
  <1> QED
    BY <1>1, <1>2, <1>3

LEMMA GreatestBelow ==
  ASSUME NEW b \in Nat, NEW T, T \subseteq 0..b, T # {}
  PROVE  \E x \in T : \A y \in T : x >= y
  <1> DEFINE U == {k \in 0..b : b - k \in T}
  <1>1. U \subseteq Nat
    OBVIOUS
  <1>2. U # {}
    <2>1. PICK y \in T : TRUE
      OBVIOUS
    <2>2. y \in 0..b
      OBVIOUS
    <2>3. b - y \in 0..b /\ b - (b - y) = y
      BY <2>2
    <2> QED
      BY <2>3
  <1>3. PICK k \in U : \A l \in U : k <= l
    <2> HIDE DEF U
    <2> QED BY <1>1, <1>2, LeastNat
  <1>4. b - k \in T /\ k \in 0..b
    OBVIOUS
  <1>5. ASSUME NEW y \in T PROVE b - k >= y
    <2>1. y \in 0..b
      OBVIOUS
    <2>2. b - y \in 0..b /\ b - (b - y) = y
      BY <2>1
    <2>3. k <= b - y
      BY <1>3, <2>2
    <2> QED
      BY <1>4, <2>1, <2>3
  <1> QED
    BY <1>4, <1>5

\* Induction up to n.
LEMMA UpToInduction ==
  ASSUME NEW n \in Nat, NEW S, 0 \in S, \A i \in 1..n : i - 1 \in S => i \in S
  PROVE  0..n \subseteq S
  <1> DEFINE T == {k \in Nat : k <= n => k \in S}
  <1>1. 0 \in T
    OBVIOUS
  <1>2. ASSUME NEW k \in Nat, k \in T PROVE k + 1 \in T
    <2> SUFFICES ASSUME k + 1 <= n PROVE k + 1 \in S
      OBVIOUS
    <2>1. k + 1 \in 1..n /\ (k + 1) - 1 = k /\ k \in S
      BY <1>2
    <2> QED
      BY <2>1
  <1>3. Nat \subseteq T
    <2> HIDE DEF T
    <2> QED BY <1>1, <1>2, NatSetInduction
  <1> QED
    BY <1>3

\* f is what the loop has computed after each of its n iterations.
LoopRun(n, A, base, step, f) ==
  /\ f \in [0..n -> A]
  /\ f[0] = base
  /\ \A i \in 1..n : f[i] = step[<<f[i - 1], i>>]

\* A loop over 1..n that starts in A and stays in A computes something.
LEMMA LoopExists ==
  ASSUME NEW n \in Nat, NEW A, NEW base \in A, NEW step \in [A \X (1..n) -> A]
  PROVE  \E f : LoopRun(n, A, base, step, f)
  <1> USE DEF LoopRun
  <1> DEFINE Run(k, f) == LoopRun(k, A, base, step, f)
             S == {k \in Nat : k <= n => \E f : Run(k, f)}
  <1>1. 0 \in S
    <2>1. Run(0, [i \in 0..0 |-> base])
      OBVIOUS
    <2> QED
      BY <2>1
  <1>2. ASSUME NEW k \in Nat, k \in S PROVE k + 1 \in S
    <2> SUFFICES ASSUME k + 1 <= n PROVE \E f : Run(k + 1, f)
      OBVIOUS
    <2>1. PICK f : Run(k, f)
      BY <1>2
    <2> DEFINE g == [i \in 0..(k + 1) |-> IF i <= k THEN f[i] ELSE step[<<f[k], k + 1>>]]
    <2>2. <<f[k], k + 1>> \in A \X (1..n)
      BY <2>1
    <2>3. g \in [0..(k + 1) -> A]
      BY <2>1, <2>2
    <2>4. g[0] = base
      BY <2>1
    <2>5. ASSUME NEW i \in 1..(k + 1) PROVE g[i] = step[<<g[i - 1], i>>]
      <3>1. CASE i <= k
        <4>1. i \in 1..k /\ i - 1 \in 0..k /\ i \in 0..(k + 1) /\ i - 1 \in 0..(k + 1)
          BY <3>1
        <4>2. g[i] = f[i] /\ g[i - 1] = f[i - 1]
          BY <4>1, <3>1
        <4> QED
          BY <2>1, <4>1, <4>2
      <3>2. CASE i = k + 1
        <4>1. i - 1 = k /\ k \in 0..(k + 1) /\ k + 1 \in 0..(k + 1)
          BY <3>2
        <4>2. g[k] = f[k] /\ g[k + 1] = step[<<f[k], k + 1>>]
          BY <4>1
        <4> QED
          BY <3>2, <4>1, <4>2
      <3> QED
        BY <3>1, <3>2
    <2>6. Run(k + 1, g)
      BY <2>3, <2>4, <2>5
    <2> QED
      BY <2>6
  <1> HIDE DEF S
  <1>3. n \in S
    BY <1>1, <1>2, NatSetInduction
  <1> QED
    BY <1>3 DEF S

-----------------------------------------------------------------------------
(* Archives. *)

\* What the worker can turn into documents.
Ingestible == {m \in Member : m.content \in EntryTypes /\ m.size \in 1..MaxEntrySize}

Reading == [total : Nat, stop : {"none", "refused", "raised"}, entries : Seq(Ingestible)]

LEMMA ReadMemberType ==
  ASSUME NEW acc \in Reading, NEW m \in Member
  PROVE  ReadMember(acc, m) \in Reading
  <1>1. m.size \in Nat /\ acc.total + m.size \in Nat /\ acc.total \in Nat
    BY DEF Reading, Member
  <1>2. MaxEntrySize \in Nat
    BY LimitsAssumption
  <1>3. CASE acc.stop # "none" \/ Skipped(m)
    BY <1>3 DEF ReadMember
  <1>4. CASE acc.stop = "none" /\ ~Skipped(m) /\ Damaged(m)
    BY <1>4 DEF ReadMember, Reading
  <1>5. CASE acc.stop = "none" /\ ~Skipped(m) /\ ~Damaged(m)
    <2>1. m.size \in 1..MaxEntrySize
      BY <1>1, <1>2, <1>5 DEF Skipped
    <2>2. m.content \in EntryTypes => m \in Ingestible
      BY <2>1 DEF Ingestible
    <2>3. acc.entries \in Seq(Ingestible)
      BY DEF Reading
    <2>4. m.content \in EntryTypes => Append(acc.entries, m) \in Seq(Ingestible)
      BY <2>2, <2>3
    <2>5. ReadMember(acc, m) =
            [total   |-> acc.total + m.size,
             stop    |-> IF acc.total + m.size > MaxTotalSize THEN "refused" ELSE "none",
             entries |-> IF m.content \in EntryTypes THEN Append(acc.entries, m)
                                                     ELSE acc.entries]
      BY <1>5 DEF ReadMember
    <2> QED
      BY <1>1, <2>3, <2>4, <2>5 DEF Reading
  <1> QED
    BY <1>3, <1>4, <1>5

\* The loop, unfolded.
LEMMA ReadMembersDef ==
  ASSUME NEW archive \in Seq(Member)
  PROVE  /\ ReadMembers(archive) \in [0..Len(archive) -> Reading]
         /\ ReadMembers(archive)[0] = NothingRead
         /\ \A i \in 1..Len(archive) :
              ReadMembers(archive)[i] = ReadMember(ReadMembers(archive)[i - 1], archive[i])
  <1> DEFINE n == Len(archive)
             step == [x \in Reading \X (1..n) |-> ReadMember(x[1], archive[x[2]])]
  <1>1. n \in Nat
    OBVIOUS
  <1>2. NothingRead \in Reading
    BY DEF NothingRead, Reading
  <1>3. step \in [Reading \X (1..n) -> Reading]
    <2>1. ASSUME NEW x \in Reading \X (1..n) PROVE ReadMember(x[1], archive[x[2]]) \in Reading
      <3>1. x[1] \in Reading /\ archive[x[2]] \in Member
        OBVIOUS
      <3> QED
        BY <3>1, ReadMemberType
    <2> QED
      BY <2>1
  <1>4. PICK f : LoopRun(n, Reading, NothingRead, step, f)
    <2> HIDE DEF step, n
    <2> QED BY <1>1, <1>2, <1>3, LoopExists
  <1>5. ASSUME NEW i \in 1..n PROVE f[i] = ReadMember(f[i - 1], archive[i])
    <2>1. i - 1 \in 0..n
      OBVIOUS
    <2>2. <<f[i - 1], i>> \in Reading \X (1..n)
      BY <1>4, <2>1 DEF LoopRun
    <2> QED
      BY <1>4, <2>2 DEF LoopRun
  <1>6. f = [i \in 0..n |-> IF i = 0 THEN NothingRead ELSE ReadMember(f[i - 1], archive[i])]
    BY <1>4, <1>5 DEF LoopRun
  <1>7. ReadMembers(archive) =
          CHOOSE g : g = [i \in 0..Len(archive) |->
                            IF i = 0 THEN NothingRead ELSE ReadMember(g[i - 1], archive[i])]
    BY DEF ReadMembers
  <1> DEFINE r == ReadMembers(archive)
  <1>8. r = [i \in 0..Len(archive) |->
               IF i = 0 THEN NothingRead ELSE ReadMember(r[i - 1], archive[i])]
    BY <1>6, <1>7
  <1> HIDE DEF r
  <1> DEFINE S == {k \in Nat : k <= n => r[k] \in Reading}
  <1>9. r[0] = NothingRead /\ \A i \in 1..n : r[i] = ReadMember(r[i - 1], archive[i])
    BY <1>8
  <1>10. 0 \in S
    BY <1>2, <1>9
  <1>11. ASSUME NEW k \in Nat, k \in S PROVE k + 1 \in S
    <2> SUFFICES ASSUME k + 1 <= n PROVE r[k + 1] \in Reading
      OBVIOUS
    <2>1. k + 1 \in 1..n /\ (k + 1) - 1 = k /\ r[k] \in Reading
      BY <1>11
    <2>2. r[k + 1] = ReadMember(r[k], archive[k + 1]) /\ archive[k + 1] \in Member
      BY <1>9, <2>1
    <2> QED
      BY <2>1, <2>2, ReadMemberType
  <1>12. Nat \subseteq S
    <2> HIDE DEF S
    <2> QED BY <1>10, <1>11, NatSetInduction
  <1>13. \A i \in 0..n : r[i] \in Reading
    BY <1>12
  <1>14. r \in [0..Len(archive) -> Reading]
    BY <1>8, <1>13
  <1> QED
    BY <1>9, <1>14 DEF r

LEMMA EntriesAreIngestible ==
  ASSUME NEW archive \in Seq(Member)
  PROVE  ExtractArchive(archive).entries \in Seq(Ingestible)
  <1>1. ReadMembers(archive)[Len(archive)] \in Reading
    BY ReadMembersDef
  <1>2. ReadMembers(archive)[Len(archive)].entries \in Seq(Ingestible) /\ <<>> \in Seq(Ingestible)
    BY <1>1 DEF Reading
  <1> QED
    BY <1>2 DEF ExtractArchive

\* A member is passed over, raises, or is read.
LEMMA SkippedIsNotReadable ==
  \A m \in Member : Readable(m) <=> ~Skipped(m) /\ ~Damaged(m)
  <1> SUFFICES ASSUME NEW m \in Member
               PROVE  Readable(m) <=> ~Skipped(m) /\ ~Damaged(m)
    OBVIOUS
  <1>1. m.size \in Nat /\ MaxEntrySize \in Nat
    BY LimitsAssumption DEF Member
  <1> QED
    BY <1>1 DEF Skipped, Unopened, Damaged, Readable

LEMMA ReadableSizeDef ==
  ASSUME NEW archive \in Seq(Member)
  PROVE  /\ ReadableSize(archive) \in [0..Len(archive) -> Nat]
         /\ ReadableSize(archive)[0] = 0
         /\ \A i \in 1..Len(archive) :
              ReadableSize(archive)[i] =
                ReadableSize(archive)[i - 1]
                  + (IF Readable(archive[i]) THEN archive[i].size ELSE 0)
  <1> DEFINE n == Len(archive)
             w(i) == IF Readable(archive[i]) THEN archive[i].size ELSE 0
             step == [x \in Nat \X (1..n) |-> x[1] + w(x[2])]
  <1>1. n \in Nat /\ 0 \in Nat
    OBVIOUS
  <1>2. \A i \in 1..n : w(i) \in Nat
    <2>1. \A i \in 1..n : archive[i] \in Member
      OBVIOUS
    <2> QED
      BY <2>1 DEF Member
  <1> HIDE DEF w
  <1>3. step \in [Nat \X (1..n) -> Nat]
    BY <1>2
  <1>4. PICK f : LoopRun(n, Nat, 0, step, f)
    <2> HIDE DEF step, n
    <2> QED BY <1>1, <1>3, LoopExists
  <1>5. ASSUME NEW i \in 1..n PROVE f[i] = f[i - 1] + w(i)
    <2>1. i - 1 \in 0..n
      OBVIOUS
    <2>2. <<f[i - 1], i>> \in Nat \X (1..n)
      BY <1>4, <2>1 DEF LoopRun
    <2> QED
      BY <1>4, <2>2 DEF LoopRun
  <1>6. f = [i \in 0..n |-> IF i = 0 THEN 0 ELSE f[i - 1] + w(i)]
    BY <1>4, <1>5 DEF LoopRun
  <1>7. ReadableSize(archive) =
          CHOOSE g : g = [i \in 0..n |-> IF i = 0 THEN 0 ELSE g[i - 1] + w(i)]
    BY DEF ReadableSize, w
  <1> DEFINE z == ReadableSize(archive)
  <1>8. z = [i \in 0..n |-> IF i = 0 THEN 0 ELSE z[i - 1] + w(i)]
    BY <1>6, <1>7
  <1> HIDE DEF z
  <1>9. z[0] = 0 /\ \A i \in 1..n : z[i] = z[i - 1] + w(i)
    BY <1>8
  <1> DEFINE S == {k \in Nat : k <= n => z[k] \in Nat}
  <1>10. 0 \in S
    BY <1>9
  <1>11. ASSUME NEW k \in Nat, k \in S PROVE k + 1 \in S
    <2> SUFFICES ASSUME k + 1 <= n PROVE z[k + 1] \in Nat
      OBVIOUS
    <2>1. k + 1 \in 1..n /\ (k + 1) - 1 = k /\ z[k] \in Nat
      BY <1>11
    <2> QED
      BY <1>2, <1>9, <2>1
  <1>12. Nat \subseteq S
    <2> HIDE DEF S
    <2> QED BY <1>10, <1>11, NatSetInduction
  <1>13. \A i \in 0..n : z[i] \in Nat
    BY <1>12
  <1>14. z \in [0..n -> Nat]
    BY <1>8, <1>13
  <1> QED
    BY <1>9, <1>14 DEF z, w

LEMMA WantedIsFinite ==
  ASSUME NEW archive, NEW i \in Nat
  PROVE  /\ IsFiniteSet(Wanted(archive, i))
         /\ Cardinality(Wanted(archive, i)) \in Nat
  <1>1. IsFiniteSet(1..i)
    BY FS_Interval
  <1>2. Wanted(archive, i) \in SUBSET (1..i)
    BY DEF Wanted
  <1> QED
    BY <1>1, <1>2, FS_Subset, FS_CardinalityType

\* The place of a wanted member among the wanted ones.
LEMMA RankInRange ==
  ASSUME NEW archive, NEW i \in Nat, NEW j \in Wanted(archive, i)
  PROVE  Cardinality(Wanted(archive, j)) \in 1..Cardinality(Wanted(archive, i))
  <1>1. j \in 1..i /\ j \in Nat
    BY DEF Wanted
  <1>2. j \in Wanted(archive, j)
    BY <1>1 DEF Wanted
  <1>3. Wanted(archive, j) \in SUBSET Wanted(archive, i)
    BY <1>1 DEF Wanted
  <1>4. Cardinality(Wanted(archive, j)) # 0
    BY <1>1, <1>2, WantedIsFinite, FS_EmptySet
  <1>5. Cardinality(Wanted(archive, j)) <= Cardinality(Wanted(archive, i))
    BY <1>3, WantedIsFinite, FS_Subset
  <1> QED
    BY <1>1, <1>4, <1>5, WantedIsFinite

DamageUpTo(archive, i) ==
  \E j \in 1..i : Damaged(archive[j]) /\ ReadableSize(archive)[j] <= MaxTotalSize

\* What is read after i members is what is said of the first i members.
ReadRightly(archive, i) ==
  LET read == ReadMembers(archive)[i] IN
  /\ read.stop = "raised" <=> DamageUpTo(archive, i)
  /\ read.stop = "refused"
       <=> ReadableSize(archive)[i] > MaxTotalSize /\ ~DamageUpTo(archive, i)
  /\ read.stop = "none" =>
       /\ read.total = ReadableSize(archive)[i]
       /\ Len(read.entries) = Cardinality(Wanted(archive, i))
       /\ \A j \in Wanted(archive, i) :
            read.entries[Cardinality(Wanted(archive, j))] = archive[j]

LEMMA ReadsOneMore ==
  ASSUME NEW archive \in Seq(Member), NEW k \in Nat, k + 1 <= Len(archive),
         ReadRightly(archive, k)
  PROVE  ReadRightly(archive, k + 1)
  <1> DEFINE i == k + 1
             m == archive[i]
             r == ReadMembers(archive)[k]
             q == ReadMembers(archive)[i]
             z == ReadableSize(archive)[k]
             y == ReadableSize(archive)[i]
             V == Wanted(archive, k)
             W == Wanted(archive, i)
  <1>1. i \in 1..Len(archive) /\ k \in 0..Len(archive) /\ i - 1 = k /\ m \in Member
    OBVIOUS
  <1>2. q = ReadMember(r, m) /\ r \in Reading /\ q \in Reading
    <2>1. i \in 0..Len(archive)
      BY <1>1
    <2> QED
      BY <1>1, <2>1, ReadMembersDef
  <1>3. y = z + (IF Readable(m) THEN m.size ELSE 0) /\ z \in Nat /\ y \in Nat
    <2>1. i \in 0..Len(archive)
      BY <1>1
    <2> QED
      BY <1>1, <2>1, ReadableSizeDef
  <1>4. MaxTotalSize \in Nat /\ m.size \in Nat
    BY <1>1, LimitsAssumption DEF Member
  <1>5. W = IF Readable(m) /\ m.content \in EntryTypes THEN V \cup {i} ELSE V
    BY DEF Wanted
  <1>6. /\ Readable(m) <=> ~Skipped(m) /\ ~Damaged(m)
        /\ Skipped(m) => ~Damaged(m)
    BY <1>1, SkippedIsNotReadable DEF Skipped, Unopened, Damaged
  <1> DEFINE D == DamageUpTo(archive, k)
             E == DamageUpTo(archive, i)
  <1>7. /\ r.stop = "raised" <=> D
        /\ r.stop = "refused" <=> z > MaxTotalSize /\ ~D
        /\ r.stop = "none" => /\ r.total = z
                              /\ Len(r.entries) = Cardinality(V)
                              /\ \A j \in V : r.entries[Cardinality(Wanted(archive, j))] = archive[j]
    BY DEF ReadRightly
  <1>8. /\ r.total \in Nat /\ r.stop \in {"none", "refused", "raised"}
        /\ r.entries \in Seq(Ingestible)
    BY <1>2 DEF Reading
  <1>15. E <=> D \/ (Damaged(m) /\ y <= MaxTotalSize)
    <2>1. 1..i = (1..k) \cup {i}
      OBVIOUS
    <2> QED
      BY <2>1 DEF DamageUpTo
  <1>9. IsFiniteSet(V) /\ i \notin V /\ Cardinality(V) \in Nat /\ i \in Nat
    <2>1. i \notin V /\ i \in Nat
      BY DEF Wanted
    <2>2. IsFiniteSet(V) /\ Cardinality(V) \in Nat
      BY WantedIsFinite
    <2> QED
      BY <2>1, <2>2
  <1>10. \A j \in V : Cardinality(Wanted(archive, j)) \in 1..Cardinality(V)
    BY RankInRange
  <1> SUFFICES /\ q.stop = "raised" <=> E
               /\ q.stop = "refused" <=> y > MaxTotalSize /\ ~E
               /\ q.stop = "none" =>
                    /\ q.total = y
                    /\ Len(q.entries) = Cardinality(W)
                    /\ \A j \in W : q.entries[Cardinality(Wanted(archive, j))] = archive[j]
    BY DEF ReadRightly
  <1>11. Cardinality(Wanted(archive, i)) = Cardinality(W)
    OBVIOUS
  <1> HIDE DEF i, m, r, q, z, y, V, W, D, E
  <1>14. ASSUME r.stop = "none", ~Skipped(m), ~Damaged(m)
         PROVE  /\ q.stop = "raised" <=> E
                /\ q.stop = "refused" <=> y > MaxTotalSize /\ ~E
                /\ q.stop = "none" =>
                     /\ q.total = y
                     /\ Len(q.entries) = Cardinality(W)
                     /\ \A j \in W : q.entries[Cardinality(Wanted(archive, j))] = archive[j]
    <2>1. q = [total   |-> r.total + m.size,
               stop    |-> IF r.total + m.size > MaxTotalSize THEN "refused" ELSE "none",
               entries |-> IF m.content \in EntryTypes THEN Append(r.entries, m)
                                                       ELSE r.entries]
      BY <1>2, <1>14 DEF ReadMember
    <2>2. Readable(m)
      BY <1>6, <1>14
    <2>3. y = z + m.size /\ q.total = y
      BY <1>3, <1>7, <1>14, <2>1, <2>2
    <2>9. ~E
      BY <1>7, <1>14, <1>15
    <2>4. q.stop # "raised" /\ (q.stop = "refused" <=> y > MaxTotalSize)
      BY <1>7, <1>14, <2>1, <2>3
    <2>5. CASE m.content \notin EntryTypes
      <3>1. W = V /\ q.entries = r.entries
        BY <1>5, <2>1, <2>5
      <3> QED
        BY <1>7, <1>14, <2>3, <2>4, <2>9, <3>1
    <2>6. CASE m.content \in EntryTypes
      <3>1. W = V \cup {i} /\ q.entries = Append(r.entries, m)
        BY <1>5, <2>1, <2>2, <2>6
      <3>2. Cardinality(W) = Cardinality(V) + 1
        BY <3>1, <1>9, FS_AddElement
      <3>3. Len(r.entries) = Cardinality(V)
        BY <1>7, <1>14
      <3>4. Len(q.entries) = Cardinality(W)
        BY <3>1, <3>2, <3>3, <1>8
      <3>5. m \in Ingestible
        BY <1>1, <2>2, <2>6 DEF Readable, Ingestible
      <3>6. \A k2 \in 1..Cardinality(V) : q.entries[k2] = r.entries[k2]
        BY <3>1, <3>3, <1>8, <3>5
      <3>7. q.entries[Cardinality(W)] = m
        BY <3>1, <3>2, <3>3, <1>8, <3>5
      <3>8. ASSUME NEW j \in W
            PROVE  q.entries[Cardinality(Wanted(archive, j))] = archive[j]
        <4>1. CASE j = i
          BY <4>1, <3>7, <1>11 DEF m
        <4>2. CASE j \in V
          BY <4>2, <1>7, <1>10, <1>14, <3>6
        <4> QED
          BY <3>1, <4>1, <4>2
      <3> QED
        BY <2>3, <2>4, <2>9, <3>4, <3>8
    <2> QED
      BY <2>5, <2>6
  <1>12. CASE r.stop # "none"
    <2>1. q = r
      BY <1>2, <1>12 DEF ReadMember
    <2>2. y >= z
      BY <1>3, <1>4
    <2>3. CASE r.stop = "raised"
      BY <2>1, <2>3, <1>7, <1>15
    <2>4. CASE r.stop = "refused"
      <3>1. y > MaxTotalSize /\ ~(y <= MaxTotalSize)
        BY <2>2, <2>4, <1>3, <1>4, <1>7
      <3> QED
        BY <2>1, <2>4, <3>1, <1>7, <1>15
    <2> QED
      BY <2>3, <2>4, <1>8, <1>12
  <1>16. CASE r.stop = "none"
    <2> USE <1>16
    <2>1. ~D /\ z <= MaxTotalSize
      BY <1>3, <1>4, <1>7
    <2>2. CASE Skipped(m)
      <3>1. q = r
        BY <1>2, <2>2 DEF ReadMember
      <3>2. y = z /\ W = V /\ ~E
        BY <1>3, <1>5, <1>6, <1>15, <2>1, <2>2
      <3>3. ~(y > MaxTotalSize)
        BY <2>1, <3>2, <1>3, <1>4
      <3> QED
        BY <3>1, <3>2, <3>3, <1>7
    <2>3. CASE ~Skipped(m) /\ Damaged(m)
      <3>1. q.stop = "raised"
        BY <1>2, <1>8, <2>3 DEF ReadMember, Reading
      <3>2. y = z
        BY <1>3, <1>6, <2>3
      <3>3. E
        BY <3>2, <1>15, <2>1, <2>3
      <3> QED
        BY <3>1, <3>3
    <2>4. CASE ~Skipped(m) /\ ~Damaged(m)
      BY <1>14, <2>4
    <2> QED
      BY <2>2, <2>3, <2>4
  <1> QED
    BY <1>12, <1>16

LEMMA EveryArchiveIsRead ==
  \A archive \in Seq(Member) : ExtractsWhatItShould(archive)
  <1> SUFFICES ASSUME NEW archive \in Seq(Member) PROVE ExtractsWhatItShould(archive)
    OBVIOUS
  <1> DEFINE n == Len(archive)
             S == {k \in Nat : k <= n => ReadRightly(archive, k)}
  <1>1. 0 \in S
    <2>1. Wanted(archive, 0) = {}
      BY DEF Wanted
    <2>2. MaxTotalSize \in Nat
      BY LimitsAssumption
    <2>3. ReadMembers(archive)[0] = NothingRead /\ ReadableSize(archive)[0] = 0
      BY ReadMembersDef, ReadableSizeDef
    <2>4. ReadRightly(archive, 0)
      <3>3. ~DamageUpTo(archive, 0)
        BY DEF DamageUpTo
      <3>1. NothingRead.stop = "none" /\ NothingRead.total = 0 /\ NothingRead.entries = <<>>
        BY DEF NothingRead
      <3>2. Len(<<>>) = 0 /\ Cardinality({}) = 0 /\ ~ (0 > MaxTotalSize)
        BY <2>2, FS_EmptySet
      <3> QED
        BY <2>1, <2>3, <3>1, <3>2, <3>3 DEF ReadRightly
    <2> QED
      BY <2>4
  <1>2. ASSUME NEW k \in Nat, k \in S PROVE k + 1 \in S
    <2>1. ASSUME k + 1 <= n PROVE ReadRightly(archive, k + 1)
      BY <1>2, <2>1, ReadsOneMore
    <2> QED
      BY <2>1
  <1>3. ReadRightly(archive, n)
    <2>1. Nat \subseteq S
      <3> HIDE DEF S
      <3> QED BY <1>1, <1>2, NatSetInduction
    <2> QED
      BY <2>1
  <1>4. MeetsDamage(archive) <=> DamageUpTo(archive, n)
    BY DEF MeetsDamage, DamageUpTo
  <1>5. ReadMembers(archive)[n].stop \in {"none", "refused", "raised"}
    <2>1. n \in 0..Len(archive)
      OBVIOUS
    <2> QED
      BY <2>1, ReadMembersDef DEF Reading
  <1> HIDE DEF n
  <1> DEFINE stop == ReadMembers(archive)[n].stop
             result == ExtractArchive(archive)
  <1>6. /\ result.outcome = IF ~WholeIsUsable(archive) THEN "refused"
                            ELSE IF stop = "none" THEN "extracted" ELSE stop
        /\ result.outcome = "extracted" => result.entries = ReadMembers(archive)[n].entries
    BY DEF ExtractArchive, WholeIsUsable, n
  <1>7. /\ stop = "raised" <=> MeetsDamage(archive)
        /\ stop = "refused"
             <=> ReadableSize(archive)[n] > MaxTotalSize /\ ~MeetsDamage(archive)
        /\ stop = "none" =>
             /\ Len(ReadMembers(archive)[n].entries) = Cardinality(Wanted(archive, n))
             /\ \A i \in Wanted(archive, n) :
                  ReadMembers(archive)[n].entries[Cardinality(Wanted(archive, i))] = archive[i]
    BY <1>3, <1>4 DEF ReadRightly
  <1> HIDE DEF stop, result
  <1>8. /\ result.outcome = "raised" <=> WholeIsUsable(archive) /\ MeetsDamage(archive)
        /\ result.outcome = "refused"
             <=> \/ ~WholeIsUsable(archive)
                 \/ ReadableSize(archive)[n] > MaxTotalSize /\ ~MeetsDamage(archive)
        /\ result.outcome = "extracted" => stop = "none"
    BY <1>5, <1>6, <1>7 DEF stop
  <1> QED
    BY <1>6, <1>7, <1>8 DEF ExtractsWhatItShould, n, result

\* An archive is refused exactly for what is in it as a whole, raises exactly when
\* a member that cannot be read is reached, and otherwise gives its readable
\* members of a supported type, each once and in order, for every archive and
\* limit (archive.py's extract_archive).
THEOREM ArchivesAreRead ==
  /\ \A archive \in Seq(Member) : ExtractsWhatItShould(archive)
  /\ ArchivesExtract
BY EveryArchiveIsRead, InputsAssumption DEF ArchivesExtract

-----------------------------------------------------------------------------
(* Texts. *)

\* Counting: the pieces may be the lines of a text, or the sentences or the lines
\* of a section of a statute.
LEMMA CountedUpTo ==
  ASSUME NEW Piece, \A x \in Piece : x.tokens \in Nat, NEW lines \in Seq(Piece)
  PROVE  /\ TokensUpTo(lines) \in [0..Len(lines) -> Nat]
         /\ TokensUpTo(lines)[0] = 0
         /\ \A i \in 1..Len(lines) :
              TokensUpTo(lines)[i] = TokensUpTo(lines)[i - 1] + lines[i].tokens
  <1> DEFINE n == Len(lines)
             step == [x \in Nat \X (1..n) |-> x[1] + lines[x[2]].tokens]
  <1>1. n \in Nat /\ 0 \in Nat
    OBVIOUS
  <1>2. \A i \in 1..n : lines[i].tokens \in Nat
    <2>1. \A i \in 1..n : lines[i] \in Piece
      OBVIOUS
    <2> QED
      BY <2>1
  <1>3. step \in [Nat \X (1..n) -> Nat]
    BY <1>2
  <1>4. PICK f : LoopRun(n, Nat, 0, step, f)
    <2> HIDE DEF step, n
    <2> QED BY <1>1, <1>3, LoopExists
  <1>5. ASSUME NEW i \in 1..n PROVE f[i] = f[i - 1] + lines[i].tokens
    <2>1. i - 1 \in 0..n
      OBVIOUS
    <2>2. <<f[i - 1], i>> \in Nat \X (1..n)
      BY <1>4, <2>1 DEF LoopRun
    <2> QED
      BY <1>4, <2>2 DEF LoopRun
  <1>6. f = [i \in 0..n |-> IF i = 0 THEN 0 ELSE f[i - 1] + lines[i].tokens]
    BY <1>4, <1>5 DEF LoopRun
  <1>7. TokensUpTo(lines) =
          CHOOSE g : g = [i \in 0..n |-> IF i = 0 THEN 0 ELSE g[i - 1] + lines[i].tokens]
    BY DEF TokensUpTo
  <1> DEFINE z == TokensUpTo(lines)
  <1>8. z = [i \in 0..n |-> IF i = 0 THEN 0 ELSE z[i - 1] + lines[i].tokens]
    BY <1>6, <1>7
  <1> HIDE DEF z
  <1>9. z[0] = 0 /\ \A i \in 1..n : z[i] = z[i - 1] + lines[i].tokens
    BY <1>8
  <1> DEFINE S == {k \in Nat : k <= n => z[k] \in Nat}
  <1>10. 0 \in S
    BY <1>9
  <1>11. ASSUME NEW k \in Nat, k \in S PROVE k + 1 \in S
    <2> SUFFICES ASSUME k + 1 <= n PROVE z[k + 1] \in Nat
      OBVIOUS
    <2>1. k + 1 \in 1..n /\ (k + 1) - 1 = k /\ z[k] \in Nat
      BY <1>11
    <2> QED
      BY <1>2, <1>9, <2>1
  <1>12. Nat \subseteq S
    <2> HIDE DEF S
    <2> QED BY <1>10, <1>11, NatSetInduction
  <1>13. \A i \in 0..n : z[i] \in Nat
    BY <1>12
  <1>14. z \in [0..n -> Nat]
    BY <1>8, <1>13
  <1> QED
    BY <1>9, <1>14 DEF z

LEMMA CountsGrow ==
  ASSUME NEW Piece, \A x \in Piece : x.tokens \in Nat, NEW lines \in Seq(Piece),
         NEW a \in 0..Len(lines), NEW b \in a..Len(lines)
  PROVE  TokensUpTo(lines)[a] <= TokensUpTo(lines)[b]
  <1> DEFINE n == Len(lines)
             z == TokensUpTo(lines)
             S == {k \in Nat : a + k <= n => z[a] <= z[a + k]}
  <1>1. /\ z \in [0..n -> Nat]
        /\ \A i \in 1..n : z[i] = z[i - 1] + lines[i].tokens
    BY CountedUpTo
  <1>2. \A i \in 1..n : lines[i].tokens \in Nat
    <2>1. \A i \in 1..n : lines[i] \in Piece
      OBVIOUS
    <2> QED
      BY <2>1
  <1>3. n \in Nat /\ a \in Nat /\ b \in Nat
    OBVIOUS
  <1> HIDE DEF z, n
  <1>4. 0 \in S
    <2>1. a \in 0..n /\ a + 0 = a
      BY <1>3 DEF n
    <2>2. z[a] \in Nat
      BY <1>1, <2>1
    <2> QED
      BY <2>1, <2>2
  <1>5. ASSUME NEW k \in Nat, k \in S PROVE k + 1 \in S
    <2> SUFFICES ASSUME a + (k + 1) <= n PROVE z[a] <= z[a + (k + 1)]
      OBVIOUS
    <2>1. a + (k + 1) \in 1..n /\ (a + (k + 1)) - 1 = a + k /\ a + k \in 0..n /\ a \in 0..n
      BY <1>3
    <2>2. z[a] <= z[a + k]
      BY <1>5, <2>1
    <2>3. z[a + (k + 1)] = z[a + k] + lines[a + (k + 1)].tokens
      BY <1>1, <2>1
    <2>4. z[a] \in Nat /\ z[a + k] \in Nat /\ lines[a + (k + 1)].tokens \in Nat
      BY <1>1, <1>2, <2>1
    <2> QED
      BY <2>2, <2>3, <2>4
  <1>6. Nat \subseteq S
    <2> HIDE DEF S
    <2> QED BY <1>4, <1>5, NatSetInduction
  <1>7. b - a \in Nat /\ a + (b - a) = b /\ b <= n
    BY <1>3 DEF n
  <1> QED
    BY <1>6, <1>7 DEF z

\* Of the tokens of the lines from a to b: they are a number, they are none of
\* none, and the first or the last line can be split off.
LEMMA CountsSplit ==
  ASSUME NEW Piece, \A x \in Piece : x.tokens \in Nat, NEW lines \in Seq(Piece),
         NEW a \in Nat \ {0}, NEW b \in 0..Len(lines)
  PROVE  /\ Tokens(lines, a, b) \in Nat
         /\ a > b => Tokens(lines, a, b) = 0
         /\ a <= b => /\ lines[a].tokens \in Nat /\ lines[b].tokens \in Nat
                      /\ Tokens(lines, a, b) = Tokens(lines, a, b - 1) + lines[b].tokens
                      /\ Tokens(lines, a, b) = lines[a].tokens + Tokens(lines, a + 1, b)
  <1> DEFINE n == Len(lines)
             z == TokensUpTo(lines)
  <1>1. /\ z \in [0..n -> Nat]
        /\ \A i \in 1..n : z[i] = z[i - 1] + lines[i].tokens
    BY CountedUpTo
  <1>2. \A i \in 1..n : lines[i].tokens \in Nat
    <2>1. \A i \in 1..n : lines[i] \in Piece
      OBVIOUS
    <2> QED
      BY <2>1
  <1>3. CASE a > b
    BY <1>3 DEF Tokens
  <1>4. CASE a <= b
    <2>1. a \in 1..n /\ b \in 1..n /\ a - 1 \in 0..n /\ b - 1 \in 0..n /\ a - 1 <= b /\ n \in Nat
      BY <1>4
    <2>2. z[a - 1] <= z[b]
      <3>1. a - 1 \in 0..Len(lines) /\ b \in (a - 1)..Len(lines)
        BY <2>1
      <3> QED
        BY <3>1, CountsGrow
    <2>3. /\ z[a - 1] \in Nat /\ z[b] \in Nat /\ z[a] \in Nat /\ z[b - 1] \in Nat
          /\ z[a] = z[a - 1] + lines[a].tokens
          /\ z[b] = z[b - 1] + lines[b].tokens
          /\ lines[a].tokens \in Nat /\ lines[b].tokens \in Nat
      <3>1. a \in 0..n /\ b \in 0..n
        BY <2>1
      <3> HIDE DEF z, n
      <3>2. z[a - 1] \in Nat /\ z[b] \in Nat /\ z[a] \in Nat /\ z[b - 1] \in Nat
        BY <1>1, <2>1, <3>1
      <3> QED
        BY <1>1, <1>2, <2>1, <3>2
    <2>4. Tokens(lines, a, b) = z[b] - z[a - 1]
      <3>1. ~ (a > b)
        BY <1>4, <2>1
      <3> QED
        BY <3>1 DEF Tokens
    <2>5. Tokens(lines, a, b - 1) = z[b - 1] - z[a - 1]
      <3>1. CASE a > b - 1
        <4>1. a = b /\ a - 1 = b - 1
          BY <3>1, <1>4, <2>1
        <4> QED
          BY <4>1, <3>1, <2>3 DEF Tokens
      <3>2. CASE a <= b - 1
        BY <3>2, <2>1 DEF Tokens
      <3> QED
        BY <2>1, <3>1, <3>2
    <2>6. Tokens(lines, a + 1, b) = z[b] - z[a]
      <3>0. (a + 1) - 1 = a
        BY <2>1
      <3>1. CASE a + 1 > b
        <4>1. a = b
          BY <3>1, <1>4, <2>1
        <4> QED
          BY <4>1, <3>1, <2>3 DEF Tokens
      <3>2. CASE a + 1 <= b
        BY <3>2, <3>0, <2>1 DEF Tokens
      <3> QED
        BY <2>1, <3>1, <3>2
    <2>7. a \in Nat /\ b \in Nat /\ ~ (a > b)
      BY <2>1, <1>4
    <2> HIDE DEF z, n
    <2>8. Tokens(lines, a, b) \in Nat
      BY <2>2, <2>3, <2>4
    <2>9. Tokens(lines, a, b) = Tokens(lines, a, b - 1) + lines[b].tokens
      BY <2>3, <2>4, <2>5
    <2>10. Tokens(lines, a, b) = lines[a].tokens + Tokens(lines, a + 1, b)
      <3>1. PICK p \in Nat, q \in Nat, r \in Nat, t \in Nat :
              p = z[a - 1] /\ q = z[a] /\ r = z[b] /\ t = lines[a].tokens
        BY <2>3, Zenon
      <3>2. q = p + t
        BY <2>3, <3>1, Zenon
      <3>3. r - p = t + (r - q)
        BY <3>2
      <3> QED
        BY <2>4, <2>6, <3>1, <3>3, Zenon
    <2> QED
      BY <2>3, <2>7, <2>8, <2>9, <2>10
  <1> QED
    BY <1>3, <1>4

\* More lines are no fewer tokens.
LEMMA CountsWiden ==
  ASSUME NEW Piece, \A x \in Piece : x.tokens \in Nat, NEW lines \in Seq(Piece),
         NEW a \in Nat \ {0}, NEW b \in 0..Len(lines)
  PROVE  /\ b > 0 => Tokens(lines, a, b - 1) <= Tokens(lines, a, b)
         /\ Tokens(lines, a + 1, b) <= Tokens(lines, a, b)
  <1>1. CASE a > b
    <2>1. a > b - 1 /\ a + 1 > b
      BY <1>1
    <2> QED
      BY <1>1, <2>1 DEF Tokens
  <1>2. CASE a <= b
    <2>1. b \in 1..Len(lines) /\ b - 1 \in 0..Len(lines) /\ a + 1 \in Nat \ {0}
      BY <1>2
    <2>2. /\ Tokens(lines, a, b - 1) \in Nat
          /\ Tokens(lines, a + 1, b) \in Nat
      BY <2>1, CountsSplit
    <2>3. /\ lines[a].tokens \in Nat /\ lines[b].tokens \in Nat
          /\ Tokens(lines, a, b) = Tokens(lines, a, b - 1) + lines[b].tokens
          /\ Tokens(lines, a, b) = lines[a].tokens + Tokens(lines, a + 1, b)
      BY <1>2, CountsSplit
    <2> QED
      BY <2>2, <2>3
  <1> QED
    BY <1>1, <1>2

\* Three pieces of an interval.
LEMMA CountsParts ==
  ASSUME NEW Piece, \A x \in Piece : x.tokens \in Nat, NEW lines \in Seq(Piece),
         NEW a \in Nat \ {0}, NEW b \in a..Len(lines)
  PROVE  Tokens(lines, 1, Len(lines)) - Tokens(lines, 1, a - 1)
           - Tokens(lines, b + 1, Len(lines)) = Tokens(lines, a, b)
  <1> DEFINE n == Len(lines)
             z == TokensUpTo(lines)
  <1>1. z \in [0..n -> Nat] /\ z[0] = 0
    BY CountedUpTo
  <1>2. n \in Nat /\ a \in 1..n /\ b \in a..n /\ a - 1 \in 0..n
    OBVIOUS
  <1>3. Tokens(lines, 1, n) = z[n]
    <2>1. ~ (1 > n) /\ 1 - 1 = 0
      BY <1>2
    <2>2. Tokens(lines, 1, n) = z[n] - z[0]
      BY <2>1 DEF Tokens
    <2>3. z[n] \in Nat
      BY <1>1, <1>2
    <2> QED
      BY <1>1, <2>2, <2>3
  <1>4. Tokens(lines, 1, a - 1) = z[a - 1]
    <2>1. CASE a = 1
      <3>1. 1 > a - 1 /\ a - 1 = 0
        BY <2>1
      <3> QED
        BY <1>1, <3>1 DEF Tokens
    <2>2. CASE a # 1
      <3>1. ~ (1 > a - 1) /\ 1 - 1 = 0
        BY <1>2, <2>2
      <3>2. Tokens(lines, 1, a - 1) = z[a - 1] - z[0]
        BY <3>1 DEF Tokens
      <3>3. z[a - 1] \in Nat
        BY <1>1, <1>2
      <3> QED
        BY <1>1, <3>2, <3>3
    <2> QED
      BY <2>1, <2>2
  <1>5. Tokens(lines, b + 1, n) = z[n] - z[b]
    <2>1. (b + 1) - 1 = b
      BY <1>2
    <2>2. CASE b = n
      <3>1. b + 1 > n
        BY <1>2, <2>2
      <3>2. z[n] \in Nat
        BY <1>1, <1>2
      <3> QED
        BY <2>2, <3>1, <3>2 DEF Tokens
    <2>3. CASE b # n
      <3>1. ~ (b + 1 > n)
        BY <1>2, <2>3
      <3> QED
        BY <2>1, <3>1 DEF Tokens
    <2> QED
      BY <2>2, <2>3
  <1>6. Tokens(lines, a, b) = z[b] - z[a - 1]
    <2>1. ~ (a > b)
      BY <1>2
    <2> QED
      BY <2>1 DEF Tokens
  <1>7. z[n] \in Nat /\ z[b] \in Nat /\ z[a - 1] \in Nat
    <2>1. n \in 0..n /\ b \in 0..n
      BY <1>2
    <2> QED
      BY <1>1, <1>2, <2>1
  <1> HIDE DEF z, n
  <1>8. PICK p \in Nat, q \in Nat, r \in Nat : p = z[n] /\ q = z[b] /\ r = z[a - 1]
    BY <1>7
  <1>9. p - r - (p - q) = q - r
    BY <1>8
  <1>10. Tokens(lines, 1, n) - Tokens(lines, 1, a - 1) - Tokens(lines, b + 1, n)
           = Tokens(lines, a, b)
    BY <1>3, <1>4, <1>5, <1>6, <1>8, <1>9, Zenon
  <1> QED
    BY <1>10 DEF n

LEMMA TokensSplit ==
  ASSUME NEW lines \in Seq(Line), NEW a \in Nat \ {0}, NEW b \in 0..Len(lines)
  PROVE  /\ Tokens(lines, a, b) \in Nat
         /\ a > b => Tokens(lines, a, b) = 0
         /\ a <= b => /\ lines[a].tokens \in Nat /\ lines[b].tokens \in Nat
                      /\ Tokens(lines, a, b) = Tokens(lines, a, b - 1) + lines[b].tokens
                      /\ Tokens(lines, a, b) = lines[a].tokens + Tokens(lines, a + 1, b)
  <1>1. \A x \in Line : x.tokens \in Nat
    BY DEF Line
  <1> QED
    BY <1>1, CountsSplit

LEMMA TokensWiden ==
  ASSUME NEW lines \in Seq(Line), NEW a \in Nat \ {0}, NEW b \in 0..Len(lines)
  PROVE  /\ b > 0 => Tokens(lines, a, b - 1) <= Tokens(lines, a, b)
         /\ Tokens(lines, a + 1, b) <= Tokens(lines, a, b)
  <1>1. \A x \in Line : x.tokens \in Nat
    BY DEF Line
  <1> QED
    BY <1>1, CountsWiden

\* What is carried over ends the chunk, and without its first line it is less
\* than Overlap tokens.
LEMMA OverlapIsATail ==
  ASSUME NEW lines \in Seq(Line), NEW b \in 1..Len(lines), NEW a \in 1..b
  PROVE  /\ OverlapFrom(lines, a, b) \in a..b
         /\ Tokens(lines, OverlapFrom(lines, a, b) + 1, b) < Overlap
  <1> DEFINE enough == {i \in a..b : Tokens(lines, i, b) >= Overlap}
             from == OverlapFrom(lines, a, b)
  <1>1. Overlap \in Nat \ {0} /\ b \in 0..Len(lines)
    BY TargetsAssumption
  <1>2. \A i \in Nat \ {0} : Tokens(lines, i, b) \in Nat
    BY <1>1, TokensSplit
  <1>3. CASE enough = {}
    <2>1. from = a
      BY <1>3 DEF OverlapFrom
    <2>2. a \in a..b /\ a \in Nat \ {0} /\ a + 1 \in Nat \ {0}
      OBVIOUS
    <2>3. ~ (Tokens(lines, a, b) >= Overlap)
      BY <1>3, <2>2
    <2>4. Tokens(lines, a + 1, b) <= Tokens(lines, a, b)
      BY <1>1, <2>2, TokensWiden
    <2>5. Tokens(lines, a, b) \in Nat /\ Tokens(lines, a + 1, b) \in Nat
      BY <1>2, <2>2
    <2>6. Tokens(lines, a + 1, b) < Overlap
      BY <1>1, <2>3, <2>4, <2>5
    <2> QED
      BY <2>1, <2>2, <2>6 DEF from
  <1>4. CASE enough # {}
    <2>1. enough \subseteq 0..b
      OBVIOUS
    <2>2. \E x \in enough : \A y \in enough : x >= y
      <3> HIDE DEF enough
      <3>1. b \in Nat
        OBVIOUS
      <3> QED BY <1>4, <2>1, <3>1, GreatestBelow
    <2>3. from = CHOOSE x \in enough : \A y \in enough : x >= y
      BY <1>4 DEF OverlapFrom, Max
    <2>4. from \in enough /\ \A y \in enough : from >= y
      <3> HIDE DEF enough, from
      <3> QED BY <2>2, <2>3
    <2> HIDE DEF from
    <2>5. from \in a..b
      BY <2>4
    <2>6. CASE from = b
      <3>1. from + 1 \in Nat \ {0} /\ from + 1 > b
        BY <2>5, <2>6
      <3> QED
        BY <1>1, <2>5, <3>1 DEF Tokens, from
    <2>7. CASE from # b
      <3>1. from + 1 \in a..b /\ ~ (from >= from + 1)
        BY <2>5, <2>7
      <3>2. ~ (Tokens(lines, from + 1, b) >= Overlap)
        BY <2>4, <3>1
      <3>3. Tokens(lines, from + 1, b) \in Nat
        BY <1>2, <3>1
      <3> QED
        BY <1>1, <2>5, <3>2, <3>3 DEF from
    <2> QED
      BY <2>6, <2>7
  <1> QED
    BY <1>3, <1>4

-----------------------------------------------------------------------------
Chunk == [first : Nat, last : Nat, section : Nat, index : Nat]

Packing == [chunks : Seq(Chunk), from : Nat \ {0}, section : Nat]

LEMMA FlushType ==
  ASSUME NEW acc \in Packing, NEW e \in Nat
  PROVE  Flush(acc, e) \in Seq(Chunk)
  <1>1. acc.chunks \in Seq(Chunk) /\ acc.from \in Nat /\ acc.section \in Nat
    BY DEF Packing
  <1>2. Len(acc.chunks) \in Nat
    BY <1>1
  <1>3. [first |-> acc.from, last |-> e, section |-> acc.section,
         index |-> Len(acc.chunks)] \in Chunk
    BY <1>1, <1>2 DEF Chunk
  <1> QED
    BY <1>1, <1>3 DEF Flush

\* What line i does to the packing, by the three ways through the loop.
LEMMA LineTaken ==
  ASSUME NEW lines \in Seq(Line), NEW acc \in Packing, NEW i \in 1..Len(lines)
  PROVE  \/ /\ lines[i].heading
            /\ acc.from < i
            /\ TakeLine(lines, acc, i) =
                 [chunks |-> Flush(acc, i - 1), from |-> i, section |-> i]
         \/ /\ ~ lines[i].heading
            /\ acc.from <= i
            /\ TakeLine(lines, acc, i) =
                 [chunks |-> Flush(acc, i), from |-> OverlapFrom(lines, acc.from, i),
                  section |-> acc.section]
         \/ /\ lines[i].heading =>
                 \/ acc.from >= i
                 \/ Tokens(lines, acc.from, i - 1) < TargetMin \div 2
            /\ ~ lines[i].heading => Tokens(lines, acc.from, i) < TargetMax
            /\ TakeLine(lines, acc, i) =
                 [chunks |-> acc.chunks, from |-> acc.from,
                  section |-> IF lines[i].heading THEN i ELSE acc.section]
  <1> DEFINE half == TargetMin \div 2
  <1>1. half \in Nat /\ TargetMax \in Nat \ {0}
    BY TargetsAssumption
  <1>2. acc.from \in Nat \ {0} /\ i \in Nat /\ i - 1 \in 0..Len(lines) /\ i \in 0..Len(lines)
    BY DEF Packing
  <1>3. Tokens(lines, acc.from, i) \in Nat /\ Tokens(lines, acc.from, i - 1) \in Nat
    BY <1>2, TokensSplit
  <1>4. acc.from > i => Tokens(lines, acc.from, i) = 0
    BY <1>2, TokensSplit
  <1>5. lines[i].heading \in BOOLEAN
    <2>1. lines[i] \in Line
      OBVIOUS
    <2> QED
      BY <2>1 DEF Line
  <1> HIDE DEF half
  <1>6. CASE lines[i].heading /\ acc.from < i /\ Tokens(lines, acc.from, i - 1) >= half
    BY <1>6 DEF TakeLine, TakeLineThenFrom, half
  <1>7. CASE ~ lines[i].heading /\ Tokens(lines, acc.from, i) >= TargetMax
    <2>1. acc.from <= i
      BY <1>1, <1>2, <1>3, <1>4, <1>7
    <2> QED
      BY <1>7, <2>1 DEF TakeLine, TakeLineThenFrom
  <1>8. CASE /\ ~ (lines[i].heading /\ acc.from < i /\ Tokens(lines, acc.from, i - 1) >= half)
             /\ ~ (~ lines[i].heading /\ Tokens(lines, acc.from, i) >= TargetMax)
    <2>1. TakeLine(lines, acc, i) =
            [chunks |-> acc.chunks, from |-> acc.from,
             section |-> IF lines[i].heading THEN i ELSE acc.section]
      BY <1>8 DEF TakeLine, TakeLineThenFrom, half
    <2>2. lines[i].heading => acc.from >= i \/ Tokens(lines, acc.from, i - 1) < half
      BY <1>1, <1>2, <1>3, <1>8
    <2>3. ~ lines[i].heading => Tokens(lines, acc.from, i) < TargetMax
      BY <1>1, <1>3, <1>8
    <2> QED
      BY <2>1, <2>2, <2>3 DEF half
  <1> QED
    BY <1>5, <1>6, <1>7, <1>8

LEMMA TakeLineType ==
  ASSUME NEW lines \in Seq(Line), NEW acc \in Packing, NEW i \in 1..Len(lines)
  PROVE  TakeLine(lines, acc, i) \in Packing
  <1>1. /\ acc.chunks \in Seq(Chunk) /\ acc.from \in Nat \ {0} /\ acc.section \in Nat
        /\ i \in Nat \ {0} /\ i - 1 \in Nat
    BY DEF Packing
  <1>2. Flush(acc, i - 1) \in Seq(Chunk) /\ Flush(acc, i) \in Seq(Chunk)
    BY <1>1, FlushType
  <1>3. acc.from <= i => OverlapFrom(lines, acc.from, i) \in Nat \ {0}
    <2> SUFFICES ASSUME acc.from <= i PROVE OverlapFrom(lines, acc.from, i) \in Nat \ {0}
      OBVIOUS
    <2>1. acc.from \in 1..i
      BY <1>1
    <2>2. OverlapFrom(lines, acc.from, i) \in acc.from..i
      BY <2>1, OverlapIsATail
    <2> QED
      BY <1>1, <2>2
  <1>4. CASE /\ lines[i].heading
             /\ acc.from < i
             /\ TakeLine(lines, acc, i) =
                  [chunks |-> Flush(acc, i - 1), from |-> i, section |-> i]
    BY <1>1, <1>2, <1>4 DEF Packing
  <1>5. CASE /\ ~ lines[i].heading
             /\ acc.from <= i
             /\ TakeLine(lines, acc, i) =
                  [chunks |-> Flush(acc, i), from |-> OverlapFrom(lines, acc.from, i),
                   section |-> acc.section]
    BY <1>1, <1>2, <1>3, <1>5 DEF Packing
  <1>6. CASE TakeLine(lines, acc, i) =
               [chunks |-> acc.chunks, from |-> acc.from,
                section |-> IF lines[i].heading THEN i ELSE acc.section]
    BY <1>1, <1>6 DEF Packing
  <1> QED
    BY <1>4, <1>5, <1>6, LineTaken

\* The loop, unfolded.
LEMMA PackedDef ==
  ASSUME NEW lines \in Seq(Line)
  PROVE  /\ Packed(lines) \in [0..Len(lines) -> Packing]
         /\ Packed(lines)[0] = NothingPacked
         /\ \A i \in 1..Len(lines) :
              Packed(lines)[i] = TakeLine(lines, Packed(lines)[i - 1], i)
  <1> DEFINE n == Len(lines)
             step == [x \in Packing \X (1..n) |-> TakeLine(lines, x[1], x[2])]
  <1>1. n \in Nat
    OBVIOUS
  <1>2. NothingPacked \in Packing
    BY DEF NothingPacked, Packing
  <1>3. step \in [Packing \X (1..n) -> Packing]
    <2>1. ASSUME NEW x \in Packing \X (1..n) PROVE TakeLine(lines, x[1], x[2]) \in Packing
      <3>1. x[1] \in Packing /\ x[2] \in 1..n
        OBVIOUS
      <3> QED
        BY <3>1, TakeLineType
    <2> QED
      BY <2>1
  <1>4. PICK f : LoopRun(n, Packing, NothingPacked, step, f)
    <2> HIDE DEF step, n
    <2> QED BY <1>1, <1>2, <1>3, LoopExists
  <1>5. ASSUME NEW i \in 1..n PROVE f[i] = TakeLine(lines, f[i - 1], i)
    <2>1. i - 1 \in 0..n
      OBVIOUS
    <2>2. <<f[i - 1], i>> \in Packing \X (1..n)
      BY <1>4, <2>1 DEF LoopRun
    <2> QED
      BY <1>4, <2>2 DEF LoopRun
  <1>6. f = [i \in 0..n |-> IF i = 0 THEN NothingPacked ELSE TakeLine(lines, f[i - 1], i)]
    BY <1>4, <1>5 DEF LoopRun
  <1>7. Packed(lines) =
          CHOOSE g : g = [i \in 0..n |-> IF i = 0 THEN NothingPacked
                                         ELSE TakeLine(lines, g[i - 1], i)]
    BY DEF Packed
  <1> DEFINE r == Packed(lines)
  <1>8. r = [i \in 0..n |-> IF i = 0 THEN NothingPacked ELSE TakeLine(lines, r[i - 1], i)]
    BY <1>6, <1>7
  <1> HIDE DEF r
  <1> DEFINE S == {k \in Nat : k <= n => r[k] \in Packing}
  <1>9. r[0] = NothingPacked /\ \A i \in 1..n : r[i] = TakeLine(lines, r[i - 1], i)
    BY <1>8
  <1>10. 0 \in S
    BY <1>2, <1>9
  <1>11. ASSUME NEW k \in Nat, k \in S PROVE k + 1 \in S
    <2> SUFFICES ASSUME k + 1 <= n PROVE r[k + 1] \in Packing
      OBVIOUS
    <2>1. k + 1 \in 1..n /\ (k + 1) - 1 = k /\ r[k] \in Packing
      BY <1>11
    <2>2. r[k + 1] = TakeLine(lines, r[k], k + 1)
      BY <1>9, <2>1
    <2> QED
      BY <2>1, <2>2, TakeLineType
  <1>12. Nat \subseteq S
    <2> HIDE DEF S
    <2> QED BY <1>10, <1>11, NatSetInduction
  <1>13. \A i \in 0..n : r[i] \in Packing
    BY <1>12
  <1>14. r \in [0..Len(lines) -> Packing]
    BY <1>8, <1>13
  <1> QED
    BY <1>9, <1>14 DEF r

\* The chunks so far are in order, without a gap, and begin with line 1.
InOrder(chunks) ==
  \A c \in DOMAIN chunks :
    /\ chunks[c].index = c - 1
    /\ chunks[c].first <= chunks[c].last
    /\ c > 1 => /\ chunks[c].first \in chunks[c - 1].first..(chunks[c - 1].last + 1)
                /\ chunks[c].last >= chunks[c - 1].last

\* The chunks and the pending lines from from on, of the lines up to e.
Covered(chunks, from, e) ==
  /\ from \in 1..(e + 1)
  /\ chunks = <<>> => from = 1
  /\ chunks # <<>> =>
       /\ chunks[1].first = 1
       /\ from \in chunks[Len(chunks)].first..(chunks[Len(chunks)].last + 1)
       /\ chunks[Len(chunks)].last <= e
  /\ InOrder(chunks)

LEMMA CoveredStays ==
  ASSUME NEW chunks \in Seq(Chunk), NEW from \in Nat, NEW e \in Nat, Covered(chunks, from, e)
  PROVE  Covered(chunks, from, e + 1)
  <1>1. chunks # <<>> => chunks[Len(chunks)] \in Chunk
    OBVIOUS
  <1>2. chunks # <<>> => chunks[Len(chunks)].last \in Nat
    BY <1>1 DEF Chunk
  <1> QED
    BY <1>2 DEF Covered

LEMMA Flushed ==
  ASSUME NEW acc \in Packing, NEW e \in Nat, acc.from <= e
  PROVE  /\ Flush(acc, e) \in Seq(Chunk)
         /\ Len(Flush(acc, e)) = Len(acc.chunks) + 1
         /\ \A c \in 1..Len(acc.chunks) : Flush(acc, e)[c] = acc.chunks[c]
         /\ LET last == Flush(acc, e)[Len(acc.chunks) + 1]
            IN  last.first = acc.from /\ last.last = e /\ last.index = Len(acc.chunks)
  <1>1. acc.chunks \in Seq(Chunk) /\ acc.from \in Nat
    BY DEF Packing
  <1>2. PICK new : new = [first |-> acc.from, last |-> e, section |-> acc.section,
                          index |-> Len(acc.chunks)]
    OBVIOUS
  <1>3. Flush(acc, e) = Append(acc.chunks, new)
    <2>1. ~ (acc.from > e)
      BY <1>1
    <2> QED
      BY <1>2, <2>1 DEF Flush
  <1>4. Flush(acc, e) \in Seq(Chunk)
    BY FlushType
  <1>5. /\ Len(Append(acc.chunks, new)) = Len(acc.chunks) + 1
        /\ \A c \in 1..Len(acc.chunks) : Append(acc.chunks, new)[c] = acc.chunks[c]
        /\ Append(acc.chunks, new)[Len(acc.chunks) + 1] = new
    BY <1>1
  <1>6. new.first = acc.from /\ new.last = e /\ new.index = Len(acc.chunks)
    BY <1>2
  <1> QED
    BY <1>3, <1>4, <1>5, <1>6

LEMMA FlushCovers ==
  ASSUME NEW acc \in Packing, NEW e \in Nat, acc.from <= e,
         Covered(acc.chunks, acc.from, e),
         NEW from \in acc.from..(e + 1)
  PROVE  Covered(Flush(acc, e), from, e)
  <1> DEFINE s == acc.chunks
             n == Len(s)
             t == Flush(acc, e)
  <1>1. s \in Seq(Chunk) /\ acc.from \in Nat \ {0} /\ n \in Nat
    BY DEF Packing
  <1>2. /\ t \in Seq(Chunk)
        /\ Len(t) = n + 1
        /\ \A c \in 1..n : t[c] = s[c]
        /\ t[n + 1].first = acc.from /\ t[n + 1].last = e /\ t[n + 1].index = n
    BY Flushed
  <1>3. /\ s = <<>> => acc.from = 1
        /\ s # <<>> => /\ s[1].first = 1
                       /\ acc.from \in s[n].first..(s[n].last + 1)
                       /\ s[n].last <= e
    BY DEF Covered
  <1>4. \A c \in 1..n : /\ s[c].index = c - 1
                        /\ s[c].first <= s[c].last
                        /\ c > 1 => /\ s[c].first \in s[c - 1].first..(s[c - 1].last + 1)
                                    /\ s[c].last >= s[c - 1].last
    <2>1. InOrder(s) /\ DOMAIN s = 1..n
      BY <1>1 DEF Covered
    <2> HIDE DEF s, n
    <2> QED
      BY <2>1 DEF InOrder
  <1>5. (s = <<>> <=> n = 0) /\ t # <<>>
    BY <1>1, <1>2
  <1> HIDE DEF s, n, t
  <1>6. t[1].first = 1
    <2>1. CASE n = 0
      BY <2>1, <1>2, <1>3, <1>5
    <2>2. CASE n # 0
      BY <2>2, <1>1, <1>2, <1>3, <1>5
    <2> QED
      BY <2>1, <2>2
  <1>7. InOrder(t)
    <2> SUFFICES ASSUME NEW c \in 1..(n + 1)
                 PROVE  /\ t[c].index = c - 1
                        /\ t[c].first <= t[c].last
                        /\ c > 1 => /\ t[c].first \in t[c - 1].first..(t[c - 1].last + 1)
                                    /\ t[c].last >= t[c - 1].last
      BY <1>2 DEF InOrder
    <2>1. CASE c \in 1..n
      <3>1. t[c] = s[c] /\ (c > 1 => c - 1 \in 1..n /\ t[c - 1] = s[c - 1])
        BY <2>1, <1>1, <1>2
      <3> QED
        BY <2>1, <3>1, <1>4
    <2>2. CASE c = n + 1
      <3>1. t[c].index = c - 1 /\ t[c].first <= t[c].last
        BY <2>2, <1>1, <1>2
      <3>2. ASSUME c > 1
            PROVE  /\ t[c].first \in t[c - 1].first..(t[c - 1].last + 1)
                   /\ t[c].last >= t[c - 1].last
        <4>1. n # 0 /\ c - 1 = n /\ n \in 1..n
          BY <3>2, <2>2, <1>1
        <4>2. t[c - 1] = s[n]
          BY <4>1, <1>2
        <4>3. acc.from \in s[n].first..(s[n].last + 1) /\ s[n].last <= e
          BY <4>1, <1>3, <1>5
        <4>4. s[n].last \in Nat
          <5>1. s[n] \in Chunk
            BY <4>1, <1>1 DEF n
          <5> QED
            BY <5>1 DEF Chunk
        <4> QED
          BY <2>2, <4>2, <4>3, <4>4, <1>2
      <3> QED
        BY <3>1, <3>2
    <2> QED
      BY <2>1, <2>2, <1>1
  <1>8. from \in 1..(e + 1)
    BY <1>1
  <1> QED
    BY <1>1, <1>2, <1>5, <1>6, <1>7, <1>8 DEF Covered, t

LEMMA TakeLineCovers ==
  ASSUME NEW lines \in Seq(Line), NEW acc \in Packing, NEW i \in 1..Len(lines),
         Covered(acc.chunks, acc.from, i - 1)
  PROVE  Covered(TakeLine(lines, acc, i).chunks, TakeLine(lines, acc, i).from, i)
  <1> DEFINE new == TakeLine(lines, acc, i)
  <1>1. /\ acc.chunks \in Seq(Chunk) /\ acc.from \in Nat \ {0}
        /\ i \in Nat \ {0} /\ i - 1 \in Nat /\ (i - 1) + 1 = i
    BY DEF Packing
  <1>2. Covered(acc.chunks, acc.from, i)
    BY <1>1, CoveredStays
  <1>3. acc.from \in 1..i
    BY <1>1 DEF Covered
  <1>4. new \in Packing
    BY TakeLineType
  <1>5. CASE /\ acc.from < i
             /\ new = [chunks |-> Flush(acc, i - 1), from |-> i, section |-> i]
    <2>1. acc.from <= i - 1 /\ i \in acc.from..((i - 1) + 1)
      BY <1>1, <1>5
    <2>2. Covered(Flush(acc, i - 1), i, i - 1)
      BY <1>1, <2>1, FlushCovers
    <2>3. Flush(acc, i - 1) \in Seq(Chunk)
      BY <1>1, FlushType
    <2>4. Covered(Flush(acc, i - 1), i, i)
      BY <1>1, <2>2, <2>3, CoveredStays
    <2> QED
      BY <1>5, <2>4
  <1>6. CASE /\ acc.from <= i
             /\ new = [chunks |-> Flush(acc, i), from |-> OverlapFrom(lines, acc.from, i),
                       section |-> acc.section]
    <2>1. OverlapFrom(lines, acc.from, i) \in acc.from..i
      BY <1>3, OverlapIsATail
    <2>2. OverlapFrom(lines, acc.from, i) \in acc.from..(i + 1)
      BY <1>1, <2>1
    <2>3. Covered(Flush(acc, i), OverlapFrom(lines, acc.from, i), i)
      BY <1>1, <1>2, <1>6, <2>2, FlushCovers
    <2> QED
      BY <1>6, <2>3
  <1>7. CASE new = [chunks |-> acc.chunks, from |-> acc.from,
                    section |-> IF lines[i].heading THEN i ELSE acc.section]
    BY <1>2, <1>7
  <1> QED
    BY <1>5, <1>6, <1>7, LineTaken

LEMMA PackedCovers ==
  ASSUME NEW lines \in Seq(Line)
  PROVE  \A i \in 0..Len(lines) : Covered(Packed(lines)[i].chunks, Packed(lines)[i].from, i)
  <1> DEFINE n == Len(lines)
             r == Packed(lines)
             S == {k \in Nat : k <= n => Covered(r[k].chunks, r[k].from, k)}
  <1>1. /\ r \in [0..n -> Packing]
        /\ r[0] = NothingPacked
        /\ \A i \in 1..n : r[i] = TakeLine(lines, r[i - 1], i)
    BY PackedDef
  <1> HIDE DEF r
  <1>2. 0 \in S
    <2>1. r[0].chunks = <<>> /\ r[0].from = 1
      BY <1>1 DEF NothingPacked
    <2>2. InOrder(<<>>)
      BY DEF InOrder
    <2>3. Covered(r[0].chunks, r[0].from, 0)
      BY <2>1, <2>2 DEF Covered
    <2> QED
      BY <2>3
  <1>3. ASSUME NEW k \in Nat, k \in S PROVE k + 1 \in S
    <2> SUFFICES ASSUME k + 1 <= n PROVE Covered(r[k + 1].chunks, r[k + 1].from, k + 1)
      OBVIOUS
    <2>1. k + 1 \in 1..n /\ (k + 1) - 1 = k /\ k \in 0..n
      BY <1>3
    <2>2. Covered(r[k].chunks, r[k].from, k) /\ r[k] \in Packing
      BY <1>1, <1>3, <2>1
    <2>3. r[k + 1] = TakeLine(lines, r[k], k + 1)
      BY <1>1, <2>1
    <2> QED
      BY <2>1, <2>2, <2>3, TakeLineCovers
  <1>4. Nat \subseteq S
    <2> HIDE DEF S
    <2> QED BY <1>2, <1>3, NatSetInduction
  <1>5. \A i \in 0..n : Covered(r[i].chunks, r[i].from, i)
    BY <1>4
  <1> QED
    BY <1>5 DEF r

LEMMA EveryLineIsCovered ==
  \A lines \in Seq(Line) : CoversText(lines)
  <1> SUFFICES ASSUME NEW lines \in Seq(Line) PROVE CoversText(lines)
    OBVIOUS
  <1> DEFINE n == Len(lines)
             acc == Packed(lines)[n]
             chunks == ChunkDocument(lines)
  <1>1. n \in Nat /\ acc \in Packing /\ Covered(acc.chunks, acc.from, n)
    <2>1. n \in 0..n
      OBVIOUS
    <2> QED
      BY <2>1, PackedDef, PackedCovers
  <1>2. acc.chunks \in Seq(Chunk) /\ acc.from \in Nat \ {0}
    BY <1>1 DEF Packing
  <1>3. chunks = Flush(acc, n)
    BY DEF ChunkDocument
  <1>4. lines # <<>> <=> n # 0
    OBVIOUS
  <1> HIDE DEF n, acc, chunks
  <1> SUFFICES /\ n # 0 => chunks # <<>> /\ chunks[1].first = 1
               /\ chunks # <<>> => chunks[Len(chunks)].last = n
               /\ InOrder(chunks)
    BY <1>4 DEF CoversText, InOrder, n, chunks
  <1>5. CASE acc.from > n
    <2>1. chunks = acc.chunks
      BY <1>3, <1>5 DEF Flush
    <2>2. chunks = <<>> => n = 0
      BY <1>1, <1>2, <1>5, <2>1 DEF Covered
    <2>3. ASSUME chunks # <<>>
          PROVE  chunks[1].first = 1 /\ chunks[Len(chunks)].last = n
      <3>1. chunks[Len(chunks)] \in Chunk
        BY <1>2, <2>1, <2>3
      <3>2. chunks[Len(chunks)].last \in Nat /\ chunks[Len(chunks)].first \in Nat
        BY <3>1 DEF Chunk
      <3>3. /\ acc.from <= chunks[Len(chunks)].last + 1
            /\ chunks[Len(chunks)].last <= n
            /\ chunks[1].first = 1
        BY <1>1, <1>2, <2>1, <2>3, <3>2 DEF Covered
      <3> QED
        BY <1>1, <1>2, <1>5, <3>2, <3>3
    <2>4. InOrder(chunks)
      BY <1>1, <2>1 DEF Covered
    <2> QED
      BY <2>2, <2>3, <2>4
  <1>6. CASE acc.from <= n
    <2>1. acc.from \in acc.from..(n + 1)
      BY <1>1, <1>2, <1>6
    <2>2. Covered(chunks, acc.from, n)
      BY <1>1, <1>3, <1>6, <2>1, FlushCovers
    <2>3. /\ chunks \in Seq(Chunk)
          /\ Len(chunks) = Len(acc.chunks) + 1
          /\ chunks[Len(acc.chunks) + 1].last = n
      BY <1>1, <1>3, <1>6, Flushed
    <2>4. chunks # <<>>
      BY <1>2, <2>3
    <2> QED
      BY <2>2, <2>3, <2>4 DEF Covered
  <1> QED
    BY <1>1, <1>2, <1>5, <1>6

\* No line of a document is lost, and its chunks are numbered in the order of
\* its lines, without a gap: for every text, every split into headings and other
\* lines, and all targets (chunking.py's chunk_document).
THEOREM ChunksCover ==
  /\ \A lines \in Seq(Line) : CoversText(lines)
  /\ ChunksCoverText
BY EveryLineIsCovered, InputsAssumption DEF ChunksCoverText

\* No line is longer than the target less the overlap, and headings are short.
LinesFit(lines) ==
  /\ \A i \in DOMAIN lines : lines[i].tokens <= TargetMax - Overlap
  /\ HeadingsAreShort(lines)

\* Each chunk up to its last line is below the target, and repeats less than a
\* line more than Overlap.
ChunksNear(lines, chunks) ==
  \A c \in DOMAIN chunks :
    /\ Tokens(lines, chunks[c].first, chunks[c].last - 1) < TargetMax
    /\ c > 1 => Tokens(lines, chunks[c].first + 1, chunks[c - 1].last) < Overlap

\* So do the pending lines from from to e.
Near(lines, chunks, from, e) ==
  /\ Tokens(lines, from, e) < TargetMax
  /\ chunks # <<>> => Tokens(lines, from + 1, chunks[Len(chunks)].last) < Overlap
  /\ ChunksNear(lines, chunks)

LEMMA FlushNear ==
  ASSUME NEW lines \in Seq(Line), NEW acc \in Packing, NEW e \in 0..Len(lines),
         acc.from <= e,
         Tokens(lines, acc.from, e - 1) < TargetMax,
         acc.chunks # <<>> =>
           Tokens(lines, acc.from + 1, acc.chunks[Len(acc.chunks)].last) < Overlap,
         ChunksNear(lines, acc.chunks)
  PROVE  ChunksNear(lines, Flush(acc, e))
  <1> DEFINE s == acc.chunks
             n == Len(s)
             t == Flush(acc, e)
  <1>1. s \in Seq(Chunk) /\ acc.from \in Nat \ {0} /\ n \in Nat /\ e \in Nat
    BY DEF Packing
  <1>2. /\ t \in Seq(Chunk)
        /\ Len(t) = n + 1
        /\ \A c \in 1..n : t[c] = s[c]
        /\ t[n + 1].first = acc.from /\ t[n + 1].last = e
    BY <1>1, Flushed
  <1>3. \A c \in 1..n : /\ Tokens(lines, s[c].first, s[c].last - 1) < TargetMax
                        /\ c > 1 => Tokens(lines, s[c].first + 1, s[c - 1].last) < Overlap
    <2>1. ChunksNear(lines, s) /\ DOMAIN s = 1..n
      BY <1>1
    <2> HIDE DEF s, n
    <2> QED
      BY <2>1 DEF ChunksNear
  <1>4. n # 0 => Tokens(lines, acc.from + 1, s[n].last) < Overlap
    BY <1>1
  <1> HIDE DEF s, n, t
  <1> SUFFICES ASSUME NEW c \in 1..(n + 1)
               PROVE  /\ Tokens(lines, t[c].first, t[c].last - 1) < TargetMax
                      /\ c > 1 => Tokens(lines, t[c].first + 1, t[c - 1].last) < Overlap
    BY <1>2 DEF ChunksNear, t
  <1>5. CASE c \in 1..n
    <2>1. t[c] = s[c] /\ (c > 1 => c - 1 \in 1..n /\ t[c - 1] = s[c - 1])
      BY <1>5, <1>1, <1>2
    <2> QED
      BY <1>5, <2>1, <1>3
  <1>6. CASE c = n + 1
    <2>1. Tokens(lines, t[c].first, t[c].last - 1) < TargetMax
      BY <1>6, <1>2
    <2>2. ASSUME c > 1 PROVE Tokens(lines, t[c].first + 1, t[c - 1].last) < Overlap
      <3>1. n # 0 /\ c - 1 = n /\ n \in 1..n
        BY <2>2, <1>6, <1>1
      <3>2. t[c - 1] = s[n]
        BY <3>1, <1>2
      <3> QED
        BY <3>1, <3>2, <1>2, <1>4, <1>6
    <2> QED
      BY <2>1, <2>2
  <1> QED
    BY <1>5, <1>6, <1>1

LEMMA TakeLineNear ==
  ASSUME NEW lines \in Seq(Line), LinesFit(lines),
         NEW acc \in Packing, NEW i \in 1..Len(lines),
         acc.from <= i,
         Near(lines, acc.chunks, acc.from, i - 1)
  PROVE  Near(lines, TakeLine(lines, acc, i).chunks, TakeLine(lines, acc, i).from, i)
  <1> DEFINE new == TakeLine(lines, acc, i)
             half == TargetMin \div 2
             from == acc.from
  <1>1. /\ acc.chunks \in Seq(Chunk) /\ from \in Nat \ {0}
        /\ i \in Nat \ {0} /\ i - 1 \in 0..Len(lines) /\ i \in 0..Len(lines) /\ i \in DOMAIN lines
    BY DEF Packing
  <1>2. TargetMax \in Nat \ {0} /\ Overlap \in Nat \ {0} /\ half \in Nat /\ Overlap < TargetMax
    BY TargetsAssumption
  <1>3. /\ lines[i].tokens \in Nat
        /\ Tokens(lines, i, i) = lines[i].tokens
        /\ Tokens(lines, from, i) \in Nat /\ Tokens(lines, from, i - 1) \in Nat
        /\ Tokens(lines, from, i) = Tokens(lines, from, i - 1) + lines[i].tokens
    <2>1. i <= i /\ i > i - 1
      BY <1>1
    <2>2. /\ lines[i].tokens \in Nat
          /\ Tokens(lines, i, i) = Tokens(lines, i, i - 1) + lines[i].tokens
          /\ Tokens(lines, i, i - 1) = 0
      BY <1>1, <2>1, TokensSplit
    <2>3. /\ Tokens(lines, from, i) \in Nat /\ Tokens(lines, from, i - 1) \in Nat
          /\ Tokens(lines, from, i) = Tokens(lines, from, i - 1) + lines[i].tokens
      BY <1>1, TokensSplit
    <2> QED
      BY <2>2, <2>3
  <1>4. lines[i].tokens <= TargetMax - Overlap
    BY <1>1 DEF LinesFit
  <1>5. lines[i].heading => lines[i].tokens <= TargetMax - half
    BY <1>1 DEF LinesFit, HeadingsAreShort
  <1>6. /\ Tokens(lines, from, i - 1) < TargetMax
        /\ acc.chunks # <<>> => Tokens(lines, from + 1, acc.chunks[Len(acc.chunks)].last) < Overlap
        /\ ChunksNear(lines, acc.chunks)
    BY DEF Near
  <1> HIDE DEF half, new
  <1>7. CASE /\ from < i
             /\ new = [chunks |-> Flush(acc, i - 1), from |-> i, section |-> i]
    <2>1. from <= i - 1 /\ i - 1 \in Nat \ {0}
      BY <1>1, <1>7
    <2>2. Tokens(lines, from, (i - 1) - 1) < TargetMax
      <3>1. (i - 1) - 1 \in 0..Len(lines) /\ i - 1 > 0
        BY <1>1, <2>1
      <3>2. Tokens(lines, from, (i - 1) - 1) <= Tokens(lines, from, i - 1)
        BY <1>1, <3>1, TokensWiden
      <3>3. Tokens(lines, from, (i - 1) - 1) \in Nat
        BY <1>1, <3>1, TokensSplit
      <3> QED
        BY <1>2, <1>3, <1>6, <3>2, <3>3
    <2>3. ChunksNear(lines, Flush(acc, i - 1))
      BY <1>1, <1>6, <2>1, <2>2, FlushNear
    <2>4. Flush(acc, i - 1)[Len(Flush(acc, i - 1))].last = i - 1
      BY <1>1, <2>1, Flushed
    <2>5. Tokens(lines, i + 1, i - 1) < Overlap
      <3>1. i + 1 > i - 1
        BY <1>1
      <3> QED
        BY <1>2, <3>1 DEF Tokens
    <2>6. Tokens(lines, i, i) < TargetMax
      BY <1>2, <1>3, <1>4
    <2> QED
      BY <1>7, <2>3, <2>4, <2>5, <2>6 DEF Near, new
  <1>8. CASE new = [chunks |-> Flush(acc, i), from |-> OverlapFrom(lines, from, i),
                    section |-> acc.section]
    <2> DEFINE tail == OverlapFrom(lines, from, i)
    <2>1. from \in 1..i
      BY <1>1
    <2>2. tail \in from..i /\ Tokens(lines, tail + 1, i) < Overlap
      BY <2>1, OverlapIsATail
    <2> HIDE DEF tail
    <2>3. Tokens(lines, tail, i) < TargetMax
      <3>1. /\ tail \in Nat \ {0} /\ tail <= i /\ tail \in DOMAIN lines
            /\ tail + 1 \in Nat \ {0}
        BY <1>1, <2>2
      <3>2. /\ Tokens(lines, tail, i) = lines[tail].tokens + Tokens(lines, tail + 1, i)
            /\ lines[tail].tokens \in Nat
        BY <1>1, <3>1, TokensSplit
      <3>3. Tokens(lines, tail + 1, i) \in Nat
        BY <1>1, <3>1, TokensSplit
      <3>4. lines[tail].tokens <= TargetMax - Overlap
        BY <3>1 DEF LinesFit
      <3> QED
        BY <1>2, <2>2, <3>2, <3>3, <3>4
    <2>4. ChunksNear(lines, Flush(acc, i))
      BY <1>1, <1>6, FlushNear
    <2>5. Flush(acc, i)[Len(Flush(acc, i))].last = i
      BY <1>1, Flushed
    <2> QED
      BY <1>8, <2>2, <2>3, <2>4, <2>5 DEF Near, new, tail
  <1>9. CASE /\ lines[i].heading => from >= i \/ Tokens(lines, from, i - 1) < half
             /\ ~ lines[i].heading => Tokens(lines, from, i) < TargetMax
             /\ new = [chunks |-> acc.chunks, from |-> from,
                       section |-> IF lines[i].heading THEN i ELSE acc.section]
    <2>1. Tokens(lines, from, i) < TargetMax
      <3>1. CASE ~ lines[i].heading
        BY <1>9, <3>1
      <3>2. CASE lines[i].heading /\ from >= i
        <4>1. from = i
          BY <1>1, <3>2
        <4> QED
          BY <4>1, <1>2, <1>3, <1>4
      <3>3. CASE lines[i].heading /\ Tokens(lines, from, i - 1) < half
        BY <3>3, <1>2, <1>3, <1>5
      <3> QED
        BY <1>9, <3>1, <3>2, <3>3
    <2> QED
      BY <1>6, <1>9, <2>1 DEF Near, new
  <1> QED
    BY <1>7, <1>8, <1>9, LineTaken DEF new, half

LEMMA PackedNear ==
  ASSUME NEW lines \in Seq(Line), LinesFit(lines)
  PROVE  \A i \in 0..Len(lines) : Near(lines, Packed(lines)[i].chunks, Packed(lines)[i].from, i)
  <1> DEFINE n == Len(lines)
             r == Packed(lines)
             S == {k \in Nat : k <= n => Near(lines, r[k].chunks, r[k].from, k)}
  <1>1. /\ r \in [0..n -> Packing]
        /\ r[0] = NothingPacked
        /\ \A i \in 1..n : r[i] = TakeLine(lines, r[i - 1], i)
    BY PackedDef
  <1>2. \A i \in 0..n : Covered(r[i].chunks, r[i].from, i)
    BY PackedCovers
  <1> HIDE DEF r
  <1>3. 0 \in S
    <2>1. r[0].chunks = <<>> /\ r[0].from = 1
      BY <1>1 DEF NothingPacked
    <2>2. ChunksNear(lines, <<>>)
      BY DEF ChunksNear
    <2>3. Tokens(lines, 1, 0) < TargetMax
      BY TargetsAssumption DEF Tokens
    <2>4. Near(lines, r[0].chunks, r[0].from, 0)
      BY <2>1, <2>2, <2>3 DEF Near
    <2> QED
      BY <2>4
  <1>4. ASSUME NEW k \in Nat, k \in S PROVE k + 1 \in S
    <2> SUFFICES ASSUME k + 1 <= n PROVE Near(lines, r[k + 1].chunks, r[k + 1].from, k + 1)
      OBVIOUS
    <2>1. k + 1 \in 1..n /\ (k + 1) - 1 = k /\ k \in 0..n
      BY <1>4
    <2>2. Near(lines, r[k].chunks, r[k].from, k) /\ r[k] \in Packing
      BY <1>1, <1>4, <2>1
    <2>3. r[k + 1] = TakeLine(lines, r[k], k + 1)
      BY <1>1, <2>1
    <2>4. r[k].from <= k + 1
      BY <1>2, <2>1 DEF Covered
    <2> QED
      BY <2>1, <2>2, <2>3, <2>4, TakeLineNear
  <1>5. Nat \subseteq S
    <2> HIDE DEF S
    <2> QED BY <1>3, <1>4, NatSetInduction
  <1>6. \A i \in 0..n : Near(lines, r[i].chunks, r[i].from, i)
    BY <1>5
  <1> QED
    BY <1>6 DEF r

LEMMA EveryChunkIsNear ==
  \A lines \in Seq(Line) : StaysNearTarget(lines)
  <1> SUFFICES ASSUME NEW lines \in Seq(Line), LinesFit(lines)
               PROVE  ChunksNear(lines, ChunkDocument(lines))
    BY DEF StaysNearTarget, ChunksNear, LinesFit
  <1> DEFINE n == Len(lines)
             acc == Packed(lines)[n]
             chunks == ChunkDocument(lines)
  <1>1. n \in 0..n /\ n \in Nat
    OBVIOUS
  <1>2. acc \in Packing /\ Near(lines, acc.chunks, acc.from, n)
    BY <1>1, PackedDef, PackedNear
  <1>3. acc.from \in Nat \ {0}
    BY <1>2 DEF Packing
  <1>4. chunks = Flush(acc, n)
    BY DEF ChunkDocument
  <1> HIDE DEF acc, chunks
  <1>5. CASE acc.from > n
    BY <1>2, <1>4, <1>5 DEF Flush, Near, chunks
  <1>6. CASE acc.from <= n
    <2>1. Tokens(lines, acc.from, n - 1) < TargetMax
      <3>1. n > 0 /\ n - 1 \in 0..n
        BY <1>1, <1>3, <1>6
      <3>2. Tokens(lines, acc.from, n - 1) <= Tokens(lines, acc.from, n)
        BY <1>1, <1>3, <3>1, TokensWiden
      <3>3. Tokens(lines, acc.from, n - 1) \in Nat /\ Tokens(lines, acc.from, n) \in Nat
        BY <1>1, <1>3, <3>1, TokensSplit
      <3> QED
        BY <1>2, <3>2, <3>3, TargetsAssumption DEF Near
    <2>2. ChunksNear(lines, Flush(acc, n))
      BY <1>1, <1>2, <1>6, <2>1, FlushNear DEF Near
    <2> QED
      BY <1>4, <2>2 DEF chunks
  <1> QED
    BY <1>1, <1>3, <1>5, <1>6

\* A chunk passes its target by no more than its last line and repeats less than
\* a line more than Overlap, for every text of lines that fit and all targets
\* (chunking.py's chunk_document).
THEOREM ChunksAreNearTarget ==
  /\ \A lines \in Seq(Line) : StaysNearTarget(lines)
  /\ ChunksStayNearTarget
BY EveryChunkIsNear, InputsAssumption DEF ChunksStayNearTarget

-----------------------------------------------------------------------------
(* Statutes. *)

LEMMA SentencesCount == \A x \in Sentence : x.tokens \in Nat
BY DEF Sentence

\* Of a section: its lines are sequences of sentences, and so is the section
\* itself as far as counting goes.
LEMMA MeasuredDef ==
  ASSUME NEW section \in Section
  PROVE  /\ Len(section) \in Nat \ {0}
         /\ DOMAIN section = 1..Len(section)
         /\ \A l \in 1..Len(section) : section[l] \in Seq(Sentence)
         /\ Measured(section) \in Seq(Sentence)
         /\ Len(Measured(section)) = Len(section)
         /\ \A l \in 1..Len(section) :
              Measured(section)[l].tokens = AllTokens(section[l])
  <1>1. section \in Seq(Seq(Sentence)) /\ section # <<>>
    BY DEF Section
  <1>2. /\ Len(section) \in Nat \ {0}
        /\ DOMAIN section = 1..Len(section)
        /\ \A l \in 1..Len(section) : section[l] \in Seq(Sentence)
    <2>1. Len(section) \in Nat /\ DOMAIN section = 1..Len(section)
      BY <1>1
    <2>2. Len(section) # 0
      BY <1>1, EmptySeq
    <2>3. \A l \in 1..Len(section) : section[l] \in Seq(Sentence)
      BY <1>1, ElementOfSeq
    <2> QED
      BY <2>1, <2>2, <2>3
  <1>3. ASSUME NEW l \in 1..Len(section) PROVE AllTokens(section[l]) \in Nat
    <2>1. section[l] \in Seq(Sentence) /\ Len(section[l]) \in Nat
      BY <1>2
    <2>2. 1 \in Nat \ {0} /\ Len(section[l]) \in 0..Len(section[l])
      BY <2>1
    <2>3. Tokens(section[l], 1, Len(section[l])) \in Nat
      BY <2>1, <2>2, SentencesCount, CountsSplit
    <2> QED
      BY <2>3 DEF AllTokens
  <1> DEFINE n == Len(section)
             c == [l \in 1..n |-> [tokens |-> AllTokens(section[l])]]
  <1>4. Measured(section) = c
    BY <1>2 DEF Measured
  <1>5. c \in [1..n -> Sentence]
    BY <1>3 DEF Sentence
  <1>6. c \in Seq(Sentence) /\ Len(c) = n
    <2> HIDE DEF c
    <2>1. n \in Nat
      BY <1>2
    <2> HIDE DEF n
    <2>2. c \in Seq(Sentence)
      BY <1>5, <2>1
    <2>3. DOMAIN c = 1..n
      BY <1>5
    <2> QED
      BY <2>1, <2>2, <2>3, LenProperties
  <1>7. \A l \in 1..n : c[l].tokens = AllTokens(section[l])
    OBVIOUS
  <1> QED
    BY <1>2, <1>4, <1>6, <1>7

Position == Nat \ {0}
Text == [first : Position, from : Position, last : Position, to : Nat]

\* The parts hold a section from sentence f of line a to before sentence t of line b.
Laid(section, parts, a, f, b, t) ==
  /\ parts = <<>> => a = b /\ f = t
  /\ parts # <<>> => /\ Begins(parts[1], a, f)
                     /\ Follows(section, parts[Len(parts)], b, t)
  /\ \A p \in 1..Len(parts) : SoundPart(section, parts[p])
  /\ \A p \in 1..Len(parts) :
       p > 1 => Follows(section, parts[p - 1], parts[p].first, parts[p].from)

LEMMA LaidBy ==
  ASSUME NEW section, NEW text \in Text, SoundPart(section, text),
         NEW b, NEW t, Follows(section, text, b, t)
  PROVE  Laid(section, <<text>>, text.first, text.from, b, t)
  <1>1. Len(<<text>>) = 1 /\ <<text>>[1] = text /\ <<text>> # <<>>
    OBVIOUS
  <1>2. \A p \in 1..Len(<<text>>) : p = 1
    BY <1>1
  <1> QED
    BY <1>1, <1>2 DEF Laid, Begins

LEMMA LaidConcat ==
  ASSUME NEW section, NEW P \in Seq(Text), NEW Q \in Seq(Text),
         NEW a, NEW f, NEW b, NEW t, NEW c, NEW u,
         Laid(section, P, a, f, b, t), Laid(section, Q, b, t, c, u)
  PROVE  Laid(section, P \o Q, a, f, c, u)
  <1>1. CASE P = <<>>
    <2>1. P \o Q = Q
      BY <1>1, ConcatEmptySeq
    <2> QED
      BY <1>1, <2>1 DEF Laid
  <1>2. CASE Q = <<>>
    <2>1. P \o Q = P
      BY <1>2, ConcatEmptySeq
    <2> QED
      BY <1>2, <2>1 DEF Laid
  <1>3. CASE P # <<>> /\ Q # <<>>
    <2> DEFINE m == Len(P)
               n == Len(Q)
               R == P \o Q
    <2>1. /\ m \in Nat \ {0} /\ n \in Nat \ {0}
      <3>1. Len(P) \in Nat /\ Len(Q) \in Nat
        OBVIOUS
      <3> QED
        BY <1>3, <3>1, EmptySeq
    <2>2. /\ Len(R) = m + n
          /\ \A i \in 1..m : R[i] = P[i]
          /\ \A i \in 1..n : R[m + i] = Q[i]
      <3>1. /\ Len(R) = Len(P) + Len(Q)
            /\ \A i \in 1..(Len(P) + Len(Q)) : R[i] = IF i <= Len(P) THEN P[i] ELSE Q[i - Len(P)]
        BY ConcatProperties
      <3>2. ASSUME NEW i \in 1..m PROVE R[i] = P[i]
        BY <2>1, <3>1
      <3>3. ASSUME NEW i \in 1..n PROVE R[m + i] = Q[i]
        <4>1. m + i \in 1..(m + n) /\ ~ (m + i <= m) /\ (m + i) - m = i
          BY <2>1
        <4> QED
          BY <3>1, <4>1
      <3> QED
        BY <3>1, <3>2, <3>3
    <2>3. R # <<>>
      <3>1. Len(R) # 0
        BY <2>1, <2>2
      <3> QED
        BY <3>1
    <2>4. ASSUME NEW i \in 1..(m + n) PROVE i \in 1..m \/ \E j \in 1..n : i = m + j
      <3>1. CASE i <= m
        BY <2>1, <3>1
      <3>2. CASE i > m
        <4>1. i - m \in 1..n /\ i = m + (i - m)
          BY <2>1, <3>2
        <4> QED
          BY <4>1
      <3> QED
        BY <2>1, <3>1, <3>2
    <2> HIDE DEF m, n, R
    <2>5. /\ Begins(R[1], a, f)
          /\ Follows(section, R[Len(R)], c, u)
      <3>1. R[1] = P[1] /\ R[m + n] = Q[n]
        BY <2>1, <2>2
      <3> QED
        BY <1>3, <2>2, <3>1 DEF Laid, n
    <2>6. ASSUME NEW i \in 1..(m + n) PROVE SoundPart(section, R[i])
      BY <2>2, <2>4 DEF Laid, m, n
    <2>7. ASSUME NEW i \in 1..(m + n), i > 1
          PROVE  Follows(section, R[i - 1], R[i].first, R[i].from)
      <3>1. CASE i \in 1..m
        <4>1. i - 1 \in 1..m
          BY <2>1, <2>7, <3>1
        <4>2. R[i] = P[i] /\ R[i - 1] = P[i - 1]
          BY <2>2, <3>1, <4>1
        <4> QED
          BY <2>7, <3>1, <4>2 DEF Laid, m
      <3>2. ASSUME NEW j \in 1..n, i = m + j
            PROVE  Follows(section, R[i - 1], R[i].first, R[i].from)
        <4>1. CASE j = 1
          <5>1. i - 1 = m /\ m \in 1..m
            BY <2>1, <3>2, <4>1
          <5>2. R[i] = Q[1] /\ R[i - 1] = P[m]
            BY <2>2, <3>2, <4>1, <5>1
          <5>3. Follows(section, P[m], b, t) /\ Q[1].first = b /\ Q[1].from = t
            BY <1>3 DEF Laid, m, Begins
          <5> QED
            BY <5>2, <5>3
        <4>2. CASE j # 1
          <5>1. j - 1 \in 1..n /\ i - 1 = m + (j - 1) /\ j > 1
            BY <2>1, <3>2, <4>2
          <5>2. R[i] = Q[j] /\ R[i - 1] = Q[j - 1]
            BY <2>2, <3>2, <5>1
          <5>3. Follows(section, Q[j - 1], Q[j].first, Q[j].from)
            BY <5>1 DEF Laid, n
          <5> QED
            BY <5>2, <5>3
        <4> QED
          BY <4>1, <4>2
      <3> QED
        BY <2>4, <3>1, <3>2
    <2>8. Laid(section, R, a, f, c, u)
      BY <2>2, <2>3, <2>5, <2>6, <2>7 DEF Laid
    <2> QED
      BY <2>8 DEF R
  <1> QED
    BY <1>1, <1>2, <1>3

LEMMA LaidAppend ==
  ASSUME NEW section, NEW P \in Seq(Text), NEW a, NEW f,
         NEW text \in Text, SoundPart(section, text),
         Laid(section, P, a, f, text.first, text.from),
         NEW b, NEW t, Follows(section, text, b, t)
  PROVE  Laid(section, Append(P, text), a, f, b, t)
  <1>1. Append(P, text) = P \o <<text>>
    BY AppendIsConcat
  <1>2. <<text>> \in Seq(Text)
    OBVIOUS
  <1>3. Laid(section, <<text>>, text.first, text.from, b, t)
    BY LaidBy
  <1> QED
    BY <1>1, <1>2, <1>3, LaidConcat

\* Parts of one line, and of whole lines.

LEMMA SentencesAreSound ==
  ASSUME NEW section \in Section, NEW l \in 1..Len(section), Oversized(section[l]),
         NEW a \in 1..Len(section[l]), NEW b \in a..Len(section[l]),
         Tokens(section[l], a, b) > TargetMax => a = b
  PROVE  /\ Sentences(l, a, b) \in Text
         /\ SoundPart(section, Sentences(l, a, b))
  <1> DEFINE text == Sentences(l, a, b)
  <1>1. text \in Text /\ text.first = l /\ text.last = l /\ text.from = a /\ text.to = b
    <2>1. l \in Nat \ {0} /\ a \in Nat \ {0} /\ b \in Nat
      BY MeasuredDef
    <2> QED
      BY <2>1 DEF Sentences, Text, Position
  <1>2. /\ section[l] \in Seq(Sentence) /\ DOMAIN section = 1..Len(section)
        /\ Measured(section) \in Seq(Sentence) /\ Len(Measured(section)) = Len(section)
        /\ Measured(section)[l].tokens = AllTokens(section[l])
    BY MeasuredDef
  <1>3. Tokens(Measured(section), l, l) = AllTokens(section[l])
    <2>1. l \in Nat \ {0} /\ l \in 0..Len(Measured(section)) /\ l - 1 \in 0..Len(Measured(section))
          /\ l <= l /\ l > l - 1
      BY <1>2, MeasuredDef
    <2>2. /\ Tokens(Measured(section), l, l)
                = Tokens(Measured(section), l, l - 1) + Measured(section)[l].tokens
          /\ Measured(section)[l].tokens \in Nat
      BY <1>2, <2>1, SentencesCount, CountsSplit
    <2>3. Tokens(Measured(section), l, l - 1) = 0
      BY <2>1 DEF Tokens
    <2> QED
      BY <1>2, <2>2, <2>3
  <1>4. TextTokens(section, text) = Tokens(section[l], a, b)
    <2>1. Tokens(section[l], 1, Len(section[l])) - Tokens(section[l], 1, a - 1)
            - Tokens(section[l], b + 1, Len(section[l])) = Tokens(section[l], a, b)
      <3>1. a \in Nat \ {0}
        OBVIOUS
      <3> QED
        BY <1>2, <3>1, SentencesCount, CountsParts
    <2> HIDE DEF text
    <2> QED
      BY <1>1, <1>3, <2>1 DEF TextTokens, AllTokens
  <1> HIDE DEF text
  <1>5. /\ l \in 1..l /\ l \in DOMAIN section /\ a >= 1 /\ b \in 0..Len(section[l]) /\ a <= b
    BY <1>2, MeasuredDef
  <1>6. SoundPart(section, text)
    BY <1>1, <1>4, <1>5 DEF SoundPart
  <1> QED
    BY <1>1, <1>6 DEF text

LEMMA LinesAreSound ==
  ASSUME NEW section \in Section, NEW a \in 1..Len(section), NEW b \in a..Len(section),
         Tokens(Measured(section), a, b) <= TargetMax
  PROVE  /\ Lines(section, a, b) \in Text
         /\ SoundPart(section, Lines(section, a, b))
         /\ Begins(Lines(section, a, b), a, 1)
         /\ Follows(section, Lines(section, a, b), b + 1, 1)
  <1> DEFINE text == Lines(section, a, b)
  <1>0. Len(section) \in Nat /\ b \in 1..Len(section) /\ a \in 1..b /\ DOMAIN section = 1..Len(section)
    BY MeasuredDef
  <1>1. section[a] \in Seq(Sentence) /\ section[b] \in Seq(Sentence) /\ Len(section[b]) \in Nat
    BY <1>0, MeasuredDef
  <1>2. /\ text \in Text /\ text.first = a /\ text.last = b /\ text.from = 1
        /\ text.to = Len(section[b])
    BY <1>0, <1>1 DEF Lines, Text, Position
  <1>3. Tokens(section[a], 1, 1 - 1) = 0 /\ Tokens(section[b], Len(section[b]) + 1, Len(section[b])) = 0
    <2>1. 1 > 1 - 1 /\ Len(section[b]) + 1 > Len(section[b])
      BY <1>1
    <2> QED
      BY <2>1 DEF Tokens
  <1>4. Tokens(Measured(section), a, b) \in Nat
    <2>1. a \in Nat \ {0} /\ b \in 0..Len(Measured(section)) /\ Measured(section) \in Seq(Sentence)
      BY <1>0, MeasuredDef
    <2> QED
      BY <2>1, SentencesCount, CountsSplit
  <1> HIDE DEF text
  <1>5. TextTokens(section, text) = Tokens(Measured(section), a, b)
    <2>1. TextTokens(section, text) = Tokens(Measured(section), a, b) - 0 - 0
      BY <1>2, <1>3 DEF TextTokens
    <2> QED
      BY <1>4, <2>1
  <1>6. ~ (TextTokens(section, text) > TargetMax)
    BY <1>4, <1>5, TargetsAssumption
  <1>7. section[b] = <<>> \/ 1 <= Len(section[b])
    BY <1>1, EmptySeq
  <1>8. SoundPart(section, text)
    BY <1>0, <1>1, <1>2, <1>6, <1>7 DEF SoundPart
  <1>9. Begins(text, a, 1) /\ Follows(section, text, b + 1, 1)
    BY <1>2 DEF Begins, Follows
  <1> QED
    BY <1>2, <1>8, <1>9 DEF text

Gathering == [parts : Seq(Text), from : Nat \ {0}]

LEMMA TakeSentenceType ==
  ASSUME NEW section \in Section, NEW l \in 1..Len(section), NEW acc \in Gathering,
         NEW i \in 1..Len(section[l])
  PROVE  TakeSentence(section, l, acc, i) \in Gathering
  <1>1. CASE Overflows(section[l], acc.from, i)
    <2>1. acc.from \in Nat \ {0} /\ i \in Nat \ {0} /\ acc.from < i /\ l \in Nat \ {0}
      BY <1>1, MeasuredDef DEF Overflows, Gathering
    <2>2. i - 1 \in Nat
      BY <2>1
    <2>3. Sentences(l, acc.from, i - 1) \in Text
      BY <2>1, <2>2 DEF Sentences, Text, Position
    <2>4. acc.parts \in Seq(Text)
      BY DEF Gathering
    <2>5. Append(acc.parts, Sentences(l, acc.from, i - 1)) \in Seq(Text)
      BY <2>3, <2>4, AppendProperties
    <2> QED
      BY <1>1, <2>1, <2>5 DEF TakeSentence, Gathering
  <1>2. CASE ~ Overflows(section[l], acc.from, i)
    BY <1>2 DEF TakeSentence
  <1> QED
    BY <1>1, <1>2

LEMMA SplitUpToDef ==
  ASSUME NEW section \in Section, NEW l \in 1..Len(section)
  PROVE  /\ SplitUpTo(section, l)[0] = NothingGathered
         /\ \A i \in 0..Len(section[l]) : SplitUpTo(section, l)[i] \in Gathering
         /\ \A i \in 1..Len(section[l]) :
              SplitUpTo(section, l)[i] = TakeSentence(section, l, SplitUpTo(section, l)[i - 1], i)
  <1> DEFINE n == Len(section[l])
             step == [x \in Gathering \X (1..n) |-> TakeSentence(section, l, x[1], x[2])]
  <1>1. n \in Nat
    BY MeasuredDef
  <1>2. NothingGathered \in Gathering
    BY DEF NothingGathered, Gathering
  <1>3. step \in [Gathering \X (1..n) -> Gathering]
    <2>1. ASSUME NEW x \in Gathering \X (1..n)
          PROVE  TakeSentence(section, l, x[1], x[2]) \in Gathering
      <3>1. x[1] \in Gathering /\ x[2] \in 1..n
        OBVIOUS
      <3> QED
        BY <3>1, TakeSentenceType
    <2> QED
      BY <2>1
  <1>4. PICK f : LoopRun(n, Gathering, NothingGathered, step, f)
    <2> HIDE DEF step, n
    <2> QED BY <1>1, <1>2, <1>3, LoopExists
  <1>5. ASSUME NEW i \in 1..n
        PROVE  /\ f[i - 1] \in Gathering
               /\ f[i] = TakeSentence(section, l, f[i - 1], i)
    <2>1. i - 1 \in 0..n
      BY <1>1
    <2>2. <<f[i - 1], i>> \in Gathering \X (1..n)
      BY <1>4, <2>1 DEF LoopRun
    <2> QED
      BY <1>4, <2>2 DEF LoopRun
  <1>6. f = [i \in 0..n |-> IF i = 0 THEN NothingGathered
                            ELSE TakeSentence(section, l, f[i - 1], i)]
    BY <1>4, <1>5 DEF LoopRun
  <1>7. SplitUpTo(section, l) =
          CHOOSE g : g = [i \in 0..n |-> IF i = 0 THEN NothingGathered
                                         ELSE TakeSentence(section, l, g[i - 1], i)]
    BY DEF SplitUpTo
  <1> DEFINE r == SplitUpTo(section, l)
  <1>8. r = [i \in 0..n |-> IF i = 0 THEN NothingGathered
                            ELSE TakeSentence(section, l, r[i - 1], i)]
    BY <1>6, <1>7
  <1> HIDE DEF r, n
  <1>9. /\ r[0] = NothingGathered
        /\ \A i \in 1..n : r[i] = TakeSentence(section, l, r[i - 1], i)
    BY <1>1, <1>8
  <1> DEFINE S == {i \in 0..n : r[i] \in Gathering}
  <1>10. 0 \in S /\ \A i \in 1..n : i - 1 \in S => i \in S
    BY <1>1, <1>2, <1>9, TakeSentenceType DEF n
  <1>11. 0..n \subseteq S
    <2> HIDE DEF S
    <2> QED BY <1>1, <1>10, UpToInduction
  <1> QED
    BY <1>9, <1>11 DEF r, n

\* After i sentences of line l: the parts hold the line up to what is gathered, and
\* that is one sentence or fits.
SentencesLaid(section, l, acc, i) ==
  /\ acc.from >= 1 /\ (acc.from <= i \/ acc.from = 1)
  /\ Laid(section, acc.parts, l, 1, l, acc.from)
  /\ acc.from < i => Tokens(section[l], acc.from, i) <= TargetMax

LEMMA SentencesLaidStep ==
  ASSUME NEW section \in Section, NEW l \in 1..Len(section), Oversized(section[l]),
         NEW i \in 1..Len(section[l]), NEW acc \in Gathering,
         SentencesLaid(section, l, acc, i - 1)
  PROVE  SentencesLaid(section, l, TakeSentence(section, l, acc, i), i)
  <1>1. /\ acc.from \in Nat \ {0} /\ i \in Nat \ {0} /\ i - 1 \in Nat
        /\ acc.from <= i /\ Len(section[l]) \in Nat /\ section[l] \in Seq(Sentence)
        /\ acc.parts \in Seq(Text)
    <2>1. section[l] \in Seq(Sentence)
      BY MeasuredDef
    <2> QED
      BY <2>1 DEF Gathering, SentencesLaid
  <1>2. Tokens(section[l], acc.from, i) \in Nat
    <2>1. i \in 0..Len(section[l])
      OBVIOUS
    <2> QED
      BY <1>1, <2>1, SentencesCount, CountsSplit
  <1>3. CASE Overflows(section[l], acc.from, i)
    <2> DEFINE text == Sentences(l, acc.from, i - 1)
    <2>1. /\ acc.from \in 1..Len(section[l]) /\ i - 1 \in acc.from..Len(section[l])
      BY <1>1, <1>3 DEF Overflows
    <2>2. Tokens(section[l], acc.from, i - 1) > TargetMax => acc.from = i - 1
      <3>1. acc.from # i - 1 => acc.from < i - 1
        BY <2>1
      <3>2. Tokens(section[l], acc.from, i - 1) \in Nat
        <4>1. i - 1 \in 0..Len(section[l])
          BY <1>1
        <4> QED
          BY <1>1, <4>1, SentencesCount, CountsSplit
      <3>3. acc.from < i - 1 => Tokens(section[l], acc.from, i - 1) <= TargetMax
        BY DEF SentencesLaid
      <3> QED
        BY <3>1, <3>2, <3>3, TargetsAssumption
    <2>3. text \in Text /\ SoundPart(section, text)
      BY <2>1, <2>2, SentencesAreSound
    <2>4. text.first = l /\ text.from = acc.from /\ text.last = l /\ text.to = i - 1
      BY DEF Sentences
    <2>5. Follows(section, text, l, i)
      <3>1. i = (i - 1) + 1
        BY <1>1
      <3> QED
        BY <2>4, <3>1 DEF Follows
    <2> HIDE DEF text
    <2>6. Laid(section, Append(acc.parts, text), l, 1, l, i)
      <3>1. Laid(section, acc.parts, l, 1, text.first, text.from)
        BY <2>4 DEF SentencesLaid
      <3> QED
        BY <1>1, <2>3, <2>5, <3>1, LaidAppend
    <2>7. TakeSentence(section, l, acc, i) = [parts |-> Append(acc.parts, text), from |-> i]
      BY <1>3 DEF TakeSentence, text
    <2> QED
      BY <1>1, <2>6, <2>7 DEF SentencesLaid
  <1>4. CASE ~ Overflows(section[l], acc.from, i)
    <2>1. TakeSentence(section, l, acc, i) = acc
      BY <1>4 DEF TakeSentence
    <2>2. acc.from < i => Tokens(section[l], acc.from, i) <= TargetMax
      BY <1>2, <1>4, TargetsAssumption DEF Overflows
    <2> QED
      BY <1>1, <2>1, <2>2 DEF SentencesLaid
  <1> QED
    BY <1>3, <1>4

\* A line that does not fit is laid out in parts of whole sentences.
LEMMA LineIsSplit ==
  ASSUME NEW section \in Section, NEW l \in 1..Len(section), Oversized(section[l])
  PROVE  /\ SplitOversizedLine(section, l) \in Seq(Text)
         /\ Laid(section, SplitOversizedLine(section, l), l, 1, l + 1, 1)
  <1> DEFINE n == Len(section[l])
             r == SplitUpTo(section, l)
  <1>1. /\ r[0] = NothingGathered
        /\ \A i \in 0..n : r[i] \in Gathering
        /\ \A i \in 1..n : r[i] = TakeSentence(section, l, r[i - 1], i)
    BY SplitUpToDef
  <1>2. section[l] \in Seq(Sentence) /\ n \in Nat \ {0} /\ l \in Nat \ {0}
    <2>1. section[l] \in Seq(Sentence) /\ l \in Nat \ {0}
      BY MeasuredDef
    <2>2. n \in Nat
      BY <2>1
    <2>3. n # 0
      <3>1. ASSUME n = 0 PROVE FALSE
        <4>1. Tokens(section[l], 1, n) = 0
          <5>1. 1 > n
            BY <3>1
          <5> QED
            BY <5>1 DEF Tokens
        <4>2. Tokens(section[l], 1, n) > TargetMax
          BY DEF Oversized, AllTokens
        <4> HIDE DEF n
        <4> QED
          BY <4>1, <4>2, TargetsAssumption
      <3> QED
        BY <3>1
    <2> QED
      BY <2>1, <2>2, <2>3
  <1> DEFINE S == {i \in 0..n : SentencesLaid(section, l, r[i], i)}
  <1>3. 0 \in S
    <2>1. Laid(section, <<>>, l, 1, l, 1)
      BY DEF Laid
    <2>2. SentencesLaid(section, l, NothingGathered, 0)
      BY <2>1 DEF SentencesLaid, NothingGathered
    <2> QED
      BY <1>1, <1>2, <2>2
  <1>4. ASSUME NEW i \in 1..n, i - 1 \in S PROVE i \in S
    <2>1. r[i - 1] \in Gathering /\ SentencesLaid(section, l, r[i - 1], i - 1)
      BY <1>1, <1>4
    <2>2. SentencesLaid(section, l, TakeSentence(section, l, r[i - 1], i), i)
      BY <2>1, SentencesLaidStep
    <2> QED
      BY <1>1, <1>2, <2>2
  <1>5. 0..n \subseteq S
    <2> HIDE DEF S, n
    <2> QED BY <1>2, <1>3, <1>4, UpToInduction
  <1> DEFINE last == r[n]
             text == Sentences(l, last.from, n)
  <1>6. last \in Gathering /\ SentencesLaid(section, l, last, n)
    <2>1. n \in 0..n
      BY <1>2
    <2> QED
      BY <1>1, <1>5, <2>1
  <1>7. SplitOversizedLine(section, l) = Append(last.parts, text)
    BY DEF SplitOversizedLine
  <1> HIDE DEF r, last
  <1>8. last.from \in 1..n /\ n \in last.from..n /\ last.parts \in Seq(Text)
    BY <1>2, <1>6 DEF SentencesLaid, Gathering
  <1>9. Tokens(section[l], last.from, n) > TargetMax => last.from = n
    <2>1. last.from # n => last.from < n
      BY <1>8
    <2>2. last.from < n => Tokens(section[l], last.from, n) <= TargetMax
      BY <1>6 DEF SentencesLaid
    <2>3. Tokens(section[l], last.from, n) \in Nat
      <3>1. last.from \in Nat \ {0} /\ n \in 0..Len(section[l])
        BY <1>8, <1>2
      <3> QED
        BY <1>2, <3>1, SentencesCount, CountsSplit
    <2> HIDE DEF n
    <2> QED
      BY <2>1, <2>2, <2>3, TargetsAssumption
  <1>10. text \in Text /\ SoundPart(section, text)
    BY <1>8, <1>9, SentencesAreSound
  <1>11. text.first = l /\ text.from = last.from /\ text.last = l /\ text.to = n
    BY DEF Sentences
  <1>12. Follows(section, text, l + 1, 1)
    BY <1>11 DEF Follows
  <1> HIDE DEF text
  <1>13. Laid(section, last.parts, l, 1, text.first, text.from)
    BY <1>6, <1>11 DEF SentencesLaid
  <1>14. Laid(section, Append(last.parts, text), l, 1, l + 1, 1)
    BY <1>8, <1>10, <1>12, <1>13, LaidAppend
  <1>15. Append(last.parts, text) \in Seq(Text)
    BY <1>8, <1>10, AppendProperties
  <1> QED
    BY <1>7, <1>14, <1>15

LEMMA CloseType ==
  ASSUME NEW section \in Section, NEW acc \in Gathering, NEW last \in 0..Len(section)
  PROVE  Close(section, acc, last) \in Seq(Text)
  <1>1. acc.from \in Nat \ {0} /\ acc.parts \in Seq(Text) /\ Len(section) \in Nat
    BY MeasuredDef DEF Gathering
  <1>2. CASE acc.from > last
    BY <1>1, <1>2 DEF Close
  <1>3. CASE ~ (acc.from > last)
    <2>1. last \in 1..Len(section)
      BY <1>1, <1>3
    <2>2. Len(section[last]) \in Nat
      BY <2>1, MeasuredDef
    <2>3. Lines(section, acc.from, last) \in Text
      BY <1>1, <2>1, <2>2 DEF Lines, Text, Position
    <2>4. Append(acc.parts, Lines(section, acc.from, last)) \in Seq(Text)
      BY <1>1, <2>3, AppendProperties
    <2> QED
      BY <1>3, <2>4 DEF Close
  <1> QED
    BY <1>2, <1>3

LEMMA TakeStatuteLineType ==
  ASSUME NEW section \in Section, NEW acc \in Gathering, NEW l \in 1..Len(section)
  PROVE  TakeStatuteLine(section, acc, l) \in Gathering
  <1>1. l \in Nat \ {0} /\ l - 1 \in 0..Len(section) /\ l + 1 \in Nat \ {0}
    BY MeasuredDef
  <1>2. Close(section, acc, l - 1) \in Seq(Text)
    BY <1>1, CloseType
  <1>3. CASE Oversized(section[l])
    <2>1. SplitOversizedLine(section, l) \in Seq(Text)
      BY <1>3, LineIsSplit
    <2>2. Close(section, acc, l - 1) \o SplitOversizedLine(section, l) \in Seq(Text)
      BY <1>2, <2>1, ConcatProperties
    <2> QED
      BY <1>1, <1>3, <2>2 DEF TakeStatuteLine, TakeOversizedLine, Gathering
  <1>4. CASE ~ Oversized(section[l])
    BY <1>1, <1>2, <1>4 DEF TakeStatuteLine, Gathering
  <1> QED
    BY <1>3, <1>4

LEMMA GatheredUpToDef ==
  ASSUME NEW section \in Section
  PROVE  /\ GatheredUpTo(section)[0] = NothingGathered
         /\ \A l \in 0..Len(section) : GatheredUpTo(section)[l] \in Gathering
         /\ \A l \in 1..Len(section) :
              GatheredUpTo(section)[l] = TakeStatuteLine(section, GatheredUpTo(section)[l - 1], l)
  <1> DEFINE n == Len(section)
             step == [x \in Gathering \X (1..n) |-> TakeStatuteLine(section, x[1], x[2])]
  <1>1. n \in Nat
    BY MeasuredDef
  <1>2. NothingGathered \in Gathering
    BY DEF NothingGathered, Gathering
  <1>3. step \in [Gathering \X (1..n) -> Gathering]
    <2>1. ASSUME NEW x \in Gathering \X (1..n)
          PROVE  TakeStatuteLine(section, x[1], x[2]) \in Gathering
      <3>1. x[1] \in Gathering /\ x[2] \in 1..n
        OBVIOUS
      <3> QED
        BY <3>1, TakeStatuteLineType
    <2> QED
      BY <2>1
  <1>4. PICK f : LoopRun(n, Gathering, NothingGathered, step, f)
    <2> HIDE DEF step, n
    <2> QED BY <1>1, <1>2, <1>3, LoopExists
  <1>5. ASSUME NEW l \in 1..n
        PROVE  /\ f[l - 1] \in Gathering
               /\ f[l] = TakeStatuteLine(section, f[l - 1], l)
    <2>1. l - 1 \in 0..n
      BY <1>1
    <2>2. <<f[l - 1], l>> \in Gathering \X (1..n)
      BY <1>4, <2>1 DEF LoopRun
    <2> QED
      BY <1>4, <2>2 DEF LoopRun
  <1>6. f = [l \in 0..n |-> IF l = 0 THEN NothingGathered
                            ELSE TakeStatuteLine(section, f[l - 1], l)]
    BY <1>4, <1>5 DEF LoopRun
  <1>7. GatheredUpTo(section) =
          CHOOSE g : g = [l \in 0..n |-> IF l = 0 THEN NothingGathered
                                         ELSE TakeStatuteLine(section, g[l - 1], l)]
    BY DEF GatheredUpTo
  <1> DEFINE r == GatheredUpTo(section)
  <1>8. r = [l \in 0..n |-> IF l = 0 THEN NothingGathered
                            ELSE TakeStatuteLine(section, r[l - 1], l)]
    BY <1>6, <1>7
  <1> HIDE DEF r, n
  <1>9. /\ r[0] = NothingGathered
        /\ \A l \in 1..n : r[l] = TakeStatuteLine(section, r[l - 1], l)
    BY <1>1, <1>8
  <1> DEFINE S == {l \in 0..n : r[l] \in Gathering}
  <1>10. 0 \in S /\ \A l \in 1..n : l - 1 \in S => l \in S
    BY <1>1, <1>2, <1>9, TakeStatuteLineType DEF n
  <1>11. 0..n \subseteq S
    <2> HIDE DEF S
    <2> QED BY <1>1, <1>10, UpToInduction
  <1> QED
    BY <1>9, <1>11 DEF r, n

\* After l lines of a section: the parts hold it up to what is gathered, and that fits.
LinesLaid(section, acc, l) ==
  /\ acc.from \in 1..(l + 1)
  /\ Laid(section, acc.parts, 1, 1, acc.from, 1)
  /\ Tokens(Measured(section), acc.from, l) <= TargetMax

LEMMA Closed ==
  ASSUME NEW section \in Section, NEW acc \in Gathering, NEW l \in 0..Len(section),
         LinesLaid(section, acc, l)
  PROVE  Laid(section, Close(section, acc, l), 1, 1, l + 1, 1)
  <1>1. acc.from \in 1..(l + 1) /\ acc.parts \in Seq(Text) /\ Len(section) \in Nat
        /\ Tokens(Measured(section), acc.from, l) <= TargetMax
        /\ Laid(section, acc.parts, 1, 1, acc.from, 1)
    BY MeasuredDef DEF LinesLaid, Gathering
  <1>2. CASE acc.from > l
    <2>1. acc.from = l + 1
      BY <1>1, <1>2
    <2> QED
      BY <1>1, <1>2, <2>1 DEF Close
  <1>3. CASE ~ (acc.from > l)
    <2> DEFINE text == Lines(section, acc.from, l)
    <2>1. acc.from \in 1..Len(section) /\ l \in acc.from..Len(section)
      BY <1>1, <1>3
    <2>2. /\ text \in Text /\ SoundPart(section, text)
          /\ Begins(text, acc.from, 1) /\ Follows(section, text, l + 1, 1)
      BY <1>1, <2>1, LinesAreSound
    <2>3. Close(section, acc, l) = Append(acc.parts, text)
      BY <1>3 DEF Close
    <2> HIDE DEF text
    <2>4. Laid(section, acc.parts, 1, 1, text.first, text.from)
      BY <1>1, <2>2 DEF Begins
    <2>5. Laid(section, Append(acc.parts, text), 1, 1, l + 1, 1)
      BY <1>1, <2>2, <2>4, LaidAppend
    <2> QED
      BY <2>3, <2>5
  <1> QED
    BY <1>2, <1>3

LEMMA LinesLaidStep ==
  ASSUME NEW section \in Section, NEW acc \in Gathering, NEW l \in 1..Len(section),
         LinesLaid(section, acc, l - 1)
  PROVE  LinesLaid(section, TakeStatuteLine(section, acc, l), l)
  <1>1. /\ l \in Nat \ {0} /\ l - 1 \in 0..Len(section) /\ (l - 1) + 1 = l
        /\ acc.from \in 1..l /\ Len(section) \in Nat
    BY MeasuredDef DEF LinesLaid
  <1>2. /\ Close(section, acc, l - 1) \in Seq(Text)
        /\ Laid(section, Close(section, acc, l - 1), 1, 1, l, 1)
    BY <1>1, CloseType, Closed
  <1>3. /\ Measured(section) \in Seq(Sentence)
        /\ l \in 0..Len(Measured(section))
        /\ Measured(section)[l].tokens = AllTokens(section[l])
    BY MeasuredDef
  <1>4. CASE Oversized(section[l])
    <2> DEFINE P == Close(section, acc, l - 1)
               Q == SplitOversizedLine(section, l)
    <2>1. Q \in Seq(Text) /\ Laid(section, Q, l, 1, l + 1, 1)
      BY <1>4, LineIsSplit
    <2>2. Laid(section, P \o Q, 1, 1, l + 1, 1)
      <3> HIDE DEF P, Q
      <3>1. P \in Seq(Text) /\ Laid(section, P, 1, 1, l, 1)
        BY <1>2 DEF P
      <3> QED
        BY <2>1, <3>1, LaidConcat
    <2>3. Tokens(Measured(section), l + 1, l) <= TargetMax
      <3>1. l + 1 > l
        BY <1>1
      <3>2. Tokens(Measured(section), l + 1, l) = 0
        BY <3>1 DEF Tokens
      <3> QED
        BY <3>2, TargetsAssumption
    <2>4. TakeStatuteLine(section, acc, l) = [parts |-> P \o Q, from |-> l + 1]
      BY <1>4 DEF TakeStatuteLine, TakeOversizedLine
    <2> HIDE DEF P, Q
    <2>5. l + 1 \in 1..(l + 1)
      BY <1>1
    <2> QED
      BY <2>2, <2>3, <2>4, <2>5 DEF LinesLaid
  <1>5. CASE ~ Oversized(section[l])
    <2>1. Tokens(Measured(section), l, l) <= TargetMax
      <3>1. l <= l /\ l > l - 1 /\ l - 1 \in 0..Len(Measured(section))
        BY <1>1, <1>3, MeasuredDef
      <3>2. /\ Tokens(Measured(section), l, l)
                 = Tokens(Measured(section), l, l - 1) + Measured(section)[l].tokens
            /\ Measured(section)[l].tokens \in Nat
        BY <1>1, <1>3, <3>1, SentencesCount, CountsSplit
      <3>3. Tokens(Measured(section), l, l - 1) = 0
        BY <3>1 DEF Tokens
      <3>4. ~ (AllTokens(section[l]) > TargetMax)
        BY <1>5 DEF Oversized
      <3> QED
        BY <1>3, <3>2, <3>3, <3>4, TargetsAssumption
    <2>2. CASE Overflows(Measured(section), acc.from, l)
      <3>1. TakeStatuteLine(section, acc, l) = [parts |-> Close(section, acc, l - 1), from |-> l]
        BY <1>5, <2>2 DEF TakeStatuteLine
      <3>2. l \in 1..(l + 1)
        BY <1>1
      <3> QED
        BY <1>2, <2>1, <3>1, <3>2 DEF LinesLaid
    <2>3. CASE ~ Overflows(Measured(section), acc.from, l)
      <3>1. TakeStatuteLine(section, acc, l) = acc
        BY <1>5, <2>3 DEF TakeStatuteLine
      <3>2. Tokens(Measured(section), acc.from, l) <= TargetMax
        <4>1. CASE acc.from = l
          BY <2>1, <4>1
        <4>2. CASE acc.from # l
          <5>1. acc.from < l /\ acc.from \in Nat \ {0}
            BY <1>1, <4>2
          <5>2. Tokens(Measured(section), acc.from, l) \in Nat
            BY <1>3, <5>1, SentencesCount, CountsSplit
          <5> QED
            BY <2>3, <5>1, <5>2, TargetsAssumption DEF Overflows
        <4> QED
          BY <4>1, <4>2
      <3>3. acc.from \in 1..(l + 1)
        BY <1>1
      <3> QED
        BY <3>1, <3>2, <3>3 DEF LinesLaid
    <2> QED
      BY <2>2, <2>3
  <1> QED
    BY <1>4, <1>5

\* Every section is laid out in parts.
LEMMA SectionIsSplit ==
  ASSUME NEW section \in Section
  PROVE  /\ SplitSectionText(section) \in Seq(Text)
         /\ SplitSectionText(section) # <<>>
         /\ Laid(section, SplitSectionText(section), 1, 1, Len(section) + 1, 1)
  <1> DEFINE n == Len(section)
             r == GatheredUpTo(section)
  <1>1. n \in Nat \ {0}
    BY MeasuredDef
  <1>2. CASE AllTokens(Measured(section)) <= TargetMax
    <2> DEFINE text == Lines(section, 1, n)
    <2>1. Tokens(Measured(section), 1, n) <= TargetMax
      BY <1>2, MeasuredDef DEF AllTokens
    <2>2. /\ text \in Text /\ SoundPart(section, text)
          /\ Begins(text, 1, 1) /\ Follows(section, text, n + 1, 1)
      <3>1. 1 \in 1..Len(section) /\ n \in 1..Len(section)
        BY <1>1
      <3> QED
        BY <2>1, <3>1, LinesAreSound
    <2>3. SplitSectionText(section) = <<text>>
      BY <1>2 DEF SplitSectionText
    <2> HIDE DEF text, n
    <2>4. Laid(section, <<text>>, 1, 1, n + 1, 1)
      BY <2>2, LaidBy DEF Begins
    <2>5. <<text>> \in Seq(Text) /\ <<text>> # <<>>
      BY <2>2
    <2> QED
      BY <2>3, <2>4, <2>5 DEF n
  <1>3. CASE ~ (AllTokens(Measured(section)) <= TargetMax)
    <2>1. /\ r[0] = NothingGathered
          /\ \A l \in 0..n : r[l] \in Gathering
          /\ \A l \in 1..n : r[l] = TakeStatuteLine(section, r[l - 1], l)
      BY GatheredUpToDef
    <2> DEFINE S == {l \in 0..n : LinesLaid(section, r[l], l)}
    <2>2. 0 \in S
      <3>1. Laid(section, <<>>, 1, 1, 1, 1)
        BY DEF Laid
      <3>2. Tokens(Measured(section), 1, 0) = 0
        BY DEF Tokens
      <3>3. 1 \in 1..(0 + 1) /\ 0 <= TargetMax
        BY TargetsAssumption
      <3>4. LinesLaid(section, NothingGathered, 0)
        BY <3>1, <3>2, <3>3 DEF LinesLaid, NothingGathered
      <3> QED
        BY <1>1, <2>1, <3>4
    <2>3. ASSUME NEW l \in 1..n, l - 1 \in S PROVE l \in S
      <3>1. r[l - 1] \in Gathering /\ LinesLaid(section, r[l - 1], l - 1)
        BY <2>1, <2>3
      <3>2. LinesLaid(section, TakeStatuteLine(section, r[l - 1], l), l)
        BY <3>1, LinesLaidStep
      <3> QED
        BY <1>1, <2>1, <3>2
    <2>4. 0..n \subseteq S
      <3> HIDE DEF S, n
      <3> QED BY <1>1, <2>2, <2>3, UpToInduction
    <2>5. r[n] \in Gathering /\ LinesLaid(section, r[n], n)
      <3>1. n \in 0..n
        BY <1>1
      <3> QED
        BY <2>1, <2>4, <3>1
    <2>6. SplitSectionText(section) = Close(section, r[n], n)
      BY <1>3 DEF SplitSectionText
    <2> HIDE DEF r
    <2>7. /\ Close(section, r[n], n) \in Seq(Text)
          /\ Laid(section, Close(section, r[n], n), 1, 1, n + 1, 1)
      <3>1. n \in 0..Len(section)
        BY <1>1
      <3> QED
        BY <2>5, <3>1, CloseType, Closed
    <2>8. Close(section, r[n], n) # <<>>
      <3>1. n + 1 # 1
        BY <1>1
      <3> HIDE DEF n
      <3> QED
        BY <2>7, <3>1 DEF Laid
    <2> QED
      BY <2>6, <2>7, <2>8
  <1> QED
    BY <1>2, <1>3

LawChunk == [section : Nat, part : Nat, text : Text]

LEMMA PartsOfDef ==
  ASSUME NEW sections \in Seq(Section), NEW s \in 1..Len(sections)
  PROVE  /\ PartsOf(sections, s) \in Seq(LawChunk)
         /\ Len(PartsOf(sections, s)) = Len(SplitSectionText(sections[s]))
         /\ \A p \in 1..Len(SplitSectionText(sections[s])) :
              PartsOf(sections, s)[p] =
                [section |-> s, part |-> p - 1, text |-> SplitSectionText(sections[s])[p]]
  <1> DEFINE parts == SplitSectionText(sections[s])
             n == Len(parts)
             c == [p \in 1..n |-> [section |-> s, part |-> p - 1, text |-> parts[p]]]
  <1>1. sections[s] \in Section
    OBVIOUS
  <1>2. parts \in Seq(Text)
    BY <1>1, SectionIsSplit
  <1>3. PartsOf(sections, s) = c
    <2>1. DOMAIN parts = 1..n
      <3> HIDE DEF parts
      <3> QED BY <1>2
    <2> QED
      BY <2>1 DEF PartsOf
  <1> HIDE DEF parts
  <1>4. n \in Nat /\ \A p \in 1..n : parts[p] \in Text
    BY <1>2
  <1> HIDE DEF n
  <1>5. c \in [1..n -> LawChunk]
    <2>1. s \in Nat /\ \A p \in 1..n : p - 1 \in Nat
      BY <1>4
    <2> QED
      BY <1>4, <2>1 DEF LawChunk
  <1>6. c \in Seq(LawChunk) /\ Len(c) = n
    <2> HIDE DEF c
    <2>1. c \in Seq(LawChunk)
      BY <1>4, <1>5
    <2>2. DOMAIN c = 1..n
      BY <1>5
    <2> QED
      BY <1>4, <2>1, <2>2, LenProperties
  <1>7. \A p \in 1..n : c[p] = [section |-> s, part |-> p - 1, text |-> parts[p]]
    OBVIOUS
  <1> QED
    BY <1>3, <1>6, <1>7 DEF n, parts

LEMMA ChunkedUpToDef ==
  ASSUME NEW sections \in Seq(Section)
  PROVE  /\ ChunkedUpTo(sections)[0] = <<>>
         /\ \A s \in 0..Len(sections) : ChunkedUpTo(sections)[s] \in Seq(LawChunk)
         /\ \A s \in 1..Len(sections) :
              ChunkedUpTo(sections)[s] = ChunkedUpTo(sections)[s - 1] \o PartsOf(sections, s)
  <1> DEFINE n == Len(sections)
             A == Seq(LawChunk)
             step == [x \in A \X (1..n) |-> x[1] \o PartsOf(sections, x[2])]
  <1>1. n \in Nat
    OBVIOUS
  <1>2. <<>> \in A
    OBVIOUS
  <1>3. ASSUME NEW a \in A, NEW s \in 1..n PROVE a \o PartsOf(sections, s) \in A
    <2>1. PartsOf(sections, s) \in A
      BY PartsOfDef
    <2> QED
      BY <2>1, ConcatProperties
  <1> HIDE DEF A
  <1>4. step \in [A \X (1..n) -> A]
    <2>1. ASSUME NEW x \in A \X (1..n) PROVE x[1] \o PartsOf(sections, x[2]) \in A
      <3>1. x[1] \in A /\ x[2] \in 1..n
        OBVIOUS
      <3> QED
        BY <1>3, <3>1
    <2> QED
      BY <2>1
  <1>5. PICK f : LoopRun(n, A, <<>>, step, f)
    <2> HIDE DEF step, n
    <2> QED BY <1>1, <1>2, <1>4, LoopExists
  <1>6. ASSUME NEW s \in 1..n
        PROVE  f[s - 1] \in A /\ f[s] = f[s - 1] \o PartsOf(sections, s)
    <2>1. s - 1 \in 0..n
      BY <1>1
    <2>2. <<f[s - 1], s>> \in A \X (1..n)
      BY <1>5, <2>1 DEF LoopRun
    <2> QED
      BY <1>5, <2>2 DEF LoopRun
  <1>7. f = [s \in 0..n |-> IF s = 0 THEN <<>> ELSE f[s - 1] \o PartsOf(sections, s)]
    BY <1>5, <1>6 DEF LoopRun
  <1>8. ChunkedUpTo(sections) =
          CHOOSE g : g = [s \in 0..n |-> IF s = 0 THEN <<>>
                                         ELSE g[s - 1] \o PartsOf(sections, s)]
    BY DEF ChunkedUpTo
  <1> DEFINE r == ChunkedUpTo(sections)
  <1>9. r = [s \in 0..n |-> IF s = 0 THEN <<>> ELSE r[s - 1] \o PartsOf(sections, s)]
    BY <1>7, <1>8
  <1> HIDE DEF r, n
  <1>10. r[0] = <<>> /\ \A s \in 1..n : r[s] = r[s - 1] \o PartsOf(sections, s)
    <2>1. 0 \in 0..n
      BY <1>1
    <2>2. r[0] = <<>>
      BY <1>9, <2>1, Zenon
    <2>3. ASSUME NEW s \in 1..n PROVE r[s] = r[s - 1] \o PartsOf(sections, s)
      <3>1. s \in 0..n /\ s # 0
        BY <1>1
      <3> QED
        BY <1>9, <3>1, Zenon
    <2> QED
      BY <2>2, <2>3
  <1> DEFINE S == {s \in 0..n : r[s] \in A}
  <1>11. 0 \in S /\ \A s \in 1..n : s - 1 \in S => s \in S
    <2>1. 0 \in S
      <3>1. 0 \in 0..n
        BY <1>1
      <3> QED
        BY <1>2, <1>10, <3>1
    <2>2. ASSUME NEW s \in 1..n, s - 1 \in S PROVE s \in S
      <3>1. s \in 0..n
        BY <1>1
      <3>2. r[s - 1] \in A
        BY <2>2
      <3>3. r[s - 1] \o PartsOf(sections, s) \in A
        BY <1>3, <3>2
      <3>4. r[s] \in A
        BY <1>10, <3>3, Zenon
      <3> QED
        BY <3>1, <3>4
    <2> QED
      BY <2>1, <2>2
  <1>12. 0..n \subseteq S
    <2> HIDE DEF S
    <2> QED BY <1>1, <1>11, UpToInduction
  <1> QED
    BY <1>10, <1>12 DEF r, n, A

\* The chunks hold the first s sections.
Quoted(sections, chunks, s) ==
  /\ s = 0 => chunks = <<>>
  /\ s # 0 => /\ Len(chunks) > 0
              /\ chunks[1].section = 1 /\ chunks[1].part = 0 /\ Begins(chunks[1].text, 1, 1)
              /\ chunks[Len(chunks)].section = s
              /\ Follows(sections[s], chunks[Len(chunks)].text, Len(sections[s]) + 1, 1)
  /\ \A c \in 1..Len(chunks) :
       /\ chunks[c].section \in 1..Len(sections)
       /\ SoundPart(sections[chunks[c].section], chunks[c].text)
       /\ c > 1 => ContinuedBy(sections, chunks[c - 1], chunks[c])

LEMMA QuotedStep ==
  ASSUME NEW sections \in Seq(Section), NEW s \in 1..Len(sections),
         NEW before \in Seq(LawChunk), Quoted(sections, before, s - 1)
  PROVE  Quoted(sections, before \o PartsOf(sections, s), s)
  <1> DEFINE parts == SplitSectionText(sections[s])
             Q == PartsOf(sections, s)
             R == before \o Q
             m == Len(before)
             n == Len(Q)
  <1>1. /\ parts \in Seq(Text) /\ parts # <<>>
        /\ Laid(sections[s], parts, 1, 1, Len(sections[s]) + 1, 1)
    <2>1. sections[s] \in Section
      OBVIOUS
    <2> QED
      BY <2>1, SectionIsSplit
  <1>2. /\ Q \in Seq(LawChunk) /\ n = Len(parts)
        /\ \A p \in 1..n : Q[p] = [section |-> s, part |-> p - 1, text |-> parts[p]]
    BY PartsOfDef
  <1>3. m \in Nat /\ n \in Nat \ {0} /\ s \in Nat \ {0}
    <2>1. Len(parts) \in Nat /\ Len(parts) # 0
      <3> HIDE DEF parts
      <3> QED BY <1>1, EmptySeq
    <2> QED
      BY <1>2, <2>1
  <1> HIDE DEF parts, Q
  <1>4. /\ Len(R) = m + n
        /\ \A i \in 1..m : R[i] = before[i]
        /\ \A i \in 1..n : R[m + i] = Q[i]
    <2>1. /\ Len(R) = Len(before) + Len(Q)
          /\ \A i \in 1..(Len(before) + Len(Q)) :
               R[i] = IF i <= Len(before) THEN before[i] ELSE Q[i - Len(before)]
      <3>1. Q \in Seq(LawChunk)
        BY <1>2
      <3> QED
        BY <3>1, ConcatProperties
    <2>2. ASSUME NEW i \in 1..m PROVE R[i] = before[i]
      BY <1>3, <2>1
    <2>3. ASSUME NEW i \in 1..n PROVE R[m + i] = Q[i]
      <3>1. m + i \in 1..(m + n) /\ ~ (m + i <= m) /\ (m + i) - m = i
        BY <1>3
      <3> QED
        BY <2>1, <3>1
    <2> QED
      BY <2>1, <2>2, <2>3
  <1> HIDE DEF R, m, n
  <1>5. ASSUME NEW i \in 1..(m + n) PROVE i \in 1..m \/ \E j \in 1..n : i = m + j
    <2>1. CASE i <= m
      BY <1>3, <2>1
    <2>2. CASE i > m
      <3>1. i - m \in 1..n /\ i = m + (i - m)
        BY <1>3, <2>2
      <3> QED
        BY <3>1
    <2> QED
      BY <1>3, <2>1, <2>2
  <1>6. ASSUME NEW j \in 1..n
        PROVE  /\ R[m + j].section = s /\ R[m + j].part = j - 1 /\ R[m + j].text = parts[j]
               /\ SoundPart(sections[s], parts[j])
               /\ j > 1 => Follows(sections[s], parts[j - 1], parts[j].first, parts[j].from)
    <2>1. R[m + j] = [section |-> s, part |-> j - 1, text |-> parts[j]]
      BY <1>2, <1>4, Zenon
    <2>2. j \in 1..Len(parts)
      BY <1>2, Zenon
    <2>3. /\ SoundPart(sections[s], parts[j])
          /\ j > 1 => Follows(sections[s], parts[j - 1], parts[j].first, parts[j].from)
      BY <1>1, <2>2, Zenon DEF Laid
    <2> QED
      BY <2>1, <2>3
  <1>7. Begins(parts[1], 1, 1) /\ Follows(sections[s], parts[n], Len(sections[s]) + 1, 1)
    BY <1>1, <1>2 DEF Laid
  <1>8. /\ R[m + n].section = s
        /\ Follows(sections[s], R[m + n].text, Len(sections[s]) + 1, 1)
    <2>1. n \in 1..n
      BY <1>3
    <2> QED
      BY <1>6, <1>7, <2>1
  \* What was there is not empty but for the first section.
  <1>9. s = 1 => m = 0
    <2>1. s = 1 => s - 1 = 0
      OBVIOUS
    <2>2. s = 1 => before = <<>>
      BY <2>1 DEF Quoted
    <2> QED
      BY <2>2 DEF m
  <1>10. s # 1 => /\ m > 0
                  /\ before[1].section = 1 /\ before[1].part = 0
                  /\ Begins(before[1].text, 1, 1)
                  /\ before[m].section = s - 1
                  /\ Follows(sections[s - 1], before[m].text, Len(sections[s - 1]) + 1, 1)
    <2>1. s # 1 => s - 1 # 0
      BY <1>3
    <2> QED
      BY <2>1 DEF Quoted, m
  <1>11. /\ R[1].section = 1 /\ R[1].part = 0 /\ Begins(R[1].text, 1, 1)
    <2>1. CASE s = 1
      <3>1. m + 1 = 1 /\ 1 \in 1..n
        BY <1>3, <1>9, <2>1
      <3> QED
        BY <1>6, <1>7, <2>1, <3>1
    <2>2. CASE s # 1
      <3>1. 1 \in 1..m
        BY <1>3, <1>10, <2>2
      <3> QED
        BY <1>4, <1>10, <2>2, <3>1
    <2> QED
      BY <2>1, <2>2
  <1>12. ASSUME NEW i \in 1..m
         PROVE  /\ R[i].section \in 1..Len(sections)
                /\ SoundPart(sections[R[i].section], R[i].text)
                /\ i > 1 => ContinuedBy(sections, R[i - 1], R[i])
    <2>1. /\ before[i].section \in 1..Len(sections)
          /\ SoundPart(sections[before[i].section], before[i].text)
          /\ i > 1 => ContinuedBy(sections, before[i - 1], before[i])
      BY DEF Quoted, m
    <2>2. i > 1 => i - 1 \in 1..m
      BY <1>3
    <2>3. R[i] = before[i] /\ (i > 1 => R[i - 1] = before[i - 1])
      BY <1>4, <2>2
    <2> QED
      BY <2>1, <2>3
  <1>13. ASSUME NEW j \in 1..n
         PROVE  m + j > 1 => ContinuedBy(sections, R[(m + j) - 1], R[m + j])
    <2>1. CASE j > 1
      <3>1. j - 1 \in 1..n /\ (m + j) - 1 = m + (j - 1) /\ j - 1 = (j - 1 - 1) + 1
        BY <1>3, <2>1
      <3>2. /\ R[m + (j - 1)].section = s /\ R[m + (j - 1)].part = j - 1 - 1
            /\ R[m + (j - 1)].text = parts[j - 1]
        BY <1>6, <3>1
      <3>3. /\ R[m + j].section = s /\ R[m + j].part = j - 1 /\ R[m + j].text = parts[j]
            /\ Follows(sections[s], parts[j - 1], parts[j].first, parts[j].from)
        BY <1>6, <2>1
      <3> QED
        BY <3>1, <3>2, <3>3 DEF ContinuedBy
    <2>2. CASE j = 1 /\ s = 1
      <3>1. ~ (m + j > 1)
        BY <1>9, <2>2
      <3> QED
        BY <3>1
    <2>3. CASE j = 1 /\ s # 1
      <3>1. (m + j) - 1 = m /\ m \in 1..m /\ s = (s - 1) + 1 /\ j \in 1..n
        BY <1>3, <1>10, <2>3
      <3>2. R[m] = before[m]
        BY <1>4, <3>1
      <3>3. R[m + j].section = s /\ R[m + j].part = 0 /\ R[m + j].text = parts[1]
        BY <1>6, <2>3
      <3> QED
        BY <1>7, <1>10, <2>3, <3>1, <3>2, <3>3 DEF ContinuedBy
    <2> QED
      BY <1>3, <2>1, <2>2, <2>3
  <1>14. ASSUME NEW i \in 1..(m + n)
         PROVE  /\ R[i].section \in 1..Len(sections)
                /\ SoundPart(sections[R[i].section], R[i].text)
                /\ i > 1 => ContinuedBy(sections, R[i - 1], R[i])
    <2>1. CASE i \in 1..m
      BY <1>12, <2>1
    <2>2. ASSUME NEW j \in 1..n, i = m + j
          PROVE  /\ R[i].section \in 1..Len(sections)
                 /\ SoundPart(sections[R[i].section], R[i].text)
                 /\ i > 1 => ContinuedBy(sections, R[i - 1], R[i])
      BY <1>6, <1>13, <2>2
    <2> QED
      BY <1>5, <2>1, <2>2
  <1>15. m + n > 0 /\ s # 0
    BY <1>3
  <1>16. Quoted(sections, R, s)
    BY <1>4, <1>8, <1>11, <1>14, <1>15 DEF Quoted
  <1> QED
    BY <1>16 DEF R, Q

LEMMA EverySectionIsQuoted ==
  ASSUME NEW sections \in Seq(Section)
  PROVE  QuotesEachSectionWhole(sections)
  <1> DEFINE n == Len(sections)
             r == ChunkedUpTo(sections)
             S == {s \in 0..n : Quoted(sections, r[s], s)}
  <1>1. /\ r[0] = <<>>
        /\ \A s \in 0..n : r[s] \in Seq(LawChunk)
        /\ \A s \in 1..n : r[s] = r[s - 1] \o PartsOf(sections, s)
    BY ChunkedUpToDef
  <1>2. n \in Nat
    OBVIOUS
  <1>3. 0 \in S
    <2>1. Quoted(sections, <<>>, 0)
      BY DEF Quoted
    <2> QED
      BY <1>1, <1>2, <2>1
  <1>4. ASSUME NEW s \in 1..n, s - 1 \in S PROVE s \in S
    <2>1. r[s - 1] \in Seq(LawChunk) /\ Quoted(sections, r[s - 1], s - 1)
      BY <1>1, <1>4
    <2>2. Quoted(sections, r[s - 1] \o PartsOf(sections, s), s)
      BY <2>1, QuotedStep
    <2>3. r[s] = r[s - 1] \o PartsOf(sections, s)
      BY <1>1
    <2>4. Quoted(sections, r[s], s)
      BY <2>2, <2>3, Zenon
    <2>5. s \in 0..n
      BY <1>2
    <2> HIDE DEF r, n
    <2> QED
      BY <2>4, <2>5
  <1>5. 0..n \subseteq S
    <2> HIDE DEF S, n
    <2> QED BY <1>2, <1>3, <1>4, UpToInduction
  <1>6. r[n] \in Seq(LawChunk) /\ Quoted(sections, r[n], n)
    <2>1. n \in 0..n
      BY <1>2
    <2> QED
      BY <1>1, <1>5, <2>1
  <1> DEFINE chunks == r[n]
  <1>7. ChunkSections(sections) = chunks
    BY DEF ChunkSections
  <1>8. DOMAIN sections = 1..n /\ (sections # <<>> => n # 0)
    <2>1. DOMAIN sections = 1..n
      OBVIOUS
    <2>2. sections # <<>> => n # 0
      BY EmptySeq
    <2> QED
      BY <2>1, <2>2
  <1> HIDE DEF r, S, n
  <1>9. DOMAIN chunks = 1..Len(chunks)
    BY <1>6
  <1> HIDE DEF chunks
  <1>10. Quoted(sections, chunks, n)
    BY <1>6 DEF chunks
  <1> QED
    BY <1>7, <1>8, <1>9, <1>10 DEF QuotesEachSectionWhole, Quoted, n

\* However a statute is laid out, its chunks hold every sentence of every section
\* once, in order and under that section's citation; a chunk passes the target only if
\* it is a single sentence, and divides a line only if the line alone does not fit
\* (chunk_sections).
THEOREM StatutesAreWhole ==
  /\ \A sections \in Seq(Section) : QuotesEachSectionWhole(sections)
  /\ StatutesAreQuotedWhole
<1>1. Statutes \subseteq Seq(Section)
  BY InputsAssumption
<1> QED
  BY <1>1, EverySectionIsQuoted DEF StatutesAreQuotedWhole

-----------------------------------------------------------------------------
(* Listings. *)

LEMMA Division ==
  ASSUME NEW a \in Nat, NEW d \in Nat \ {0}
  PROVE  /\ a \div d \in Nat
         /\ (a \div d) * d <= a
         /\ a < (a \div d) * d + d
OBVIOUS

LEMMA NextMultiple ==
  ASSUME NEW a \in Nat, NEW b \in Nat, NEW d \in Nat, a < b
  PROVE  a * d + d <= b * d
<1> DEFINE c == b - (a + 1)
<1>1. c \in Nat /\ b = c + (a + 1)
  OBVIOUS
<1> HIDE DEF c
<1>2. b * d = c * d + (a * d + d)
  BY <1>1
<1>3. c * d \in Nat /\ a * d \in Nat
  BY <1>1
<1> QED
  BY <1>2, <1>3

\* The k-th row is the r-th of page q, and nowhere else.
OnPage(k, limit, q, r) ==
  /\ q * limit <= k - 1
  /\ \A p \in Nat, i \in 1..limit : p * limit + i = k <=> p = q /\ i = r

LEMMA OnePlace ==
  ASSUME NEW limit \in Nat \ {0}, NEW k \in Nat \ {0}
  PROVE  \E q \in Nat, r \in 1..limit : OnPage(k, limit, q, r)
<1> DEFINE q == (k - 1) \div limit
<1>1. q \in Nat /\ q * limit <= k - 1 /\ k - 1 < q * limit + limit
  BY Division
<1> HIDE DEF q
<1> DEFINE r == k - q * limit
<1>2. q * limit \in Nat /\ r \in 1..limit /\ q * limit + r = k
  BY <1>1
<1> HIDE DEF r
<1>3. ASSUME NEW p \in Nat, NEW i \in 1..limit, p * limit + i = k
      PROVE  p = q /\ i = r
  <2>1. p < q => p * limit + limit <= q * limit
    BY <1>1, NextMultiple
  <2>2. q < p => q * limit + limit <= p * limit
    BY <1>1, NextMultiple
  <2>3. p * limit \in Nat
    OBVIOUS
  <2>4. p = q
    BY <1>1, <1>2, <1>3, <2>1, <2>2, <2>3
  <2> QED
    BY <1>2, <1>3, <2>3, <2>4
<1>4. OnPage(k, limit, q, r)
  BY <1>1, <1>2, <1>3 DEF OnPage
<1> QED
  BY <1>1, <1>2, <1>4

\* A row comes before another or after it.
LEMMA OrderIsTotal ==
  ASSUME NEW library, IsLibrary(library), NEW d \in library, NEW e \in library, d # e,
         NEW column \in Columns, NEW order
  PROVE  Precedes(d, e, column, order) \/ Precedes(e, d, column, order)
<1>1. /\ Key(d, column) \in Nat /\ Key(e, column) \in Nat
      /\ d.document_id \in Nat /\ e.document_id \in Nat
      /\ d.document_id # e.document_id
  BY DEF IsLibrary
<1> QED
  BY <1>1 DEF Precedes

LEMMA SortedPermutes ==
  ASSUME NEW rows, IsFiniteSet(rows), NEW column, NEW order,
         NEW s \in Sorted(rows, column, order)
  PROVE  /\ s \in [1..Cardinality(rows) -> rows]
         /\ \A i, j \in 1..Cardinality(rows) : i # j => s[i] # s[j]
         /\ \A x \in rows : \E i \in 1..Cardinality(rows) : s[i] = x
<1> DEFINE n == Cardinality(rows)
<1>1. n \in Nat
  BY FS_CardinalityType
<1>2. s \in [1..n -> rows] /\ \A i, j \in 1..n : i < j => s[i] # s[j]
  BY DEF Sorted
<1> HIDE DEF n
<1>3. \A i, j \in 1..n : i # j => s[i] # s[j]
  BY <1>1, <1>2
<1>4. \A x \in rows : \E i \in 1..n : s[i] = x
  <2>1. s \in Injection(1..n, rows)
    BY <1>2, <1>3 DEF Injection, IsInjective
  <2>2. IsFiniteSet(1..n) /\ Cardinality(1..n) = n
    BY <1>1, FS_Interval
  <2>3. s \in Surjection(1..n, rows)
    BY <1>1, <2>1, <2>2, FS_Injection DEF n
  <2> QED
    BY <2>3 DEF Surjection
<1> QED
  BY <1>2, <1>3, <1>4 DEF n

\* A row comes before another or after it, so there is one way to sort them.
LEMMA SortedOnce ==
  ASSUME NEW library, IsLibrary(library), NEW rows, rows \subseteq library,
         NEW column \in Columns, NEW order,
         NEW s \in Sorted(rows, column, order), NEW t \in Sorted(rows, column, order)
  PROVE  s = t
<1> DEFINE n == Cardinality(rows)
<1>1. IsFiniteSet(rows) /\ n \in Nat
  BY FS_Subset, FS_CardinalityType DEF IsLibrary
<1>2. /\ s \in [1..n -> rows] /\ t \in [1..n -> rows]
      /\ \A i, j \in 1..n : i < j => ~Precedes(s[j], s[i], column, order)
      /\ \A i, j \in 1..n : i < j => ~Precedes(t[j], t[i], column, order)
  BY DEF Sorted
<1>3. \A i, j \in 1..n : i # j => s[i] # s[j] /\ t[i] # t[j]
  BY <1>1, SortedPermutes
<1>4. \A x \in rows : (\E i \in 1..n : s[i] = x) /\ (\E i \in 1..n : t[i] = x)
  BY <1>1, SortedPermutes
<1> HIDE DEF n
<1> DEFINE T == {i \in 1..n : s[i] # t[i]}
<1>5. ASSUME T # {} PROVE FALSE
  <2>1. PICK i \in T : \A j \in T : i <= j
    <3>1. T \subseteq Nat
      BY <1>1
    <3> HIDE DEF T
    <3> QED
      BY <1>5, <3>1, LeastNat
  <2>2. \A j \in 1..n : j < i => s[j] = t[j]
    BY <1>1, <2>1
  <2>3. PICK j \in 1..n : s[j] = t[i]
    BY <1>2, <1>4, <2>1
  <2>4. PICK k \in 1..n : t[k] = s[i]
    BY <1>2, <1>4, <2>1
  <2>5. i < j /\ i < k
    BY <1>1, <1>3, <2>1, <2>2, <2>3, <2>4
  <2>6. ~Precedes(t[i], s[i], column, order) /\ ~Precedes(s[i], t[i], column, order)
    BY <1>2, <2>1, <2>3, <2>4, <2>5
  <2>7. s[i] \in library /\ t[i] \in library /\ s[i] # t[i]
    BY <1>2, <2>1
  <2> QED
    BY <2>6, <2>7, OrderIsTotal
<1>6. \A i \in 1..n : s[i] = t[i]
  BY <1>5
<1> HIDE DEF T
<1>7. /\ DOMAIN s = 1..n /\ s = [i \in 1..n |-> s[i]]
      /\ DOMAIN t = 1..n /\ t = [i \in 1..n |-> t[i]]
  BY <1>2
<1>8. [i \in 1..n |-> s[i]] = [i \in 1..n |-> t[i]]
  BY <1>6
<1> QED
  BY <1>7, <1>8

\* A page shows the rows from its offset on.
ShowsFrom(page, s, n, limit, offset) ==
  \A i \in 1..limit : /\ i \in DOMAIN page <=> offset + i <= n
                      /\ offset + i <= n => page[i] = s[offset + i]

LEMMA CutShows ==
  ASSUME NEW S, NEW n \in Nat, NEW s \in [1..n -> S], NEW limit \in Nat \ {0},
         NEW offset \in Nat, offset < n
  PROVE  ShowsFrom(Cut(s, limit, offset), s, n, limit, offset)
<1> DEFINE m == IF offset + limit < Len(s) THEN offset + limit ELSE Len(s)
<1>1. s \in Seq(S) /\ Len(s) = n
  <2>1. s \in Seq(S)
    OBVIOUS
  <2> QED
    BY <2>1
<1>2. m \in Nat /\ m <= n /\ offset + 1 <= m /\ offset < m
  BY <1>1
<1>3. \A i \in 1..limit : i <= m - offset <=> offset + i <= n
  BY <1>1
<1> HIDE DEF m
<1>4. Cut(s, limit, offset) = SubSeq(s, offset + 1, m)
  BY DEF Cut, m
<1>5. /\ Len(SubSeq(s, offset + 1, m)) = m - offset
      /\ SubSeq(s, offset + 1, m) \in Seq(S)
      /\ \A i \in 1..(m - offset) : SubSeq(s, offset + 1, m)[i] = s[offset + i]
  <2>1. offset + 1 \in 1..(n + 1) /\ m \in offset..n
    BY <1>2
  <2>2. /\ SubSeq(s, offset + 1, m) \in Seq(S)
        /\ Len(SubSeq(s, offset + 1, m)) =
             IF offset + 1 <= m THEN m - (offset + 1) + 1 ELSE 0
        /\ \A i \in 1..(m - (offset + 1) + 1) :
             SubSeq(s, offset + 1, m)[i] = s[(offset + 1) + i - 1]
    BY <1>1, <1>2, SubSeqProperties
  <2>3. m - (offset + 1) + 1 = m - offset
    BY <1>2
  <2>4. \A i \in 1..(m - offset) : (offset + 1) + i - 1 = offset + i
    BY <1>2
  <2> QED
    BY <1>2, <2>2, <2>3, <2>4
<1>6. DOMAIN SubSeq(s, offset + 1, m) = 1..(m - offset)
  BY <1>5
<1>7. \A i \in 1..limit :
        /\ i \in DOMAIN Cut(s, limit, offset) <=> offset + i <= n
        /\ offset + i <= n => Cut(s, limit, offset)[i] = s[offset + i]
  <2> SUFFICES ASSUME NEW i \in 1..limit
               PROVE  /\ i \in DOMAIN Cut(s, limit, offset) <=> offset + i <= n
                      /\ offset + i <= n => Cut(s, limit, offset)[i] = s[offset + i]
    OBVIOUS
  <2>1. DOMAIN Cut(s, limit, offset) = 1..(m - offset)
    BY <1>4, <1>6, Zenon
  <2>2. \A j \in 1..(m - offset) : Cut(s, limit, offset)[j] = s[offset + j]
    BY <1>4, <1>5, Zenon
  <2>3. i \in 1..(m - offset) <=> i <= m - offset
    BY <1>2
  <2>4. i \in 1..(m - offset) <=> offset + i <= n
    BY <1>3, <2>3, Zenon
  <2> QED
    BY <2>1, <2>2, <2>4, Zenon
<1> QED
  BY <1>7 DEF ShowsFrom

\* Of a request: the pages of what matches are all cut from one sorted list.
LEMMA EveryPageShows ==
  ASSUME NEW library, IsLibrary(library), NEW filter, NEW column \in Columns, NEW order,
         NEW limit \in Nat \ {0}
  PROVE  PagesShowEachOnce(library, filter, column, order, limit)
<1> DEFINE rows == {d \in library : Matches(d, filter)}
           n == Cardinality(rows)
           last == (n - 1) \div limit
           pages == 0..last
           results == [p \in pages |->
                         ListDocuments(library, filter, column, order, limit, p * limit)]
<1> SUFFICES ASSUME NEW shown \in [pages -> UNION {results[p] : p \in pages}],
                    \A p \in pages : shown[p] \in results[p],
                    NEW d \in library
             PROVE  Cardinality({at \in pages \X (1..limit) :
                                  /\ at[2] \in DOMAIN shown[at[1]].items
                                  /\ shown[at[1]].items[at[2]] = d})
                    = IF d \in rows THEN 1 ELSE 0
  BY DEF PagesShowEachOnce
<1> DEFINE T == {at \in pages \X (1..limit) :
                   /\ at[2] \in DOMAIN shown[at[1]].items
                   /\ shown[at[1]].items[at[2]] = d}
<1>1. rows \subseteq library /\ IsFiniteSet(rows) /\ n \in Nat
  BY FS_Subset, FS_CardinalityType DEF IsLibrary
<1>2. \A p \in pages : \E s \in Sorted(rows, column, order) :
        shown[p].items = Cut(s, limit, p * limit)
  BY DEF ListDocuments
<1> HIDE DEF rows
<1>3. n = 0 => pages = {}
  <2>1. (0 - 1) \div limit < 0
    OBVIOUS
  <2> HIDE DEF n
  <2> QED
    BY <2>1
<1>4. n > 0 => /\ last \in Nat /\ 0 \in pages
               /\ last * limit <= n - 1 /\ n - 1 < last * limit + limit
  <2> HIDE DEF n
  <2>1. n > 0 => n - 1 \in Nat
    BY <1>1
  <2> QED
    BY <2>1, Division
<1> HIDE DEF n, last
<1>5. ASSUME NEW p \in pages PROVE p \in Nat /\ p * limit \in Nat /\ p * limit < n
  <2>1. n > 0 /\ p \in Nat /\ p <= last /\ last \in Nat
    BY <1>1, <1>3, <1>4, <1>5
  <2>2. p * limit \in Nat /\ last * limit \in Nat
    BY <2>1
  <2>3. p * limit <= last * limit
    <3>1. CASE p < last
      <4>1. p * limit + limit <= last * limit
        BY <2>1, <3>1, NextMultiple
      <4> QED
        BY <2>2, <4>1
    <3>2. CASE p = last
      BY <2>2, <3>2
    <3> QED
      BY <2>1, <3>1, <3>2
  <2> QED
    BY <1>1, <1>4, <2>1, <2>2, <2>3
<1>6. /\ \A at \in T : \E p \in pages, i \in 1..limit : at = <<p, i>>
      /\ \A p \in pages, i \in 1..limit :
           <<p, i>> \in T <=> i \in DOMAIN shown[p].items /\ shown[p].items[i] = d
  OBVIOUS
<1> HIDE DEF pages, results, T
<1>7. \A s \in Sorted(rows, column, order) :
        /\ s \in [1..n -> rows]
        /\ \A i, j \in 1..n : i # j => s[i] # s[j]
        /\ \A x \in rows : \E i \in 1..n : s[i] = x
  BY <1>1, SortedPermutes DEF n
<1>8. ASSUME NEW p \in pages, NEW i \in 1..limit, NEW s \in Sorted(rows, column, order),
             shown[p].items = Cut(s, limit, p * limit)
      PROVE  <<p, i>> \in T <=> p * limit + i <= n /\ s[p * limit + i] = d
  <2>1. n \in Nat /\ s \in [1..n -> rows]
    BY <1>1, <1>7
  <2>2. p * limit \in Nat /\ p * limit < n
    BY <1>5
  <2> DEFINE offset == p * limit
  <2> HIDE DEF offset
  <2>3. /\ i \in DOMAIN Cut(s, limit, offset) <=> offset + i <= n
        /\ offset + i <= n => Cut(s, limit, offset)[i] = s[offset + i]
    <3>1. offset \in Nat /\ offset < n
      BY <2>2 DEF offset
    <3>2. ShowsFrom(Cut(s, limit, offset), s, n, limit, offset)
      BY <2>1, <3>1, CutShows
    <3> QED
      BY <3>2 DEF ShowsFrom
  <2> QED
    BY <1>6, <1>8, <2>3 DEF offset
<1>9. CASE d \notin rows
  <2>1. ASSUME NEW at \in T PROVE FALSE
    <3>1. PICK p \in pages, i \in 1..limit : at = <<p, i>>
      BY <1>6
    <3>2. PICK s \in Sorted(rows, column, order) : shown[p].items = Cut(s, limit, p * limit)
      BY <1>2
    <3>3. p * limit + i <= n /\ d = s[p * limit + i]
      BY <1>8, <2>1, <3>1, <3>2
    <3>4. p * limit + i \in 1..n
      <4>1. p * limit \in Nat
        BY <1>5
      <4> QED
        BY <1>1, <3>3, <4>1
    <3> QED
      BY <1>7, <1>9, <3>3, <3>4
  <2>2. T = {}
    BY <2>1
  <2>3. Cardinality(T) = 0
    BY <2>2, FS_EmptySet
  <2> QED
    BY <1>9, <2>3 DEF T, pages
<1>10. CASE d \in rows
  <2>1. n > 0
    <3>1. n # 0
      BY <1>1, <1>10, FS_EmptySet DEF n
    <3> QED
      BY <1>1, <3>1
  <2>2. PICK s \in Sorted(rows, column, order) : TRUE
    BY <1>2, <1>4, <2>1 DEF pages
  <2>3. \A p \in pages : shown[p].items = Cut(s, limit, p * limit)
    BY <1>1, <1>2, <2>2, SortedOnce
  <2>4. PICK k \in 1..n : s[k] = d
    BY <1>7, <1>10
  <2>5. PICK q \in Nat, r \in 1..limit :
          /\ q * limit <= k - 1
          /\ \A p \in Nat, i \in 1..limit : p * limit + i = k <=> p = q /\ i = r
    <3>1. k \in Nat \ {0}
      BY <1>1
    <3>2. \E q \in Nat, r \in 1..limit : OnPage(k, limit, q, r)
      BY <3>1, OnePlace
    <3> QED
      BY <3>2 DEF OnPage
  <2>6. q \in pages
    <3>1. CASE last < q
      <4>1. last * limit + limit <= q * limit
        BY <1>4, <2>1, <3>1, NextMultiple
      <4>2. last * limit \in Nat /\ q * limit \in Nat
        BY <1>4, <2>1
      <4>3. q * limit <= n - 1
        BY <1>1, <2>5, <4>2
      <4> QED
        BY <1>1, <1>4, <2>1, <4>1, <4>2, <4>3
    <3> QED
      BY <1>4, <2>1, <2>5, <3>1 DEF pages
  <2>7. ASSUME NEW p \in pages, NEW i \in 1..limit
        PROVE  <<p, i>> \in T <=> p = q /\ i = r
    <3>1. <<p, i>> \in T <=> p * limit + i <= n /\ s[p * limit + i] = d
      BY <1>8, <2>3
    <3>2. p \in Nat /\ p * limit \in Nat
      BY <1>5
    <3> DEFINE m == p * limit + i
    <3>3. m \in Nat \ {0}
      BY <3>2
    <3> HIDE DEF m
    <3>4. m <= n /\ s[m] = d <=> m = k
      BY <1>1, <1>7, <2>4, <3>3
    <3>5. p * limit + i = k <=> p = q /\ i = r
      BY <2>5, <3>2
    <3> QED
      BY <3>1, <3>4, <3>5 DEF m
  <2>8. T = {<<q, r>>}
    <3>1. <<q, r>> \in T
      BY <2>6, <2>7
    <3>2. \A at \in T : at = <<q, r>>
      BY <1>6, <2>7
    <3> QED
      BY <3>1, <3>2
  <2>9. Cardinality(T) = 1
    BY <2>8, FS_Singleton
  <2> QED
    BY <1>10, <2>9 DEF T, pages
<1> QED
  BY <1>9, <1>10

\* A reader who asks for page after page is shown each matching document once,
\* however many of them tie and however often they are sorted anew, for every
\* library, filter, order and page size (list_documents, list_my_documents).
THEOREM PagesAreComplete ==
  /\ \A library, filter, order : \A column \in Columns, limit \in Nat \ {0} :
       IsLibrary(library) => PagesShowEachOnce(library, filter, column, order, limit)
  /\ PagesListTheLibrary
<1>1. \A library, filter, order : \A column \in Columns, limit \in Nat \ {0} :
        IsLibrary(library) => PagesShowEachOnce(library, filter, column, order, limit)
  BY EveryPageShows
<1>2. 1..MaxLimit \subseteq Nat \ {0}
  BY InputsAssumption
<1> QED
  BY <1>1, <1>2, InputsAssumption DEF PagesListTheLibrary
=============================================================================
