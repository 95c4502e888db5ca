------------------------- MODULE FundedIndexProofs -------------------------
(***************************************************************************)
(* Theorems about FundedIndex: for any hashes and buckets, any chunk size, *)
(* any configurations and any function mix of the Bloom filter.            *)
(***************************************************************************)
EXTENDS FundedIndex, FiniteSetTheorems, WellFoundedInduction, TLAPS

-----------------------------------------------------------------------------
\* Numbers and segments

\* A set of numbers has a least one.
LEMMA LeastOf ==
  ASSUME NEW S \in SUBSET Nat, S # {}
  PROVE  \E m \in S : \A n \in S : m <= n
<1>1. IsWellFoundedOn(OpToRel(<, Nat), Nat)
  BY NatLessThanWellFounded
<1>2. PICK m \in S : \A n \in S : ~ (<<n, m>> \in OpToRel(<, Nat))
  BY <1>1, WFMin
<1>3. \A n \in S : ~ (n < m)
  BY <1>2 DEF OpToRel
<1> QED
  BY <1>3

\* A bounded one has a greatest.
LEMMA GreatestOf ==
  ASSUME NEW S \in SUBSET Nat, S # {}, NEW b \in Nat, \A n \in S : n <= b
  PROVE  \E m \in S : \A n \in S : n <= m
<1> DEFINE T == {b - n : n \in S}
<1>0. \A n \in S : n \in Nat /\ b - n \in Nat
  OBVIOUS
<1>1. T \in SUBSET Nat /\ T # {}
  BY <1>0
<1>2. PICK t \in T : \A u \in T : t <= u
  BY <1>1, LeastOf
<1>3. PICK m \in S : t = b - m
  BY <1>2
<1>4. ASSUME NEW n \in S PROVE n <= m
  <2>1. b - n \in T
    OBVIOUS
  <2>2. b - m <= b - n
    BY <1>2, <1>3, <2>1
  <2> QED
    BY <1>0, <2>2
<1> QED
  BY <1>4

\* A set of positions that has all those before any of its own is an interval.
LEMMA SegmentIs ==
  ASSUME NEW n \in Nat, NEW S \in SUBSET (1 .. n), \A i \in S : \A j \in 1 .. i : j \in S
  PROVE  /\ Cardinality(S) \in 0 .. n
         /\ S = 1 .. Cardinality(S)
<1>1. CASE S = {}
  BY <1>1, FS_EmptySet
<1>2. CASE S # {}
  <2>1. PICK m \in S : \A i \in S : i <= m
    <3>1. S \in SUBSET Nat /\ \A i \in S : i <= n
      OBVIOUS
    <3> QED
      BY <1>2, <3>1, GreatestOf
  <2>2. m \in 1 .. n
    OBVIOUS
  <2>3. S = 1 .. m
    <3>1. \A i \in S : i \in 1 .. m
      BY <2>1
    <3>2. \A i \in 1 .. m : i \in S
      BY <2>1
    <3> QED
      BY <3>1, <3>2
  <2>4. Cardinality(1 .. m) = m
    BY <2>2, FS_Interval
  <2> QED
    BY <2>2, <2>3, <2>4
<1> QED
  BY <1>1, <1>2

\* Division keeps the order.
LEMMA DivMonotonic ==
  ASSUME NEW K \in Nat \ {0}, NEW x \in Nat, NEW y \in Nat, x <= y
  PROVE  x \div K \in Nat /\ y \div K \in Nat /\ x \div K <= y \div K
<1>1. x \div K \in Nat /\ y \div K \in Nat
  OBVIOUS
<1>2. K * (x \div K) <= x /\ y < K * ((y \div K) + 1)
  OBVIOUS
<1>3. ASSUME x \div K > y \div K PROVE FALSE
  <2>1. ASSUME NEW a \in Nat, NEW b \in Nat, a > b, K * a <= x, y < K * (b + 1) PROVE FALSE
    <3>1. PICK c \in Nat : a = b + 1 + c
      BY <2>1
    <3>2. K * a = K * (b + 1) + K * c
      BY <3>1
    <3>3. K * c \in Nat /\ K * (b + 1) \in Nat
      OBVIOUS
    <3> QED
      BY <2>1, <3>2, <3>3
  <2> QED
    BY <1>1, <1>2, <1>3, <2>1
<1> QED
  BY <1>1, <1>3

-----------------------------------------------------------------------------
\* The configuration

\* What every configuration keeps to.
Sane(c) ==
  /\ DOMAIN c = DOMAIN Default
  /\ c.threads \in Nat /\ c.cpu_percent \in 1 .. 100 /\ c.bits_per_key \in 8 .. 32
  /\ c.lookup \in {"mmap", "sorted", "hash"}
  /\ \A f \in Positive : c[f] \in Nat \ {0}

\* What fields that are put over others keep to.
SaneField(f, x) ==
  /\ f = "threads" => x \in Nat
  /\ f = "cpu_percent" => x \in 1 .. 100
  /\ f = "bits_per_key" => x \in 8 .. 32
  /\ f = "lookup" => x \in {"mmap", "sorted", "hash"}
  /\ f \in Positive => x \in Nat \ {0}

SaneFields(r) == \A f \in DOMAIN r : SaneField(f, r[f])

LEMMA DefaultSane == Sane(Default)
BY DEF Sane, Default, Positive

LEMMA OverSane ==
  ASSUME NEW c, Sane(c), NEW r, SaneFields(r)
  PROVE  Sane(Over(c, r))
<1> DEFINE o == Over(c, r)
<1>1. DOMAIN o = DOMAIN Default
  BY DEF Over, Sane
<1>2. \A f \in DOMAIN Default : o[f] = IF f \in DOMAIN r THEN r[f] ELSE c[f]
  BY DEF Over, Sane
<1>3. {"threads", "cpu_percent", "bits_per_key", "lookup"} \cup Positive \subseteq DOMAIN Default
  BY DEF Default, Positive
<1> HIDE DEF o
<1>4. \A f \in {"threads", "cpu_percent", "bits_per_key", "lookup"} \cup Positive :
        o[f] = IF f \in DOMAIN r THEN r[f] ELSE c[f]
  BY <1>2, <1>3
<1>5. o.threads \in Nat /\ o.cpu_percent \in 1 .. 100 /\ o.bits_per_key \in 8 .. 32
      /\ o.lookup \in {"mmap", "sorted", "hash"}
  BY <1>4 DEF Sane, SaneFields, SaneField
<1>6. \A f \in Positive : o[f] \in Nat \ {0}
  BY <1>4 DEF Sane, SaneFields, SaneField
<1> QED
  BY <1>1, <1>5, <1>6 DEF Sane, o

LEMMA ProfileSane ==
  ASSUME NEW c, Sane(c), NEW name
  PROVE  Sane(ApplyProfile(c, name))
<1>1. CASE name \in DOMAIN Profiles
  <2>1. SaneFields(Profiles[name])
    BY <1>1 DEF Profiles, SaneFields, SaneField, Positive
  <2> QED
    BY <1>1, <2>1, OverSane DEF ApplyProfile
<1>2. CASE name \notin DOMAIN Profiles
  BY <1>2 DEF ApplyProfile
<1> QED
  BY <1>1, <1>2

LEMMA ParsedSane ==
  ASSUME NEW f \in STRING, NEW v, f \in Numbers => v \in Nat, f \in Positive => v > 0
  PROVE  SaneField(f, Parsed(f, v))
<1>1. CASE f = "cpu_percent"
  <2>1. Parsed(f, v) = Clamp(v, 1, 100) /\ v \in Nat
    BY <1>1 DEF Parsed, Numbers
  <2>2. Clamp(v, 1, 100) \in 1 .. 100
    BY <2>1 DEF Clamp
  <2> QED
    BY <1>1, <2>1, <2>2 DEF SaneField, Positive
<1>2. CASE f = "bits_per_key"
  <2>1. Parsed(f, v) = Clamp(v, 8, 32) /\ v \in Nat
    BY <1>2 DEF Parsed, Numbers
  <2>2. Clamp(v, 8, 32) \in 8 .. 32
    BY <2>1 DEF Clamp
  <2> QED
    BY <1>2, <2>1, <2>2 DEF SaneField, Positive
<1>3. CASE f = "lookup"
  <2>1. Parsed(f, v) = ParseLookup(v)
    BY <1>3 DEF Parsed
  <2>2. ParseLookup(v) \in {"mmap", "sorted", "hash"}
    BY DEF ParseLookup
  <2> QED
    BY <1>3, <2>1, <2>2 DEF SaneField, Positive
<1>4. CASE f \in Positive \cup {"threads"}
  BY <1>4 DEF SaneField, Parsed, Numbers, Positive
<1>5. CASE ~(f \in Positive \cup {"threads"} \/ f \in {"lookup", "bits_per_key", "cpu_percent"})
  BY <1>5 DEF SaneField
<1> QED
  BY <1>1, <1>2, <1>3, <1>4, <1>5

LEMMA FileSane ==
  ASSUME NEW c, Sane(c), NEW toml \in Files, DOMAIN toml \subseteq STRING
  PROVE  Sane(ApplyFile(c, toml))
<1> DEFINE base == IF "profile" \in DOMAIN toml THEN ApplyProfile(c, toml.profile) ELSE c
           given == {f \in DOMAIN toml \ {"profile"} : f \in Positive => toml[f] > 0}
           r == [f \in given |-> Parsed(f, toml[f])]
<1>1. Sane(base)
  BY ProfileSane
<1>2. SaneFields(r)
  <2>1. ASSUME NEW f \in given
        PROVE  f \in STRING /\ (f \in Numbers => toml[f] \in Nat) /\ (f \in Positive => toml[f] > 0)
    BY ConfigAssumption
  <2>2. DOMAIN r = given /\ \A f \in given : r[f] = Parsed(f, toml[f])
    OBVIOUS
  <2> HIDE DEF r, given
  <2> QED
    BY <2>1, <2>2, ParsedSane DEF SaneFields
<1> HIDE DEF r, base
<1>3. ApplyFile(c, toml) = Over(base, r)
  BY DEF ApplyFile, base, r
<1> QED
  BY <1>1, <1>2, <1>3, OverSane

LEMMA EnvSane ==
  ASSUME NEW c, Sane(c), NEW env \in Envs
  PROVE  Sane(ApplyEnv(c, env))
<1> DEFINE given == {f \in DOMAIN env : f = "cpu_percent" => env[f] <= MaxU8}
           r == [f \in given |->
                   CASE f = "cpu_percent" -> Clamp(env[f], 1, 100)
                     [] f = "check_uncompressed" -> env[f] \in {"1", "true", "TRUE", "yes"}
                     [] OTHER -> env[f]]
<1>1. ASSUME NEW f \in given
      PROVE  \/ f = "threads" /\ r[f] \in Nat
             \/ f = "cpu_percent" /\ r[f] \in 1 .. 100
             \/ f = "check_uncompressed"
  <2>1. f \in {"threads", "check_uncompressed", "cpu_percent"}
    BY ConfigAssumption
  <2>2. f \in Numbers => env[f] \in Nat
    BY ConfigAssumption
  <2>3. CASE f = "threads"
    BY <2>2, <2>3 DEF Numbers
  <2>4. CASE f = "cpu_percent"
    <3>1. r[f] = Clamp(env[f], 1, 100) /\ env[f] \in Nat
      BY <2>2, <2>4 DEF Numbers
    <3>2. Clamp(env[f], 1, 100) \in 1 .. 100
      BY <3>1 DEF Clamp
    <3> QED
      BY <2>4, <3>1, <3>2
  <2> QED
    BY <2>1, <2>3, <2>4
<1>2. SaneFields(r)
  BY <1>1 DEF SaneFields, SaneField, Positive
<1> HIDE DEF r
<1>3. ApplyEnv(c, env) = Over(c, r)
  BY DEF ApplyEnv, r
<1> QED
  BY <1>2, <1>3, OverSane

LEMMA ConfigSane ==
  ASSUME NEW f \in Files, NEW e \in Envs
  PROVE  Sane(LoadConfig(f, e))
BY DefaultSane, FileSane, EnvSane, ConfigAssumption DEF LoadConfig

LEMMA SaneUsable ==
  ASSUME NEW c, Sane(c)
  PROVE  /\ \A cpus \in {0, 1, 4} : WorkerCount(c, cpus) >= 1
         /\ c.cpu_percent >= 1 /\ Rest(c, 100) <= 9900
         /\ \A f \in Positive : c[f] > 0
<1>1. \A cpus \in {0, 1, 4} : WorkerCount(c, cpus) >= 1
  BY DEF Sane, WorkerCount
<1>2. Rest(c, 100) <= 9900
  <2>1. ASSUME NEW x \in 1 .. 99 PROVE (100 * (100 - x)) \div x <= 9900
    <3> DEFINE n == 100 * (100 - x)
    <3>1. n \in Nat /\ n <= 9900
      OBVIOUS
    <3> HIDE DEF n
    <3>2. ASSUME NEW d \in Nat, x * d <= n PROVE d <= n
      <4>1. PICK y \in Nat : x = 1 + y
        OBVIOUS
      <4>2. x * d = d + y * d /\ y * d \in Nat
        BY <4>1
      <4> QED
        BY <3>1, <3>2, <4>2
    <3>3. n \div x \in Nat /\ x * (n \div x) <= n
      BY <3>1
    <3>4. n \div x <= n
      BY <3>2, <3>3
    <3> QED
      BY <3>1, <3>3, <3>4 DEF n
  <2>2. CASE c.cpu_percent >= 100
    BY <2>2 DEF Rest, Sane
  <2>3. CASE ~(c.cpu_percent >= 100)
    <3>1. c.cpu_percent \in 1 .. 99 /\ Clamp(c.cpu_percent, 1, 100) = c.cpu_percent
      BY <2>3 DEF Sane, Clamp
    <3> QED
      BY <2>1, <2>3, <3>1 DEF Rest
  <2> QED
    BY <2>2, <2>3
<1> QED
  BY <1>1, <1>2 DEF Sane

-----------------------------------------------------------------------------
\* What a snapshot holds

\* The keys K in their order, none twice.
SortedKeys(recs, K) == recs \in Seq(Hashes) /\ Increasing(recs) /\ Elems(recs) = K

LEMMA Numbered == Hashes \subseteq Nat /\ BucketSize \in Nat \ {0}
BY BloomAssumption, IndexAssumption

\* The order goes by position.
LEMMA InOrder ==
  ASSUME NEW recs \in Seq(Hashes), Increasing(recs), NEW i \in DOMAIN recs, NEW j \in DOMAIN recs
  PROVE  /\ recs[i] \in Nat /\ recs[j] \in Nat
         /\ i <= j => recs[i] <= recs[j]
         /\ recs[i] < recs[j] => i < j
<1>1. recs[i] \in Nat /\ recs[j] \in Nat
  <2>1. recs[i] \in Hashes /\ recs[j] \in Hashes
    OBVIOUS
  <2> QED
    BY <2>1, Numbered
<1>2. i \in Nat /\ j \in Nat
  OBVIOUS
<1>3. (i < j => recs[i] < recs[j]) /\ (j < i => recs[j] < recs[i])
  BY DEF Increasing
<1>4. i = j => recs[i] = recs[j]
  OBVIOUS
<1> QED
  BY <1>1, <1>2, <1>3, <1>4

\* The records of the first buckets are the first records.
LEMMA FirstBuckets ==
  ASSUME NEW recs \in Seq(Hashes), Increasing(recs),
         NEW B, \A b \in B : \A c \in Buckets : c <= b => c \in B
  PROVE  LET S == {i \in DOMAIN recs : BucketOf(recs[i]) \in B}
         IN Cardinality(S) \in 0 .. Len(recs) /\ S = 1 .. Cardinality(S)
<1> DEFINE S == {i \in DOMAIN recs : BucketOf(recs[i]) \in B}
<1>1. Len(recs) \in Nat /\ DOMAIN recs = 1 .. Len(recs) /\ S \in SUBSET (1 .. Len(recs))
  OBVIOUS
<1>2. ASSUME NEW i \in S, NEW j \in 1 .. i PROVE j \in S
  <2>1. i \in DOMAIN recs /\ j \in DOMAIN recs /\ j <= i
    BY <1>1
  <2>2. recs[i] \in Nat /\ recs[j] \in Nat /\ recs[j] <= recs[i] /\ recs[j] \in Hashes
    BY <2>1, InOrder
  <2>3. BucketOf(recs[j]) <= BucketOf(recs[i])
    BY <2>2, DivMonotonic, IndexAssumption DEF BucketOf
  <2>4. BucketOf(recs[j]) \in Buckets
    BY <2>2, IndexAssumption DEF BucketOf
  <2> QED
    BY <2>1, <2>3, <2>4
<1> HIDE DEF S
<1>3. Cardinality(S) \in 0 .. Len(recs) /\ S = 1 .. Cardinality(S)
  BY <1>1, <1>2, SegmentIs
<1> QED
  BY <1>3 DEF S

\* The index gives every bucket exactly the records that are in it.
LEMMA IndexFinds ==
  ASSUME NEW recs \in Seq(Hashes), Increasing(recs), NEW b \in Buckets
  PROVE  \E off, n \in Nat :
           /\ IndexOf(recs)[b] = <<off, n>> /\ off + n <= Len(recs)
           /\ \A i \in DOMAIN recs : BucketOf(recs[i]) = b <=> off < i /\ i <= off + n
<1> DEFINE below == {c \in Buckets : c < b}
           upto == {c \in Buckets : c <= b}
           In(B) == {i \in DOMAIN recs : BucketOf(recs[i]) \in B}
           l == Cardinality(In(below))
           u == Cardinality(In(upto))
<1>1. Len(recs) \in Nat /\ DOMAIN recs = 1 .. Len(recs)
  OBVIOUS
<1>2. \A c \in Buckets : c \in Nat
  <2>1. \A h \in Hashes : h \div BucketSize \in Nat
    BY Numbered, DivMonotonic
  <2> QED
    BY <2>1, IndexAssumption
<1>3. l \in 0 .. Len(recs) /\ In(below) = 1 .. l
  <2>1. \A x \in below : \A c \in Buckets : c <= x => c \in below
    BY <1>2
  <2> HIDE DEF below
  <2> QED
    BY <2>1, FirstBuckets
<1>4. u \in 0 .. Len(recs) /\ In(upto) = 1 .. u
  <2>1. \A x \in upto : \A c \in Buckets : c <= x => c \in upto
    BY <1>2
  <2> HIDE DEF upto
  <2> QED
    BY <2>1, FirstBuckets
<1>5. \A i \in DOMAIN recs : BucketOf(recs[i]) = b <=> i \in In(upto) /\ i \notin In(below)
  <2>1. ASSUME NEW i \in DOMAIN recs PROVE BucketOf(recs[i]) \in Buckets
    BY IndexAssumption DEF BucketOf
  <2> QED
    BY <1>2, <2>1
<1>6. In(below) \subseteq In(upto)
  BY <1>2
<1> HIDE DEF l, u
<1>7. l <= u
  <2>1. CASE l = 0
    BY <1>4, <2>1
  <2>2. CASE l > 0
    <3>1. l \in 1 .. l
      BY <1>3, <2>2
    <3>2. l \in 1 .. u
      BY <1>3, <1>4, <1>6, <3>1
    <3> QED
      BY <1>3, <1>4, <3>2
  <2> QED
    BY <1>3, <2>1, <2>2
<1>8. \A i \in DOMAIN recs : BucketOf(recs[i]) = b <=> l < i /\ i <= u
  <2>1. ASSUME NEW i \in DOMAIN recs PROVE BucketOf(recs[i]) = b <=> i \in 1 .. u /\ i \notin 1 .. l
    <3> HIDE DEF In, below, upto
    <3> QED
      BY <1>3, <1>4, <1>5
  <2> HIDE DEF In
  <2>2. \A i \in DOMAIN recs : i \in 1 .. u /\ i \notin 1 .. l <=> l < i /\ i <= u
    BY <1>1, <1>3, <1>4
  <2> QED
    BY <2>1, <2>2
<1>9. In({b}) = (l + 1) .. u
  <2>1. In({b}) = {i \in DOMAIN recs : BucketOf(recs[i]) = b}
    OBVIOUS
  <2> QED
    BY <1>1, <1>3, <1>4, <1>8, <2>1
<1>10. Cardinality(In({b})) = u - l
  <2>1. l + 1 \in Int /\ u \in Int
    BY <1>3, <1>4
  <2>2. Cardinality((l + 1) .. u) = IF l + 1 > u THEN 0 ELSE u - (l + 1) + 1
    BY <2>1, FS_Interval
  <2>3. Cardinality((l + 1) .. u) = u - l
    BY <1>3, <1>4, <1>7, <2>2
  <2> HIDE DEF In
  <2> QED
    BY <1>9, <2>3
<1>11. IndexOf(recs)[b] = <<l, Cardinality(In({b}))>>
  BY DEF IndexOf, l
<1>12. /\ IndexOf(recs)[b] = <<l, u - l>> /\ l + (u - l) <= Len(recs) /\ u - l \in Nat /\ l \in Nat
       /\ \A i \in DOMAIN recs : BucketOf(recs[i]) = b <=> l < i /\ i <= l + (u - l)
  BY <1>3, <1>4, <1>7, <1>8, <1>10, <1>11
<1> QED
  BY <1>12

\* What went into the filter is there, after the round through the file too.
LEMMA BloomHasAll ==
  ASSUME NEW n \in Nat, NEW bits \in 8 .. 32, NEW K
  PROVE  LET b == FromBytes(WriteTo(Insert(NewBloom(n, bits), K)))
         IN b.per = bits /\ \A k \in K : MaybeContains(b, k)
<1> DEFINE x == Insert(NewBloom(n, bits), K)
           b == FromBytes(WriteTo(x))
<1>1. PICK w \in Nat : BitLen(n, bits) = w * 64
  <2> DEFINE want == IF n * bits < 64 THEN 64 ELSE n * bits
  <2>1. n * bits \in Nat
    OBVIOUS
  <2>2. (want + 63) \div 64 \in Nat
    BY <2>1
  <2> QED
    BY <2>2 DEF BitLen
<1>2. OptimalK(bits) \in 4 .. 24
  <2>1. (bits * 693147 + 500000) \div 1000000 \in Nat
    OBVIOUS
  <2> QED
    BY <2>1 DEF OptimalK, Within
<1>3. Within(bits, 8, 32) = bits
  BY DEF Within
<1>4. /\ x.len = w * 64 /\ x.k = OptimalK(bits) /\ x.per = bits
      /\ x.ones = UNION {BitsOf(NewBloom(n, bits), k) : k \in K}
  BY <1>1, <1>3 DEF Insert, NewBloom
<1>5. /\ b.ones = x.ones /\ b.per = x.per
      /\ b.len = (((x.len \div 64) * 8) \div 8) * 64 /\ b.k = IF x.k = 0 THEN 1 ELSE x.k
  BY DEF FromBytes, WriteTo
<1>6. b.len = w * 64
  <2>1. (w * 64) \div 64 = w /\ (w * 8) \div 8 = w
    OBVIOUS
  <2> QED
    BY <1>4, <1>5, <2>1
<1>7. b.k = OptimalK(bits)
  BY <1>2, <1>4, <1>5
<1>8. NewBloom(n, bits).len = w * 64 /\ NewBloom(n, bits).k = OptimalK(bits)
  BY <1>1, <1>3 DEF NewBloom
<1> HIDE DEF b, x
<1>9. \A k \in K : BitsOf(b, k) = BitsOf(NewBloom(n, bits), k)
  BY <1>6, <1>7, <1>8 DEF BitsOf
<1>10. b.per = bits /\ \A k \in K : MaybeContains(b, k)
  BY <1>4, <1>5, <1>9 DEF MaybeContains
<1> QED
  BY <1>10 DEF b, x

\* A snapshot of the keys K.
SnapshotOf(f, K) ==
  \E recs :
    /\ SortedKeys(recs, K)
    /\ \/ f = [format |-> "plh1", recs |-> recs]
       \/ \E bits \in 8 .. 32 : f = Plh2(recs, bits)

\* A Db that is ready for lookups among the keys K.
DbOf(d, K) ==
  /\ SortedKeys(d.recs, K)
  /\ d.lookup = "mmap" => /\ d.index = IndexOf(d.recs)
                          /\ \A k \in K : MaybeContains(d.bloom, k)

LEMMA OpenedPlh2 ==
  ASSUME NEW recs, NEW K, SortedKeys(recs, K), NEW bits \in 8 .. 32
  PROVE  /\ SnapshotOf(Plh2(recs, bits), K)
         /\ Plh2(recs, bits).format = "plh2" /\ Plh2(recs, bits).recs = recs
         /\ DbOf(OpenPlh2(Plh2(recs, bits)), K)
         /\ OpenPlh2(Plh2(recs, bits)).lookup = "mmap"
         /\ OpenPlh2(Plh2(recs, bits)).bloom.per = bits
<1> DEFINE f == Plh2(recs, bits)
           d == OpenPlh2(f)
<1>1. SnapshotOf(f, K)
  BY DEF SnapshotOf
<1>2. /\ f.format = "plh2" /\ f.recs = recs /\ f.index = IndexOf(recs)
      /\ f.bloom = WriteTo(Insert(NewBloom(Len(recs), bits), Elems(recs)))
  BY DEF Plh2
<1> HIDE DEF f
<1>3. d.lookup = "mmap" /\ d.recs = recs /\ d.index = IndexOf(recs) /\ d.bloom = FromBytes(f.bloom)
  BY <1>2 DEF OpenPlh2
<1>4. Len(recs) \in Nat /\ Elems(recs) = K
  BY DEF SortedKeys
<1>5. d.bloom.per = bits /\ \A k \in K : MaybeContains(d.bloom, k)
  BY <1>2, <1>3, <1>4, BloomHasAll
<1> HIDE DEF d
<1>6. DbOf(d, K)
  BY <1>3, <1>5 DEF DbOf
<1> QED
  BY <1>1, <1>2, <1>3, <1>5, <1>6 DEF f, d

LEMMA SortedByLibrary ==
  ASSUME NEW K \in SUBSET Hashes
  PROVE  SortedKeys(Sort[K], K)
BY SortAssumption DEF SortedKeys

LEMMA InMemoryDb ==
  ASSUME NEW K \in SUBSET Hashes, NEW lookup \in {"sorted", "hash"}
  PROVE  DbOf(InMemory(K, lookup), K) /\ InMemory(K, lookup).lookup = lookup
BY SortedByLibrary DEF InMemory, DbOf

-----------------------------------------------------------------------------
\* The inductive invariant

BasicInv == pc \in Places /\ pickles \in BOOLEAN /\ imports \in 0 .. MaxImports /\ Sane(cfg)

\* The snapshot is of its keys; an import into memory is made for want of one.
FileInv ==
  /\ keys \subseteq Hashes
  /\ file = NoFile \/ SnapshotOf(file, keys)
  /\ pc = "shard" => file = NoFile /\ cfg.lookup # "mmap"

\* There is a Db when lookups may come, it is of the keys and as configured.
DbInv ==
  IF pc \in {"ready", "search", "answer"}
  THEN DbOf(db, keys) /\ db.lookup = cfg.lookup
         /\ (db.lookup = "mmap" => db.bloom.per = cfg.bits_per_key)
  ELSE db = NoDb

\* Chunks that can be merged, and the keys in them.
Sound(cs) == cs \in Seq(Seq(Hashes)) /\ \A i \in DOMAIN cs : Increasing(cs[i]) /\ cs[i] # <<>>
KeysOf(cs) == UNION {Elems(cs[i]) : i \in DOMAIN cs}

\* What the readers have still to read.
Unread(i) == {chunks[i][j] : j \in pos[i] .. Len(chunks[i])}
Coming == {e[1] : e \in heap} \cup UNION {Unread(i) : i \in DOMAIN chunks}

\* The heap has the record each reader read last, if that is not in the output yet.
HeapInv ==
  /\ pos \in [DOMAIN chunks -> Nat]
  /\ \A i \in DOMAIN chunks : 2 <= pos[i] /\ pos[i] <= Len(chunks[i]) + 1
  /\ \A e \in heap : e[2] \in DOMAIN chunks /\ e = <<chunks[e[2]][pos[e[2]] - 1], e[2]>>
  /\ \A i \in DOMAIN chunks : pos[i] <= Len(chunks[i]) => <<chunks[i][pos[i] - 1], i>> \in heap

MergeInv ==
  /\ HeapInv
  /\ Increasing(out)
  /\ out # <<>> => \A e \in heap : out[Len(out)] <= e[1]
  /\ Elems(out) \cup Coming = rows

ImportInv ==
  /\ buf \in Seq(Hashes) /\ Sound(chunks) /\ pos \in Seq(Nat) /\ out \in Seq(Hashes)
  /\ rows \subseteq Hashes
  /\ pc # "merge" => heap = {}
  /\ pc = "scan" => rows = Elems(buf) \cup KeysOf(chunks) /\ out = <<>>
  /\ pc = "shard" => rows = Elems(buf)
  /\ pc = "build" => SortedKeys(out, rows)
  /\ pc = "merge" => MergeInv

\* A search has the key between its ends, if the snapshot has it at all.
SearchInv ==
  \E key \in Hashes, off, lo, hi, turns \in Nat :
    /\ q = [place |-> "search", key |-> key, off |-> off, lo |-> lo, hi |-> hi, turns |-> turns]
    /\ off + hi <= Len(db.recs)
    /\ key \in keys => \E i \in Nat : lo <= i /\ i < hi /\ db.recs[off + i + 1] = key

AnswerInv ==
  \E key \in Hashes, found \in BOOLEAN, failed \in BOOLEAN :
    /\ q = [place |-> "answer", key |-> key, found |-> found, failed |-> failed]
    /\ ~failed => (found <=> key \in keys)

QueryInv ==
  /\ pc = "search" => SearchInv /\ db.lookup = "mmap"
  /\ pc = "answer" => AnswerInv
  /\ pc \notin {"search", "answer"} => q = NoQuery

IndexInv == BasicInv /\ FileInv /\ DbInv /\ ImportInv /\ QueryInv

LEMMA EmptySorted == SortedKeys(<<>>, {})
BY DEF SortedKeys, Increasing, Elems

LEMMA NothingImported == Sound(<<>>) /\ KeysOf(<<>>) = {} /\ Elems(<<>>) = {}
BY DEF Sound, KeysOf, Elems

LEMMA IndexInit == Init => IndexInv
<1> SUFFICES ASSUME Init PROVE IndexInv
  OBVIOUS
<1>1. BasicInv
  BY DefaultSane, IndexAssumption DEF Init, BasicInv, Places
<1>2. FileInv
  <2>1. CASE file = NoFile /\ keys = {}
    BY <2>1 DEF Init, FileInv
  <2>2. CASE keys \in OldSets /\ file = [format |-> "plh1", recs |-> Sort[keys]]
    <3>1. keys \in SUBSET Hashes
      BY <2>2, IndexAssumption
    <3>2. SnapshotOf(file, keys)
      BY <2>2, <3>1, SortedByLibrary DEF SnapshotOf
    <3> QED
      BY <3>1, <3>2 DEF Init, FileInv
  <2> QED
    BY <2>1, <2>2 DEF Init
<1>3. DbInv /\ QueryInv
  BY DEF Init, DbInv, QueryInv
<1>4. ImportInv
  BY NothingImported DEF Init, ImportInv
<1> QED
  BY <1>1, <1>2, <1>3, <1>4 DEF IndexInv

\* What is not about an import leaves the last one alone.
LEMMA ImportRests ==
  ASSUME ImportInv, pc # "merge", UNCHANGED import,
         pc' \notin {"scan", "shard", "build", "merge"}
  PROVE  ImportInv'
BY DEF ImportInv, import

\* An import begins with nothing.
LEMMA BeginKeeps ==
  ASSUME IndexInv, NEW place \in {"scan", "shard"}, Begin(place),
         pc \in {"load", "ready"}, UNCHANGED <<pickles, cfg, file, q, keys>>,
         place = "shard" => file = NoFile /\ cfg.lookup # "mmap"
  PROVE  IndexInv'
<1>1. BasicInv'
  BY IndexAssumption DEF IndexInv, BasicInv, Begin, Places
<1>2. FileInv'
  BY DEF IndexInv, FileInv, Begin
<1>3. DbInv' /\ QueryInv'
  BY DEF IndexInv, DbInv, QueryInv, Begin
<1>4. ImportInv'
  BY NothingImported DEF ImportInv, Begin
<1> QED
  BY <1>1, <1>2, <1>3, <1>4 DEF IndexInv

LEMMA StartsImport == IndexInv /\ (Refresh \/ OpenPickles) => IndexInv'
<1>1. ASSUME IndexInv, Refresh PROVE IndexInv'
  BY <1>1, BeginKeeps DEF Refresh
<1>2. ASSUME IndexInv, OpenPickles PROVE IndexInv'
  <2>1. CASE cfg.lookup = "mmap"
    BY <1>2, <2>1, BeginKeeps DEF OpenPickles
  <2>2. CASE cfg.lookup # "mmap"
    BY <1>2, <2>2, BeginKeeps DEF OpenPickles
  <2> QED
    BY <2>1, <2>2
<1> QED
  BY <1>1, <1>2

LEMMA ProcessKeeps ==
  ASSUME IndexInv,
         (\E f \in Files, e \in Envs : Start(f, e)) \/ Stop
  PROVE  IndexInv'
<1>1. BasicInv'
  BY ConfigSane, DefaultSane DEF IndexInv, BasicInv, Start, Stop, Places
<1>2. FileInv' /\ DbInv' /\ QueryInv'
  BY DEF IndexInv, FileInv, DbInv, QueryInv, Start, Stop
<1>3. ImportInv'
  BY ImportRests DEF IndexInv, Start, Stop
<1> QED
  BY <1>1, <1>2, <1>3 DEF IndexInv

-----------------------------------------------------------------------------
\* The steps of an import

LEMMA SeqShape ==
  ASSUME NEW S, NEW s \in Seq(S)
  PROVE  /\ Len(s) \in Nat /\ DOMAIN s = 1 .. Len(s) /\ (Len(s) = 0 <=> s = <<>>)
         /\ \A i \in DOMAIN s : s[i] \in S
OBVIOUS

LEMMA AppendElems ==
  ASSUME NEW S, NEW s \in Seq(S), NEW x \in S
  PROVE  /\ Append(s, x) \in Seq(S) /\ Len(Append(s, x)) = Len(s) + 1 /\ Append(s, x) # <<>>
         /\ Append(s, x)[Len(s) + 1] = x
         /\ \A i \in DOMAIN s : i \in DOMAIN Append(s, x) /\ Append(s, x)[i] = s[i]
         /\ \A i \in DOMAIN Append(s, x) : i \in DOMAIN s \/ i = Len(s) + 1
         /\ Elems(Append(s, x)) = Elems(s) \cup {x}
<1> DEFINE a == Append(s, x)
<1>1. a \in Seq(S) /\ Len(a) = Len(s) + 1 /\ a[Len(s) + 1] = x /\ Len(s) \in Nat
  OBVIOUS
<1>2. \A i \in DOMAIN s : i \in DOMAIN a /\ a[i] = s[i]
  OBVIOUS
<1>3. \A i \in DOMAIN a : i \in DOMAIN s \/ i = Len(s) + 1
  OBVIOUS
<1>4. Len(s) + 1 \in DOMAIN a
  OBVIOUS
<1>5. a # <<>>
  BY <1>1
<1> HIDE DEF a
<1>6. Elems(a) = Elems(s) \cup {x}
  BY <1>1, <1>2, <1>3, <1>4 DEF Elems
<1> QED
  BY <1>1, <1>2, <1>3, <1>5, <1>6 DEF a

\* A flushed buffer is one more sound chunk.
LEMMA FlushedKeeps ==
  ASSUME Sound(chunks), NEW b \in Seq(Hashes)
  PROVE  Sound(Flushed(b)) /\ KeysOf(Flushed(b)) = KeysOf(chunks) \cup Elems(b)
<1>1. CASE b = <<>>
  BY <1>1, NothingImported DEF Flushed
<1>2. CASE b # <<>>
  <2> DEFINE c == Sort[Elems(b)]
             cs == Append(chunks, c)
  <2>1. Elems(b) \in SUBSET Hashes
    BY DEF Elems
  <2>2. c \in Seq(Hashes) /\ Increasing(c) /\ Elems(c) = Elems(b)
    BY <2>1, SortAssumption
  <2>3. b[1] \in Elems(b)
    BY <1>2 DEF Elems
  <2>4. c # <<>>
    BY <2>2, <2>3, NothingImported
  <2>5. Flushed(b) = cs
    BY <1>2 DEF Flushed
  <2> HIDE DEF c
  <2>6. /\ cs \in Seq(Seq(Hashes)) /\ cs[Len(chunks) + 1] = c
        /\ \A i \in DOMAIN chunks : i \in DOMAIN cs /\ cs[i] = chunks[i]
        /\ \A i \in DOMAIN cs : i \in DOMAIN chunks \/ i = Len(chunks) + 1
        /\ Len(chunks) + 1 \in DOMAIN cs
    BY <2>2, AppendElems DEF Sound
  <2> HIDE DEF cs
  <2>7. Sound(cs)
    BY <2>2, <2>4, <2>6 DEF Sound
  <2>8. KeysOf(cs) = KeysOf(chunks) \cup Elems(b)
    BY <2>2, <2>6 DEF KeysOf
  <2> QED
    BY <2>5, <2>7, <2>8
<1> QED
  BY <1>1, <1>2

LEMMA PushKeeps ==
  ASSUME IndexInv, NEW h \in Hashes, Push(h)
  PROVE  IndexInv'
<1> USE DEF IndexInv
<1>1. BasicInv' /\ FileInv' /\ DbInv' /\ QueryInv'
  BY DEF BasicInv, FileInv, DbInv, QueryInv, Push
<1>2. ImportInv'
  <2> DEFINE b == Append(buf, h)
  <2>1. b \in Seq(Hashes) /\ Elems(b) = Elems(buf) \cup {h}
    BY AppendElems DEF ImportInv
  <2>2. Sound(Flushed(b)) /\ KeysOf(Flushed(b)) = KeysOf(chunks) \cup Elems(b)
    BY <2>1, FlushedKeeps DEF ImportInv
  <2>3. /\ rows = Elems(buf) \cup KeysOf(chunks) /\ rows' = rows \cup {h} /\ rows \subseteq Hashes
        /\ pc = "scan" /\ pc' = pc /\ heap = {} /\ UNCHANGED <<pos, heap, out>>
        /\ pos \in Seq(Nat) /\ out = <<>> /\ Sound(chunks)
    BY DEF ImportInv, Push
  <2>4. \/ buf' = <<>> /\ chunks' = Flushed(b)
        \/ buf' = b /\ chunks' = chunks
    BY DEF Push
  <2> HIDE DEF b
  <2>5. buf' \in Seq(Hashes) /\ Sound(chunks') /\ rows' = Elems(buf') \cup KeysOf(chunks')
    <3>1. CASE buf' = <<>> /\ chunks' = Flushed(b)
      <4>1. Elems(buf') = {} /\ buf' \in Seq(Hashes)
        BY <3>1, NothingImported
      <4>2. Sound(chunks') /\ KeysOf(chunks') = KeysOf(chunks) \cup Elems(b)
        BY <2>2, <3>1
      <4> QED
        BY <2>1, <2>3, <4>1, <4>2
    <3>2. CASE buf' = b /\ chunks' = chunks
      BY <2>1, <2>3, <3>2
    <3> QED
      BY <2>4, <3>1, <3>2
  <2> QED
    BY <2>3, <2>5 DEF ImportInv
<1> QED
  BY <1>1, <1>2

LEMMA ShardKeeps ==
  ASSUME IndexInv, NEW h \in Hashes, Shard(h)
  PROVE  IndexInv'
<1> USE DEF IndexInv
<1>1. BasicInv' /\ FileInv' /\ DbInv' /\ QueryInv'
  BY DEF BasicInv, FileInv, DbInv, QueryInv, Shard
<1>2. Append(buf, h) \in Seq(Hashes) /\ Elems(Append(buf, h)) = Elems(buf) \cup {h}
  BY AppendElems DEF ImportInv
<1>3. ImportInv'
  BY <1>2 DEF ImportInv, Shard
<1> QED
  BY <1>1, <1>3

LEMMA EndOfRowsKeeps ==
  ASSUME IndexInv, EndOfRows
  PROVE  IndexInv'
<1> USE DEF IndexInv
<1> DEFINE cs == Flushed(buf)
<1>1. BasicInv' /\ FileInv' /\ DbInv' /\ QueryInv'
  BY DEF BasicInv, FileInv, DbInv, QueryInv, EndOfRows, Places
<1>2. Sound(cs) /\ KeysOf(cs) = rows
  BY FlushedKeeps DEF ImportInv, EndOfRows
<1>3. /\ chunks' = cs /\ buf' = <<>> /\ rows' = rows /\ rows \subseteq Hashes
      /\ heap = {} /\ pos \in Seq(Nat) /\ out \in Seq(Hashes)
  BY DEF EndOfRows, ImportInv
<1>4. CASE Len(cs) <= 1
  <2>1. out' = IF cs = <<>> THEN <<>> ELSE cs[1]
    BY <1>4 DEF EndOfRows
  <2>2. pc' = "build" /\ UNCHANGED <<pos, heap>>
    BY <1>4 DEF EndOfRows
  <2> HIDE DEF cs
  <2>3. Len(cs) \in Nat /\ DOMAIN cs = 1 .. Len(cs) /\ (Len(cs) = 0 <=> cs = <<>>)
        /\ \A i \in DOMAIN cs : cs[i] \in Seq(Hashes)
    BY <1>2, SeqShape DEF Sound
  <2>4. SortedKeys(out', rows')
    <3>1. CASE cs = <<>>
      <4>1. out' = <<>> /\ rows' = {}
        BY <1>2, <1>3, <2>1, <3>1, NothingImported
      <4> QED
        BY <4>1, EmptySorted
    <3>2. CASE cs # <<>>
      <4>1. DOMAIN cs = {1}
        BY <1>4, <2>3, <3>2
      <4>2. cs[1] \in Seq(Hashes) /\ Increasing(cs[1]) /\ Elems(cs[1]) = rows
        BY <1>2, <2>3, <4>1 DEF Sound, KeysOf
      <4>3. out' = cs[1] /\ rows' = rows
        BY <1>3, <2>1, <3>2
      <4> QED
        BY <4>2, <4>3 DEF SortedKeys
    <3> QED
      BY <3>1, <3>2
  <2>5. out' \in Seq(Hashes)
    BY <2>4 DEF SortedKeys
  <2>6. buf' \in Seq(Hashes) /\ Sound(chunks')
    BY <1>2, <1>3
  <2> QED
    BY <1>1, <1>3, <2>2, <2>4, <2>5, <2>6 DEF ImportInv
<1>5. CASE ~(Len(cs) <= 1)
  <2>1. /\ heap' = {<<cs[i][1], i>> : i \in DOMAIN cs} /\ pos' = [i \in DOMAIN cs |-> 2]
        /\ pc' = "merge" /\ out' = out
    BY <1>5 DEF EndOfRows
  <2> HIDE DEF cs
  <2>2. out = <<>>
    BY DEF ImportInv, EndOfRows
  <2>3. Len(cs) \in Nat /\ DOMAIN cs = 1 .. Len(cs)
    BY <1>2, SeqShape DEF Sound
  <2>4. \A i \in DOMAIN cs : cs[i] \in Seq(Hashes) /\ Len(cs[i]) \in Nat \ {0} /\ DOMAIN cs[i] = 1 .. Len(cs[i])
    <3>1. ASSUME NEW i \in DOMAIN cs PROVE cs[i] \in Seq(Hashes) /\ cs[i] # <<>>
      BY <1>2, SeqShape DEF Sound
    <3> QED
      BY <3>1, SeqShape
  <2>5. \A i \in DOMAIN cs : pos'[i] = 2
    BY <2>1
  <2>6. HeapInv'
    <3>1. pos' \in [DOMAIN chunks' -> Nat]
      BY <1>3, <2>1
    <3>2. \A i \in DOMAIN chunks' : 2 <= pos'[i] /\ pos'[i] <= Len(chunks'[i]) + 1
      BY <1>3, <2>4, <2>5
    <3>3. \A i \in DOMAIN cs : pos'[i] - 1 = 1
      BY <2>5
    <3>4. \A e \in heap' : e[2] \in DOMAIN chunks' /\ e = <<chunks'[e[2]][pos'[e[2]] - 1], e[2]>>
      <4>1. ASSUME NEW i \in DOMAIN cs, NEW e, e = <<cs[i][1], i>>
            PROVE  e[2] \in DOMAIN cs /\ e = <<cs[e[2]][pos'[e[2]] - 1], e[2]>>
        BY <3>3, <4>1
      <4> QED
        BY <1>3, <2>1, <4>1
    <3>5. \A i \in DOMAIN chunks' : <<chunks'[i][pos'[i] - 1], i>> \in heap'
      BY <1>3, <2>1, <3>3
    <3> QED
      BY <3>1, <3>2, <3>4, <3>5 DEF HeapInv
  <2>7. pos' \in Seq(Nat)
    BY <2>1, <2>3
  <2>8. Coming' = KeysOf(cs)
    <3>1. ASSUME NEW i \in DOMAIN cs
          PROVE  Elems(cs[i]) = {cs[i][1]} \cup {cs[i][j] : j \in 2 .. Len(cs[i])}
      <4>1. ASSUME NEW n \in Nat \ {0} PROVE 1 .. n = {1} \cup (2 .. n)
        OBVIOUS
      <4>2. DOMAIN cs[i] = {1} \cup (2 .. Len(cs[i]))
        BY <2>4, <4>1
      <4> QED
        BY <4>2 DEF Elems
    <3>2. ASSUME NEW i \in DOMAIN cs PROVE Unread(i)' = {cs[i][j] : j \in 2 .. Len(cs[i])}
      BY <1>3, <2>5 DEF Unread
    <3>3. {e[1] : e \in heap'} = {cs[i][1] : i \in DOMAIN cs}
      <4>1. ASSUME NEW e \in heap' PROVE \E i \in DOMAIN cs : e[1] = cs[i][1]
        BY <2>1
      <4>2. ASSUME NEW i \in DOMAIN cs PROVE \E e \in heap' : e[1] = cs[i][1]
        <5>1. <<cs[i][1], i>> \in heap' /\ <<cs[i][1], i>>[1] = cs[i][1]
          BY <2>1
        <5> QED
          BY <5>1
      <4>3. {e[1] : e \in heap'} \subseteq {cs[i][1] : i \in DOMAIN cs}
        BY <4>1
      <4>4. {cs[i][1] : i \in DOMAIN cs} \subseteq {e[1] : e \in heap'}
        BY <4>2
      <4> QED
        BY <4>3, <4>4
    <3>4. Coming' = {cs[i][1] : i \in DOMAIN cs} \cup UNION {Unread(i)' : i \in DOMAIN cs}
      BY <1>3, <3>3 DEF Coming
    <3> QED
      BY <3>1, <3>2, <3>4 DEF KeysOf
  <2>9. MergeInv'
    <3>1. out' = <<>> /\ Elems(out') = {} /\ Increasing(out')
      BY <2>1, <2>2, NothingImported DEF Increasing
    <3> QED
      BY <1>2, <1>3, <2>6, <2>8, <3>1 DEF MergeInv
  <2>10. buf' \in Seq(Hashes) /\ Sound(chunks') /\ out' \in Seq(Hashes)
    BY <1>2, <1>3, <2>1
  <2> QED
    BY <1>1, <1>3, <2>1, <2>7, <2>9, <2>10 DEF ImportInv
<1> QED
  BY <1>1, <1>4, <1>5

\* The heap's top is its least record, read by some reader last.
LEMMA TopIs ==
  ASSUME heap \subseteq Hashes \X DOMAIN chunks, chunks \in Seq(Seq(Hashes)), heap # {}
  PROVE  Top \in heap /\ \A e \in heap : Top[1] <= e[1]
<1> DEFINE recs == {e[1] : e \in heap}
<1>1. \A e \in heap : e[1] \in Nat /\ e[2] \in Nat /\ e[2] <= Len(chunks)
  <2>1. DOMAIN chunks = 1 .. Len(chunks) /\ Len(chunks) \in Nat
    BY SeqShape
  <2>2. ASSUME NEW e \in heap PROVE e[1] \in Nat /\ e[2] \in Nat /\ e[2] <= Len(chunks)
    <3>1. e[1] \in Hashes /\ e[2] \in DOMAIN chunks
      OBVIOUS
    <3>2. e[1] \in Nat
      BY <3>1, Numbered
    <3>3. e[2] \in 1 .. Len(chunks)
      BY <2>1, <3>1
    <3> QED
      BY <2>1, <3>2, <3>3
  <2> QED
    BY <2>2
<1>2. recs \in SUBSET Nat /\ recs # {}
  BY <1>1
<1>3. PICK r \in recs : \A s \in recs : r <= s
  BY <1>2, LeastOf
<1> DEFINE least == {e \in heap : e[1] = r}
           readers == {e[2] : e \in least}
<1>4. readers \in SUBSET Nat /\ readers # {} /\ \A n \in readers : n <= Len(chunks)
  BY <1>1
<1>5. Len(chunks) \in Nat
  BY SeqShape
<1>6. PICK m \in readers : \A n \in readers : n <= m
  <2> HIDE DEF readers
  <2> QED
    BY <1>4, <1>5, GreatestOf
<1>7. PICK t \in heap : t[1] = r /\ t[2] = m
  OBVIOUS
<1>8. \A f \in heap : t[1] < f[1] \/ (t[1] = f[1] /\ t[2] >= f[2])
  <2>1. ASSUME NEW f \in heap PROVE t[1] < f[1] \/ (t[1] = f[1] /\ t[2] >= f[2])
    <3>1. f[1] \in recs /\ r <= f[1]
      BY <1>3
    <3>2. CASE f[1] = r
      <4>1. f[2] \in readers
        BY <3>2
      <4> QED
        BY <1>1, <1>6, <1>7, <3>2, <4>1
    <3>3. CASE f[1] # r
      <4>1. f[1] \in Nat /\ t[1] \in Nat /\ t[1] = r
        BY <1>1, <1>7
      <4> HIDE DEF recs, least, readers
      <4>2. t[1] < f[1]
        BY <3>1, <3>3, <4>1
      <4> QED
        BY <4>2
    <3> QED
      BY <3>2, <3>3
  <2> QED
    BY <2>1
<1>9. Top \in heap /\ \A f \in heap : Top[1] < f[1] \/ (Top[1] = f[1] /\ Top[2] >= f[2])
  <2>1. \E e \in heap : \A f \in heap : e[1] < f[1] \/ (e[1] = f[1] /\ e[2] >= f[2])
    BY <1>8
  <2> QED
    BY <2>1, Zenon DEF Top
<1>10. ASSUME NEW f \in heap PROVE Top[1] <= f[1]
  <2>1. Top[1] \in Nat /\ f[1] \in Nat
    BY <1>1, <1>9
  <2>2. Top[1] < f[1] \/ Top[1] = f[1]
    BY <1>9
  <2> QED
    BY <2>1, <2>2
<1> QED
  BY <1>9, <1>10

\* Without a heap there is nothing to come.
LEMMA NothingComes ==
  ASSUME MergeInv, Sound(chunks), heap = {}
  PROVE  Elems(out) = rows
<1>1. ASSUME NEW i \in DOMAIN chunks PROVE Unread(i) = {}
  <2>1. chunks[i] \in Seq(Hashes)
    BY SeqShape DEF Sound
  <2>2. pos[i] \in Nat /\ Len(chunks[i]) \in Nat
    BY <2>1, SeqShape DEF MergeInv, HeapInv
  <2>3. ~(pos[i] <= Len(chunks[i]))
    BY DEF MergeInv, HeapInv
  <2>4. pos[i] .. Len(chunks[i]) = {}
    BY <2>2, <2>3
  <2> QED
    BY <2>4 DEF Unread
<1>2. Coming = {}
  BY <1>1 DEF Coming
<1> QED
  BY <1>2 DEF MergeInv

\* One turn of the merge.
LEMMA PopMerges ==
  ASSUME ImportInv, Pop, heap # {}
  PROVE  /\ MergeInv' /\ pos' \in Seq(Nat) /\ out' \in Seq(Hashes) /\ pc' = "merge"
         /\ UNCHANGED <<buf, chunks, rows>>
<1> DEFINE i == Top[2]
           rec == Top[1]
           c == chunks[i]
           more == pos[i] <= Len(c)
           new == <<c[pos[i]], i>>
<1>0. pc = "merge"
  BY DEF Pop
<1>1. HeapInv /\ MergeInv /\ chunks \in Seq(Seq(Hashes)) /\ pos \in Seq(Nat) /\ out \in Seq(Hashes)
  BY <1>0 DEF ImportInv, MergeInv, Sound
<1>2. \A j \in DOMAIN chunks :
        /\ chunks[j] \in Seq(Hashes) /\ Increasing(chunks[j]) /\ Len(chunks[j]) \in Nat
        /\ DOMAIN chunks[j] = 1 .. Len(chunks[j])
        /\ pos[j] \in Nat /\ 2 <= pos[j] /\ pos[j] <= Len(chunks[j]) + 1
  <2>1. ASSUME NEW j \in DOMAIN chunks
        PROVE  chunks[j] \in Seq(Hashes) /\ Increasing(chunks[j])
    BY <1>1, SeqShape DEF ImportInv, Sound
  <2> QED
    BY <1>1, <2>1, SeqShape DEF HeapInv
<1>3. ASSUME NEW j \in DOMAIN chunks, NEW n \in Nat, 1 <= n, n <= Len(chunks[j])
      PROVE  n \in DOMAIN chunks[j] /\ chunks[j][n] \in Hashes /\ chunks[j][n] \in Nat
  <2>1. n \in DOMAIN chunks[j]
    BY <1>2, <1>3
  <2>2. chunks[j][n] \in Hashes
    BY <1>2, <2>1
  <2> QED
    BY <2>1, <2>2, Numbered
<1>4. \A e \in heap : e[2] \in DOMAIN chunks /\ e = <<chunks[e[2]][pos[e[2]] - 1], e[2]>>
  BY <1>1 DEF HeapInv
<1>5. heap \subseteq Hashes \X DOMAIN chunks
  <2>1. ASSUME NEW e \in heap PROVE e \in Hashes \X DOMAIN chunks
    <3>1. e[2] \in DOMAIN chunks /\ e = <<chunks[e[2]][pos[e[2]] - 1], e[2]>>
      BY <1>4
    <3>2. pos[e[2]] - 1 \in Nat /\ 1 <= pos[e[2]] - 1 /\ pos[e[2]] - 1 <= Len(chunks[e[2]])
      BY <1>2, <3>1
    <3>3. chunks[e[2]][pos[e[2]] - 1] \in Hashes
      BY <1>3, <3>1, <3>2
    <3> QED
      BY <3>1, <3>3
  <2> QED
    BY <2>1
<1>6. Top \in heap /\ \A e \in heap : rec <= e[1]
  BY <1>1, <1>5, TopIs
<1>7. i \in DOMAIN chunks /\ Top = <<c[pos[i] - 1], i>> /\ rec = c[pos[i] - 1] /\ rec \in Hashes /\ rec \in Nat
  <2>1. i \in DOMAIN chunks /\ Top = <<c[pos[i] - 1], i>>
    BY <1>4, <1>6
  <2>2. rec = c[pos[i] - 1]
    BY <2>1
  <2>3. rec \in Hashes
    BY <1>5, <1>6
  <2> QED
    BY <2>1, <2>2, <2>3, Numbered
<1>8. \A e \in heap \ {Top} : e[2] # i
  BY <1>4, <1>7
<1>9. /\ out' = IF out # <<>> /\ out[Len(out)] = rec THEN out ELSE Append(out, rec)
      /\ heap' = (heap \ {Top}) \cup (IF more THEN {new} ELSE {})
      /\ pos' = IF more THEN [pos EXCEPT ![i] = @ + 1] ELSE pos
      /\ pc' = "merge" /\ UNCHANGED <<buf, chunks, rows>>
  BY <1>0 DEF Pop
<1>10. more => c[pos[i]] \in Hashes /\ c[pos[i]] \in Nat /\ rec < c[pos[i]]
  <2>1. SUFFICES ASSUME more PROVE c[pos[i]] \in Hashes /\ c[pos[i]] \in Nat /\ rec < c[pos[i]]
    OBVIOUS
  <2>2. pos[i] \in DOMAIN c /\ pos[i] - 1 \in DOMAIN c /\ pos[i] - 1 < pos[i]
    BY <1>2, <1>7, <2>1
  <2>3. c[pos[i]] \in Hashes
    BY <1>2, <1>7, <2>2
  <2>4. c[pos[i] - 1] < c[pos[i]]
    BY <1>2, <1>7, <2>2 DEF Increasing
  <2> QED
    BY <1>7, <2>3, <2>4, Numbered
<1>11. DOMAIN chunks = 1 .. Len(chunks) /\ pos \in [DOMAIN chunks -> Nat]
  BY <1>1, SeqShape DEF HeapInv
<1>12. \A j \in DOMAIN chunks : pos'[j] = IF more /\ j = i THEN pos[j] + 1 ELSE pos[j]
  BY <1>9, <1>11
<1>13. pos' \in [DOMAIN chunks -> Nat] /\ pos' \in Seq(Nat)
  <2>1. pos' \in [DOMAIN chunks -> Nat]
    BY <1>2, <1>7, <1>9, <1>11
  <2>2. Len(chunks) \in Nat
    BY <1>1, SeqShape
  <2> QED
    BY <1>11, <2>1, <2>2
<1> HIDE DEF i, rec, c, more, new
<1>14. HeapInv'
  <2>1. \A j \in DOMAIN chunks : 2 <= pos'[j] /\ pos'[j] <= Len(chunks[j]) + 1
    BY <1>2, <1>12 DEF more, c
  <2>2. ASSUME NEW e \in heap' PROVE e[2] \in DOMAIN chunks /\ e = <<chunks[e[2]][pos'[e[2]] - 1], e[2]>>
    <3>1. CASE e \in heap \ {Top}
      BY <1>4, <1>8, <1>12, <3>1
    <3>2. CASE more /\ e = new
      <4>1. pos'[i] - 1 = pos[i]
        BY <1>2, <1>7, <1>12, <3>2
      <4> QED
        BY <1>7, <3>2, <4>1 DEF new, c
    <3> QED
      BY <1>9, <3>1, <3>2
  <2>3. ASSUME NEW j \in DOMAIN chunks, pos'[j] <= Len(chunks[j])
        PROVE  <<chunks[j][pos'[j] - 1], j>> \in heap'
    <3>1. CASE j = i
      <4>1. more
        BY <1>12, <2>3, <3>1 DEF more, c
      <4>2. pos'[i] - 1 = pos[i]
        BY <1>2, <1>7, <1>12, <4>1
      <4> QED
        BY <1>9, <3>1, <4>1, <4>2 DEF new, c
    <3>2. CASE j # i
      <4>1. pos'[j] = pos[j]
        BY <1>12, <3>2
      <4>2. <<chunks[j][pos[j] - 1], j>> \in heap
        BY <1>1, <2>3, <4>1 DEF HeapInv
      <4>3. <<chunks[j][pos[j] - 1], j>> # Top
        BY <1>7, <3>2
      <4> QED
        BY <1>9, <4>1, <4>2, <4>3
    <3> QED
      BY <3>1, <3>2
  <2> QED
    BY <1>9, <1>13, <2>1, <2>2, <2>3 DEF HeapInv
<1>15. /\ out' \in Seq(Hashes) /\ Increasing(out') /\ out' # <<>> /\ out'[Len(out')] = rec
       /\ Elems(out') = Elems(out) \cup {rec}
  <2>1. Increasing(out) /\ (out # <<>> => out[Len(out)] <= rec)
    BY <1>1, <1>6 DEF MergeInv, rec
  <2>2. Len(out) \in Nat /\ DOMAIN out = 1 .. Len(out) /\ (Len(out) = 0 <=> out = <<>>)
    BY <1>1, SeqShape
  <2>3. CASE out # <<>> /\ out[Len(out)] = rec
    <3>1. Len(out) \in DOMAIN out
      BY <2>2, <2>3
    <3>2. rec \in Elems(out)
      BY <2>3, <3>1 DEF Elems
    <3> QED
      BY <1>1, <1>9, <2>1, <2>3, <3>2
  <2>4. CASE ~(out # <<>> /\ out[Len(out)] = rec)
    <3> DEFINE a == Append(out, rec)
    <3>1. out' = a
      BY <1>9, <2>4
    <3>2. /\ a \in Seq(Hashes) /\ Len(a) = Len(out) + 1 /\ a # <<>> /\ a[Len(out) + 1] = rec
          /\ \A n \in DOMAIN out : n \in DOMAIN a /\ a[n] = out[n]
          /\ \A n \in DOMAIN a : n \in DOMAIN out \/ n = Len(out) + 1
          /\ Elems(a) = Elems(out) \cup {rec}
      <4>1. out \in Seq(Hashes) /\ rec \in Hashes
        BY <1>1, <1>7
      <4> HIDE DEF a
      <4>2. ASSUME NEW s \in Seq(Hashes), NEW x \in Hashes
            PROVE  /\ Append(s, x) \in Seq(Hashes) /\ Len(Append(s, x)) = Len(s) + 1
                   /\ Append(s, x) # <<>> /\ Append(s, x)[Len(s) + 1] = x
                   /\ \A n \in DOMAIN s : n \in DOMAIN Append(s, x) /\ Append(s, x)[n] = s[n]
                   /\ \A n \in DOMAIN Append(s, x) : n \in DOMAIN s \/ n = Len(s) + 1
                   /\ Elems(Append(s, x)) = Elems(s) \cup {x}
        BY AppendElems
      <4> QED
        BY <4>1, <4>2 DEF a
    <3> HIDE DEF a
    <3>3. ASSUME NEW n \in DOMAIN out PROVE out[n] < rec
      <4>1. Len(out) \in DOMAIN out /\ out # <<>> /\ n <= Len(out)
        BY <2>2
      <4>2. out[n] <= out[Len(out)] /\ out[n] \in Nat /\ out[Len(out)] \in Nat
        BY <1>1, <2>1, <4>1, InOrder
      <4>3. out[Len(out)] < rec
        BY <1>7, <2>1, <2>4, <4>1, <4>2
      <4> HIDE DEF rec
      <4> QED
        BY <1>7, <4>2, <4>3
    <3>4. ASSUME NEW m \in DOMAIN a, NEW n \in DOMAIN a, m < n PROVE a[m] < a[n]
      <4>1. m \in DOMAIN out
        <5>1. m \in DOMAIN out \/ m = Len(out) + 1
          BY <3>2
        <5>2. n \in DOMAIN out \/ n = Len(out) + 1
          BY <3>2
        <5>3. n \in Nat /\ n <= Len(out) + 1
          BY <2>2, <5>2
        <5> QED
          BY <2>2, <3>4, <5>1, <5>3
      <4>2. CASE n \in DOMAIN out
        BY <2>1, <3>2, <3>4, <4>1, <4>2 DEF Increasing
      <4>3. CASE n = Len(out) + 1
        BY <3>2, <3>3, <4>1, <4>3
      <4> QED
        BY <3>2, <4>2, <4>3
    <3>5. Increasing(a)
      BY <3>4 DEF Increasing
    <3> QED
      BY <3>1, <3>2, <3>5
  <2> QED
    BY <2>3, <2>4
<1>16. \A e \in heap' : rec <= e[1]
  <2>1. ASSUME NEW e \in heap' PROVE rec <= e[1]
    <3>1. CASE e \in heap
      BY <1>6, <3>1 DEF rec
    <3>2. CASE more /\ e = new
      <4>1. e[1] = c[pos[i]]
        BY <3>2 DEF new
      <4> QED
        BY <1>7, <1>10, <3>2, <4>1
    <3> QED
      BY <1>9, <3>1, <3>2
  <2> QED
    BY <2>1
<1>17. Elems(out') \cup Coming' = Elems(out) \cup Coming
  <2>1. \A j \in DOMAIN chunks : j # i \/ ~more => Unread(j)' = Unread(j)
    BY <1>9, <1>12 DEF Unread
  <2>2. ASSUME NEW j \in DOMAIN chunks, j = i, more
        PROVE  Unread(j) = Unread(j)' \cup {c[pos[i]]}
    <3>1. pos'[j] = pos[j] + 1 /\ pos[j] \in Nat /\ Len(chunks[j]) \in Nat /\ pos[j] <= Len(chunks[j])
      BY <1>2, <1>12, <2>2 DEF more, c
    <3>2. pos[j] .. Len(chunks[j]) = {pos[j]} \cup ((pos[j] + 1) .. Len(chunks[j]))
      BY <3>1
    <3>3. /\ Unread(j) = {chunks[j][n] : n \in pos[j] .. Len(chunks[j])}
          /\ Unread(j)' = {chunks[j][n] : n \in (pos[j] + 1) .. Len(chunks[j])}
      BY <1>9, <3>1 DEF Unread
    <3>4. c[pos[i]] = chunks[j][pos[j]]
      BY <2>2 DEF c
    <3> QED
      BY <3>2, <3>3, <3>4
  <2> DEFINE before == UNION {Unread(j) : j \in DOMAIN chunks}
             after == UNION {Unread(j)' : j \in DOMAIN chunks}
             read == IF more THEN {c[pos[i]]} ELSE {}
  <2>3. \A j \in DOMAIN chunks : Unread(j) \subseteq Unread(j)' \cup read /\ Unread(j)' \subseteq Unread(j)
    BY <2>1, <2>2
  <2>4. before = after \cup read
    <3>1. more => c[pos[i]] \in before
      <4>1. SUFFICES ASSUME more PROVE c[pos[i]] \in before
        OBVIOUS
      <4>2. PICK j \in DOMAIN chunks : j = i
        BY <1>7
      <4>3. c[pos[i]] \in Unread(j)
        BY <2>2, <4>1, <4>2
      <4> QED
        BY <4>3
    <3>2. before \subseteq after \cup read
      BY <2>3
    <3>3. after \subseteq before
      BY <2>3
    <3> QED
      BY <3>1, <3>2, <3>3
  <2>5. {e[1] : e \in heap} \cup (IF more THEN {c[pos[i]]} ELSE {}) = {e[1] : e \in heap'} \cup {rec}
    <3>1. \A e \in heap : e \in heap' \/ e[1] = rec
      BY <1>9 DEF rec
    <3>2. \A e \in heap' : e \in heap \/ (more /\ e[1] = c[pos[i]])
      BY <1>9 DEF new
    <3>3. more => \E e \in heap' : e[1] = c[pos[i]]
      <4>1. new[1] = c[pos[i]]
        BY DEF new
      <4> QED
        BY <1>9, <4>1
    <3>4. \E e \in heap : e[1] = rec
      BY <1>6 DEF rec
    <3>5. {e[1] : e \in heap} \cup (IF more THEN {c[pos[i]]} ELSE {}) \subseteq {e[1] : e \in heap'} \cup {rec}
      BY <3>1, <3>3
    <3>6. {e[1] : e \in heap'} \cup {rec} \subseteq {e[1] : e \in heap} \cup (IF more THEN {c[pos[i]]} ELSE {})
      BY <3>2, <3>4
    <3> QED
      BY <3>5, <3>6
  <2>6. Coming = {e[1] : e \in heap} \cup before
    BY DEF Coming
  <2>7. Coming' = {e[1] : e \in heap'} \cup after
    BY <1>9 DEF Coming
  <2>8. Elems(out') = Elems(out) \cup {rec}
    BY <1>15
  <2> HIDE DEF before, after, read
  <2>9. {e[1] : e \in heap} \cup read = {e[1] : e \in heap'} \cup {rec}
    BY <2>5 DEF read
  <2>10. rec \in {e[1] : e \in heap}
    BY <1>6 DEF rec
  <2> QED
    BY <2>4, <2>6, <2>7, <2>8, <2>9, <2>10
<1>18. MergeInv'
  BY <1>1, <1>9, <1>14, <1>15, <1>16, <1>17 DEF MergeInv
<1> QED
  BY <1>9, <1>13, <1>15, <1>18

\* The merge goes on while the heap has records, and then the keys are in order.
LEMMA PopKeeps ==
  ASSUME IndexInv, Pop
  PROVE  IndexInv'
<1> USE DEF IndexInv
<1>1. BasicInv' /\ FileInv' /\ DbInv' /\ QueryInv'
  BY DEF BasicInv, FileInv, DbInv, QueryInv, Pop, Places
<1>2. CASE heap = {}
  <2>1. /\ pc' = "build" /\ UNCHANGED <<pos, heap, out, buf, chunks, rows>>
    BY <1>2 DEF Pop
  <2>2. MergeInv /\ Sound(chunks) /\ out \in Seq(Hashes)
    BY DEF ImportInv, Pop
  <2>3. SortedKeys(out, rows)
    BY <1>2, <2>2, NothingComes DEF SortedKeys, MergeInv
  <2> QED
    BY <1>1, <1>2, <2>1, <2>3 DEF ImportInv
<1>3. CASE heap # {}
  <2>1. /\ MergeInv' /\ pos' \in Seq(Nat) /\ out' \in Seq(Hashes) /\ pc' = "merge"
        /\ UNCHANGED <<buf, chunks, rows>>
    BY <1>3, PopMerges
  <2>2. buf' \in Seq(Hashes) /\ Sound(chunks)' /\ rows' \subseteq Hashes
    BY <2>1 DEF ImportInv, Sound
  <2>3. ImportInv'
    BY <2>1, <2>2 DEF ImportInv
  <2> QED
    BY <1>1, <2>3
<1> QED
  BY <1>2, <1>3

LEMMA Forgotten ==
  ASSUME Forget, pc' \in {"load", "ready"}
  PROVE  ImportInv'
BY NothingImported DEF Forget, ImportInv

\* The snapshot is of the rows, and so are its keys.
LEMMA BuildKeeps ==
  ASSUME IndexInv, Build
  PROVE  IndexInv'
<1> USE DEF IndexInv
<1>1. BasicInv' /\ DbInv' /\ QueryInv'
  BY DEF BasicInv, DbInv, QueryInv, Build, Places
<1>2. FileInv'
  <2>1. SortedKeys(out, rows) /\ rows \subseteq Hashes /\ cfg.bits_per_key \in 8 .. 32
    BY DEF ImportInv, Build, BasicInv, Sane
  <2>2. SnapshotOf(Plh2(out, cfg.bits_per_key), rows)
    BY <2>1, OpenedPlh2
  <2> QED
    BY <2>1, <2>2 DEF FileInv, Build
<1>3. ImportInv'
  BY Forgotten DEF Build
<1> QED
  BY <1>1, <1>2, <1>3

LEMMA MigrateKeeps ==
  ASSUME IndexInv, Migrate
  PROVE  IndexInv'
<1> USE DEF IndexInv
<1>1. BasicInv' /\ QueryInv'
  BY DEF BasicInv, QueryInv, Migrate, Places
<1>2. /\ Elems(buf) \in SUBSET Hashes /\ rows = Elems(buf) /\ keys' = rows
      /\ cfg.bits_per_key \in 8 .. 32 /\ cfg.lookup \in {"sorted", "hash"}
  <2>1. Elems(buf) \in SUBSET Hashes
    <3>1. buf \in Seq(Hashes)
      BY DEF ImportInv
    <3> QED
      BY <3>1 DEF Elems
  <2> QED
    BY <2>1 DEF ImportInv, FileInv, BasicInv, Sane, Migrate
<1>3. FileInv'
  <2>1. SnapshotOf(Plh2(Sort[Elems(buf)], cfg.bits_per_key), Elems(buf))
    BY <1>2, SortedByLibrary, OpenedPlh2
  <2> QED
    BY <1>2, <2>1 DEF FileInv, Migrate
<1>4. DbInv'
  <2>1. DbOf(InMemory(Elems(buf), cfg.lookup), Elems(buf))
        /\ InMemory(Elems(buf), cfg.lookup).lookup = cfg.lookup
    BY <1>2, InMemoryDb
  <2> QED
    BY <1>2, <2>1 DEF DbInv, Migrate
<1>5. ImportInv'
  BY Forgotten DEF Migrate
<1> QED
  BY <1>1, <1>3, <1>4, <1>5

-----------------------------------------------------------------------------
\* The steps of a process

\* A snapshot, converted when it is of the first format.
LEMMA Converted ==
  ASSUME NEW f, NEW K, SnapshotOf(f, K), NEW bits \in 8 .. 32
  PROVE  LET g == IF f.format = "plh1" THEN Plh2(f.recs, bits) ELSE f
         IN \E recs, b : SortedKeys(recs, K) /\ b \in 8 .. 32 /\ g = Plh2(recs, b)
<1>1. PICK recs : /\ SortedKeys(recs, K)
                  /\ \/ f = [format |-> "plh1", recs |-> recs]
                     \/ \E b \in 8 .. 32 : f = Plh2(recs, b)
  BY DEF SnapshotOf
<1>2. CASE f = [format |-> "plh1", recs |-> recs]
  <2>1. f.format = "plh1" /\ f.recs = recs
    BY <1>2
  <2> QED
    BY <1>1, <2>1
<1>3. CASE \E b \in 8 .. 32 : f = Plh2(recs, b)
  <2>1. PICK b \in 8 .. 32 : f = Plh2(recs, b)
    BY <1>3
  <2>2. f.format = "plh2"
    BY <1>1, <2>1, OpenedPlh2
  <2> QED
    BY <1>1, <2>1, <2>2
<1> QED
  BY <1>1, <1>2, <1>3

LEMMA LoadKeeps ==
  ASSUME IndexInv, Load
  PROVE  IndexInv'
<1> USE DEF IndexInv
<1> DEFINE bits == cfg.bits_per_key
           f1 == IF file.format = "plh1" THEN Plh2(file.recs, bits) ELSE file
<1>1. BasicInv' /\ QueryInv'
  BY DEF BasicInv, QueryInv, Load, Places
<1>2. ImportInv'
  BY ImportRests DEF Load
<1>3. bits \in 8 .. 32 /\ cfg.lookup \in {"mmap", "sorted", "hash"} /\ keys \subseteq Hashes
  BY DEF BasicInv, Sane, FileInv
<1>4. SnapshotOf(file, keys)
  BY DEF FileInv, Load
<1>5. pc' = "ready" /\ UNCHANGED <<cfg, keys>>
  BY DEF Load
<1>6. CASE cfg.lookup = "mmap" 
  <2>1. /\ file' = IF OpenPlh2(f1).bloom.per # bits THEN Plh2(f1.recs, bits) ELSE f1
        /\ db' = OpenPlh2(file')
    BY <1>6 DEF Load
  <2>2. PICK recs, b : SortedKeys(recs, keys) /\ b \in 8 .. 32 /\ f1 = Plh2(recs, b)
    BY <1>3, <1>4, Converted
  <2> HIDE DEF f1
  <2>3. f1.recs = recs /\ OpenPlh2(f1).bloom.per = b
    BY <2>2, OpenedPlh2
  <2>4. file' = Plh2(recs, bits)
    BY <2>1, <2>2, <2>3
  <2> HIDE DEF bits
  <2>5. SnapshotOf(file', keys) /\ DbOf(db', keys) /\ db'.lookup = "mmap" /\ db'.bloom.per = bits
    BY <1>3, <2>1, <2>2, <2>4, OpenedPlh2
  <2> QED
    BY <1>1, <1>2, <1>3, <1>5, <1>6, <2>5 DEF FileInv, DbInv, bits
<1>7. CASE cfg.lookup # "mmap" 
  <2>1. file' = f1 /\ db' = InMemory(Elems(f1.recs), cfg.lookup)
    BY <1>7 DEF Load
  <2>2. PICK recs, b : SortedKeys(recs, keys) /\ b \in 8 .. 32 /\ f1 = Plh2(recs, b)
    BY <1>3, <1>4, Converted
  <2> HIDE DEF f1
  <2>3. SnapshotOf(file', keys) /\ Elems(f1.recs) = keys
    BY <2>1, <2>2, OpenedPlh2 DEF SortedKeys
  <2>4. DbOf(db', keys) /\ db'.lookup = cfg.lookup
    BY <1>3, <1>7, <2>1, <2>3, InMemoryDb
  <2> QED
    BY <1>1, <1>2, <1>3, <1>5, <1>7, <2>3, <2>4 DEF FileInv, DbInv
<1> QED
  BY <1>6, <1>7

-----------------------------------------------------------------------------
\* The steps of a lookup

\* What is not about the lookup stays.
LEMMA LookupLeaves ==
  ASSUME IndexInv, UNCHANGED <<pickles, cfg, import, file, db, keys, imports>>,
         pc \in {"ready", "search", "answer"}, pc' \in {"ready", "search", "answer"}
  PROVE  BasicInv' /\ FileInv' /\ DbInv' /\ ImportInv'
<1> USE DEF IndexInv
<1>1. BasicInv' /\ FileInv' /\ DbInv'
  BY DEF BasicInv, FileInv, DbInv, Places
<1>2. ImportInv'
  BY ImportRests
<1> QED
  BY <1>1, <1>2

LEMMA Answered ==
  ASSUME NEW key \in Hashes, NEW found \in BOOLEAN, NEW failed \in BOOLEAN,
         Answer(key, found, failed), UNCHANGED keys, ~failed => (found <=> key \in keys)
  PROVE  QueryInv' /\ pc' = "answer"
BY DEF Answer, QueryInv, AnswerInv

LEMMA Searching ==
  ASSUME NEW key \in Hashes, NEW off \in Nat, NEW lo \in Nat, NEW hi \in Nat, NEW turns \in Nat,
         q' = [place |-> "search", key |-> key, off |-> off, lo |-> lo, hi |-> hi, turns |-> turns],
         pc' = "search", UNCHANGED <<db, keys>>, db.lookup = "mmap", off + hi <= Len(db.recs),
         key \in keys => \E i \in Nat : lo <= i /\ i < hi /\ db.recs[off + i + 1] = key
  PROVE  QueryInv'
<1>1. SearchInv'
  BY DEF SearchInv
<1> QED
  BY <1>1 DEF QueryInv

\* The filter has every key, and the bucket has it if the snapshot does.
LEMMA ContainsKeeps ==
  ASSUME IndexInv, NEW key \in Hashes, Contains(key)
  PROVE  IndexInv'
<1> USE DEF IndexInv
<1> DEFINE b == BucketOf(key)
           range == db.index[b]
<1>1. pc = "ready" /\ DbOf(db, keys) /\ SortedKeys(db.recs, keys)
  BY DEF DbInv, Contains, DbOf
<1>2. UNCHANGED <<pickles, cfg, import, file, db, keys, imports>>
  BY DEF Contains
<1>3. CASE db.lookup # "mmap"
  <2>1. Answer(key, key \in Elems(db.recs), FALSE) /\ Elems(db.recs) = keys
    BY <1>1, <1>3 DEF Contains, SortedKeys
  <2>2. CASE key \in keys
    <3>1. (key \in Elems(db.recs)) = TRUE
      BY <2>1, <2>2
    <3>2. Answer(key, TRUE, FALSE)
      BY <2>1, <3>1, Zenon DEF Answer
    <3> QED
      BY <1>1, <1>2, <2>2, <3>2, Answered, LookupLeaves
  <2>3. CASE key \notin keys
    <3>1. (key \in Elems(db.recs)) = FALSE
      BY <2>1, <2>3
    <3>2. Answer(key, FALSE, FALSE)
      BY <2>1, <3>1, Zenon DEF Answer
    <3> QED
      BY <1>1, <1>2, <2>3, <3>2, Answered, LookupLeaves
  <2> QED
    BY <2>2, <2>3
<1>4. CASE db.lookup = "mmap"
  <2>1. b \in Buckets
    BY IndexAssumption DEF BucketOf
  <2>2. PICK off \in Nat, n \in Nat :
           /\ range = <<off, n>> /\ off + n <= Len(db.recs)
           /\ \A i \in DOMAIN db.recs : BucketOf(db.recs[i]) = b <=> off < i /\ i <= off + n
    <3>1. db.index = IndexOf(db.recs) /\ db.recs \in Seq(Hashes) /\ Increasing(db.recs)
      BY <1>1, <1>4 DEF DbOf, SortedKeys
    <3> HIDE DEF b
    <3> QED
      BY <2>1, <3>1, IndexFinds
  <2>3. key \in keys => \E i \in Nat : 0 <= i /\ i < n /\ db.recs[off + i + 1] = key
    <3>1. SUFFICES ASSUME key \in keys PROVE \E i \in Nat : 0 <= i /\ i < n /\ db.recs[off + i + 1] = key
      OBVIOUS
    <3>2. PICK j \in DOMAIN db.recs : db.recs[j] = key
      BY <1>1, <3>1 DEF SortedKeys, Elems
    <3>3. j \in Nat
      <4>1. db.recs \in Seq(Hashes)
        BY <1>1 DEF SortedKeys
      <4> QED
        BY <4>1, SeqShape
    <3>4. off < j /\ j <= off + n
      BY <2>2, <3>2
    <3>5. j - off - 1 \in Nat /\ j - off - 1 < n /\ off + (j - off - 1) + 1 = j
      BY <3>3, <3>4
    <3> QED
      BY <3>2, <3>5
  <2>4. range[1] = off /\ range[2] = n
    BY <2>2
  <2>5. CASE ~MaybeContains(db.bloom, key) \/ range[2] = 0
    <3>1. Answer(key, FALSE, FALSE)
      BY <1>4, <2>5 DEF Contains
    <3>2. key \notin keys
      BY <1>1, <1>4, <2>3, <2>4, <2>5 DEF DbOf
    <3>3. QueryInv' /\ pc' = "answer"
      BY <1>2, <3>1, <3>2, Answered
    <3> QED
      BY <1>1, <1>2, <3>3, LookupLeaves
  <2>6. CASE ~(~MaybeContains(db.bloom, key) \/ range[2] = 0)
    <3>1. \/ /\ pc' = "search"
             /\ q' = [place |-> "search", key |-> key, off |-> off, lo |-> 0, hi |-> n, turns |-> 0]
          \/ Answer(key, FALSE, TRUE)
      BY <1>4, <2>4, <2>6 DEF Contains
    <3>2. CASE Answer(key, FALSE, TRUE)
      <4>1. QueryInv' /\ pc' = "answer"
        BY <1>2, <3>2, Answered
      <4> QED
        BY <1>1, <1>2, <4>1, LookupLeaves
    <3>3. CASE /\ pc' = "search"
               /\ q' = [place |-> "search", key |-> key, off |-> off, lo |-> 0, hi |-> n, turns |-> 0]
      <4>1. QueryInv'
        BY <1>2, <1>4, <2>2, <2>3, <3>3, Searching
      <4> QED
        BY <1>1, <1>2, <3>3, <4>1, LookupLeaves
    <3> QED
      BY <3>1, <3>2, <3>3
  <2> QED
    BY <2>5, <2>6
<1> QED
  BY <1>3, <1>4

\* What one look at the middle tells of the rest.
LEMMA HalfIsLeft ==
  ASSUME NEW lo \in Nat, NEW hi \in Nat, lo < hi
  PROVE  LET mid == (lo + hi) \div 2 IN mid \in Nat /\ lo <= mid /\ mid < hi
OBVIOUS

LEMMA ProbeKeeps ==
  ASSUME IndexInv, Probe
  PROVE  IndexInv'
<1> USE DEF IndexInv
<1>1. pc = "search" /\ SearchInv /\ db.lookup = "mmap" /\ DbOf(db, keys)
  BY DEF Probe, QueryInv, DbInv
<1>2. UNCHANGED <<pickles, cfg, import, file, db, keys, imports>>
  BY DEF Probe
<1>3. PICK key \in Hashes, off \in Nat, lo \in Nat, hi \in Nat, turns \in Nat :
    /\ q = [place |-> "search", key |-> key, off |-> off, lo |-> lo, hi |-> hi, turns |-> turns]
    /\ off + hi <= Len(db.recs)
    /\ key \in keys => \E i \in Nat : lo <= i /\ i < hi /\ db.recs[off + i + 1] = key
  BY <1>1 DEF SearchInv
<1>4. q.key = key /\ q.lo = lo /\ q.hi = hi /\ q.off = off
  BY <1>3
<1>5. db.recs \in Seq(Hashes) /\ Increasing(db.recs) /\ Elems(db.recs) = keys
  BY <1>1 DEF DbOf, SortedKeys
<1>6. Len(db.recs) \in Nat /\ DOMAIN db.recs = 1 .. Len(db.recs)
  BY <1>5, SeqShape
<1>7. CASE lo >= hi
  <2>1. Answer(key, FALSE, FALSE)
    BY <1>4, <1>7 DEF Probe
  <2>2. key \notin keys
    BY <1>3, <1>7
  <2>3. QueryInv' /\ pc' = "answer"
    BY <1>2, <2>1, <2>2, Answered
  <2> QED
    BY <1>1, <1>2, <2>3, LookupLeaves
<1>8. CASE ~(lo >= hi)
  <2> DEFINE mid == (lo + hi) \div 2
             rec == db.recs[off + mid + 1]
  <2>1. mid \in Nat /\ lo <= mid /\ mid < hi
    BY <1>8, HalfIsLeft
  <2>2. IF rec = key THEN Answer(key, TRUE, FALSE)
        ELSE q' = [Narrow(mid, rec < key) EXCEPT !.turns = @ + 1] /\ pc' = pc
    BY <1>4, <1>8 DEF Probe
  <2> HIDE DEF mid
  <2>3. off + mid + 1 \in DOMAIN db.recs
    BY <1>3, <1>6, <2>1
  <2>4. CASE rec = key
    <3>1. key \in keys
      BY <1>5, <2>3, <2>4 DEF Elems
    <3>2. QueryInv' /\ pc' = "answer"
      BY <1>2, <2>2, <2>4, <3>1, Answered
    <3> QED
      BY <1>1, <1>2, <3>2, LookupLeaves
  <2>5. CASE rec # key
    <3>1. ASSUME NEW i \in Nat, lo <= i, i < hi, db.recs[off + i + 1] = key
          PROVE  IF rec < key THEN mid < i ELSE i < mid
      <4>1. off + i + 1 \in DOMAIN db.recs
        BY <1>3, <1>6, <3>1
      <4>2. /\ rec \in Nat /\ key \in Nat
            /\ rec < key => off + mid + 1 < off + i + 1
            /\ key < rec => off + i + 1 < off + mid + 1
        BY <1>5, <2>3, <3>1, <4>1, InOrder
      <4>3. CASE rec < key
        <5>1. off + mid + 1 < off + i + 1
          BY <4>2, <4>3
        <5> QED
          BY <2>1, <4>3, <5>1
      <4>4. CASE ~(rec < key)
        <5>1. key < rec
          BY <2>5, <4>2, <4>4
        <5>2. off + i + 1 < off + mid + 1
          BY <4>2, <5>1
        <5> QED
          BY <2>1, <4>4, <5>2
      <4> QED
        BY <4>3, <4>4
    <3>2. q' = [place |-> "search", key |-> key, off |-> off,
                lo |-> IF rec < key THEN mid + 1 ELSE lo, hi |-> IF rec < key THEN hi ELSE mid,
                turns |-> turns + 1]
      BY <1>3, <2>2, <2>5 DEF Narrow
    <3> HIDE DEF rec
    <3>3. CASE rec < key
      <4>1. q' = [place |-> "search", key |-> key, off |-> off, lo |-> mid + 1, hi |-> hi, turns |-> turns + 1]
        BY <3>2, <3>3
      <4>2. key \in keys => \E i \in Nat : mid + 1 <= i /\ i < hi /\ db.recs[off + i + 1] = key
        <5>1. ASSUME NEW i \in Nat, lo <= i, i < hi, db.recs[off + i + 1] = key PROVE mid + 1 <= i
          BY <2>1, <3>1, <3>3, <5>1
        <5> QED
          BY <1>3, <5>1
      <4>3. pc' = "search"
        BY <1>1, <2>2, <2>5 DEF rec
      <4>4. mid + 1 \in Nat /\ turns + 1 \in Nat
        BY <2>1
      <4>5. QueryInv'
        BY <1>1, <1>2, <1>3, <4>1, <4>2, <4>3, <4>4, Searching
      <4> QED
        BY <1>1, <1>2, <4>3, <4>5, LookupLeaves
    <3>4. CASE ~(rec < key)
      <4>1. q' = [place |-> "search", key |-> key, off |-> off, lo |-> lo, hi |-> mid, turns |-> turns + 1]
        BY <3>2, <3>4
      <4>2. key \in keys => \E i \in Nat : lo <= i /\ i < mid /\ db.recs[off + i + 1] = key
        <5>1. ASSUME NEW i \in Nat, lo <= i, i < hi, db.recs[off + i + 1] = key PROVE i < mid
          BY <2>1, <3>1, <3>4, <5>1
        <5> QED
          BY <1>3, <5>1
      <4>3. off + mid <= Len(db.recs)
        BY <1>3, <1>6, <2>1
      <4>4. pc' = "search"
        BY <1>1, <2>2, <2>5 DEF rec
      <4>5. turns + 1 \in Nat
        OBVIOUS
      <4>6. QueryInv'
        BY <1>1, <1>2, <2>1, <4>1, <4>2, <4>3, <4>4, <4>5, Searching
      <4> QED
        BY <1>1, <1>2, <4>4, <4>6, LookupLeaves
    <3> QED
      BY <3>3, <3>4
  <2> QED
    BY <2>4, <2>5
<1> QED
  BY <1>7, <1>8

LEMMA ReplyKeeps ==
  ASSUME IndexInv, Reply
  PROVE  IndexInv'
<1>1. BasicInv' /\ FileInv' /\ DbInv' /\ ImportInv'
  BY LookupLeaves DEF Reply
<1>2. QueryInv'
  BY DEF QueryInv, Reply
<1> QED
  BY <1>1, <1>2 DEF IndexInv

-----------------------------------------------------------------------------
\* The theorems

LEMMA IndexNext == IndexInv /\ [Next]_vars => IndexInv'
<1> SUFFICES ASSUME IndexInv, [Next]_vars PROVE IndexInv'
  OBVIOUS
<1>1. CASE UNCHANGED vars
  <2>1. BasicInv' /\ FileInv' /\ DbInv'
    BY <1>1 DEF vars, IndexInv, BasicInv, FileInv, DbInv
  <2>2. HeapInv' = HeapInv /\ Coming' = Coming
    BY <1>1 DEF vars, import, HeapInv, Coming, Unread
  <2>3. ImportInv'
    BY <1>1, <2>2 DEF vars, import, IndexInv, ImportInv, MergeInv
  <2>4. QueryInv'
    BY <1>1 DEF vars, IndexInv, QueryInv, SearchInv, AnswerInv
  <2> QED
    BY <2>1, <2>2, <2>3, <2>4 DEF IndexInv
<1>2. CASE Next
  <2>1. CASE \E f \in Files, e \in Envs : Start(f, e)
    BY <2>1, ProcessKeeps
  <2>2. ASSUME NEW h \in Hashes, Push(h) \/ Shard(h) \/ Contains(h) PROVE IndexInv'
    BY <2>2, PushKeeps, ShardKeeps, ContainsKeeps
  <2>3. CASE Refresh \/ OpenPickles
    BY <2>3, StartsImport
  <2>4. CASE EndOfRows
    BY <2>4, EndOfRowsKeeps
  <2>5. CASE Pop
    BY <2>5, PopKeeps
  <2>6. CASE Build
    BY <2>6, BuildKeeps
  <2>7. CASE Migrate
    BY <2>7, MigrateKeeps
  <2>8. CASE Load
    BY <2>8, LoadKeeps
  <2>9. CASE Stop
    BY <2>9, ProcessKeeps
  <2>10. CASE Probe
    BY <2>10, ProbeKeeps
  <2>11. CASE Reply
    BY <2>11, ReplyKeeps
  <2> QED
    BY <1>2, <2>1, <2>2, <2>3, <2>4, <2>5, <2>6, <2>7, <2>8, <2>9, <2>10, <2>11 DEF Next
<1> QED
  BY <1>1, <1>2

\* The invariant that everything here rests on.
THEOREM IndexCorrect == Spec => []IndexInv
BY IndexInit, IndexNext, PTL DEF Spec

\* A merge that keeps its heap loses no row.
LEMMA MergeHolds == IndexInv => MergeLosesNothing
<1> SUFFICES ASSUME IndexInv, pc = "merge"
             PROVE  /\ Increasing(out)
                    /\ out # <<>> => \A h \in Coming : h >= out[Len(out)]
                    /\ \A i \in DOMAIN chunks : Unread(i) # {} => \E e \in heap : e[2] = i
                    /\ Elems(out) \cup Coming = rows
  BY DEF MergeLosesNothing, Coming, Unread
<1>1. MergeInv /\ HeapInv /\ Sound(chunks) /\ out \in Seq(Hashes)
  BY DEF IndexInv, ImportInv, MergeInv
<1>2. \A i \in DOMAIN chunks :
        /\ chunks[i] \in Seq(Hashes) /\ Increasing(chunks[i]) /\ Len(chunks[i]) \in Nat
        /\ DOMAIN chunks[i] = 1 .. Len(chunks[i])
        /\ pos[i] \in Nat /\ 2 <= pos[i]
  <2>1. ASSUME NEW i \in DOMAIN chunks
        PROVE  chunks[i] \in Seq(Hashes) /\ Increasing(chunks[i])
    BY <1>1, SeqShape DEF Sound
  <2> QED
    BY <1>1, <2>1, SeqShape DEF HeapInv
<1>3. ASSUME NEW i \in DOMAIN chunks, NEW h \in Unread(i)
      PROVE  \E e \in heap : e[2] = i /\ e[1] \in Nat /\ h \in Nat /\ e[1] <= h
  <2>1. PICK j \in pos[i] .. Len(chunks[i]) : h = chunks[i][j]
    BY <1>3 DEF Unread
  <2>2. pos[i] <= Len(chunks[i]) /\ j \in DOMAIN chunks[i] /\ pos[i] - 1 \in DOMAIN chunks[i]
        /\ pos[i] - 1 <= j
    BY <1>2
  <2>3. <<chunks[i][pos[i] - 1], i>> \in heap
    BY <1>1, <2>2 DEF HeapInv
  <2>4. chunks[i][pos[i] - 1] \in Nat /\ chunks[i][j] \in Nat /\ chunks[i][pos[i] - 1] <= chunks[i][j]
    BY <1>2, <2>2, InOrder
  <2> QED
    BY <2>1, <2>3, <2>4
<1>4. ASSUME out # <<>>, NEW h \in Coming PROVE h >= out[Len(out)]
  <2>1. out[Len(out)] \in Nat
    <3>1. Len(out) \in DOMAIN out
      BY <1>1, <1>4, SeqShape
    <3> QED
      BY <1>1, <3>1, InOrder DEF MergeInv
  <2>2. \A e \in heap : out[Len(out)] <= e[1]
    BY <1>1, <1>4 DEF MergeInv
  <2>3. CASE h \in {e[1] : e \in heap}
    BY <2>2, <2>3
  <2>4. CASE \E i \in DOMAIN chunks : h \in Unread(i)
    <3>1. PICK e \in heap : e[1] \in Nat /\ h \in Nat /\ e[1] <= h
      BY <1>3, <2>4
    <3> QED
      BY <2>1, <2>2, <3>1
  <2> QED
    BY <1>4, <2>3, <2>4 DEF Coming
<1>5. ASSUME NEW i \in DOMAIN chunks, Unread(i) # {} PROVE \E e \in heap : e[2] = i
  BY <1>3, <1>5
<1> QED
  BY <1>1, <1>4, <1>5 DEF MergeInv

LEMMA TypesHold == IndexInv => TypeOK
<1> SUFFICES ASSUME IndexInv PROVE TypeOK
  OBVIOUS
<1> USE DEF IndexInv
<1>1. pc \in Places /\ pickles \in BOOLEAN /\ imports \in 0 .. MaxImports /\ DOMAIN cfg = DOMAIN Default
  BY DEF BasicInv, Sane
<1>2. /\ buf \in Seq(Hashes) /\ out \in Seq(Hashes) /\ chunks \in Seq(Seq(Hashes)) /\ pos \in Seq(Nat)
      /\ rows \subseteq Hashes /\ keys \subseteq Hashes
  BY DEF ImportInv, Sound, FileInv
<1>3. heap \subseteq Hashes \X DOMAIN chunks
  <2>1. CASE pc # "merge"
    BY <2>1 DEF ImportInv
  <2>2. CASE pc = "merge"
    <3>1. HeapInv
      BY <2>2 DEF ImportInv, MergeInv
    <3>2. ASSUME NEW e \in heap PROVE e \in Hashes \X DOMAIN chunks
      <4>1. e[2] \in DOMAIN chunks /\ e = <<chunks[e[2]][pos[e[2]] - 1], e[2]>>
        BY <3>1 DEF HeapInv
      <4>2. chunks[e[2]] \in Seq(Hashes)
        BY <1>2, <4>1, SeqShape
      <4>3. pos[e[2]] \in Nat /\ 2 <= pos[e[2]] /\ pos[e[2]] <= Len(chunks[e[2]]) + 1
        BY <3>1, <4>1 DEF HeapInv
      <4>4. pos[e[2]] - 1 \in DOMAIN chunks[e[2]]
        BY <4>2, <4>3, SeqShape
      <4>5. chunks[e[2]][pos[e[2]] - 1] \in Hashes
        BY <4>2, <4>4, SeqShape
      <4> QED
        BY <4>1, <4>5
    <3> QED
      BY <3>2
  <2> QED
    BY <2>1, <2>2
<1>4. file.format \in {"none", "plh1", "plh2"}
  <2>1. CASE file = NoFile
    BY <2>1 DEF NoFile
  <2>2. CASE SnapshotOf(file, keys)
    <3>1. PICK recs : \/ file = [format |-> "plh1", recs |-> recs]
                      \/ \E bits \in 8 .. 32 : file = Plh2(recs, bits)
      BY <2>2 DEF SnapshotOf
    <3>2. \A bits : Plh2(recs, bits).format = "plh2"
      BY DEF Plh2
    <3> QED
      BY <3>1, <3>2
  <2> QED
    BY <2>1, <2>2 DEF FileInv
<1>5. /\ db.lookup \in {"none", "mmap", "sorted", "hash"}
      /\ (pc \in {"ready", "search", "answer"}) <=> (db # NoDb)
  BY DEF DbInv, NoDb, BasicInv, Sane
<1>6. (pc \in {"search", "answer"}) <=> (q.place = pc)
  <2>1. CASE pc = "search"
    BY <2>1 DEF QueryInv, SearchInv
  <2>2. CASE pc = "answer"
    BY <2>2 DEF QueryInv, AnswerInv
  <2>3. CASE pc \notin {"search", "answer"}
    BY <1>1, <2>3 DEF QueryInv, NoQuery, Places
  <2> QED
    BY <2>1, <2>2, <2>3
<1> QED
  BY <1>1, <1>2, <1>3, <1>4, <1>5, <1>6 DEF TypeOK

\* Whatever is imported, configured and looked up, the state has its types.
THEOREM IndexTypeCorrect == Spec => []TypeOK
BY IndexCorrect, TypesHold, PTL

\* For any hashes, chunk size, dump, configuration and mix of the filter: merge_chunks
\* loses no row and writes none twice.
THEOREM MergeCorrect == Spec => []MergeLosesNothing
BY IndexCorrect, MergeHolds, PTL

\* For any of them: a lookup whose read did not fail answers for the dump, through
\* chunks, merge, both formats, filter, index and the search of the bucket.
THEOREM LookupCorrect == Spec => []SearchExact
<1>1. IndexInv => SearchExact
  BY DEF IndexInv, QueryInv, AnswerInv, SearchExact
<1> QED
  BY <1>1, IndexCorrect, PTL

\* For any configuration and snapshot: a start leaves the snapshot with the filter it
\* was configured to have.
THEOREM StartSettles == Spec => []Settled
<1>1. IndexInv => Settled
  BY DEF IndexInv, DbInv, Settled
<1> QED
  BY <1>1, IndexCorrect, PTL

\* For any file and environment: LoadConfig gives a configuration the engine can work with.
THEOREM ConfigUsable == Spec => []Usable
<1>1. IndexInv => Usable
  BY SaneUsable DEF IndexInv, BasicInv, Usable
<1> QED
  BY <1>1, IndexCorrect, PTL

-----------------------------------------------------------------------------
\* Progress of the loops

\* Sorting without duplicates does not make a chunk longer.
LEMMA SortShort ==
  ASSUME NEW b \in Seq(Hashes)
  PROVE  Len(Sort[Elems(b)]) \in Nat /\ Len(Sort[Elems(b)]) <= Len(b)
<1> DEFINE c == Sort[Elems(b)]
           f == [i \in 1 .. Len(c) |-> CHOOSE j \in 1 .. Len(b) : b[j] = c[i]]
<1>1. Elems(b) \in SUBSET Hashes
  BY DEF Elems
<1>2. c \in Seq(Hashes) /\ Increasing(c) /\ Elems(c) = Elems(b)
  BY <1>1, SortAssumption
<1> HIDE DEF c
<1>3. Len(b) \in Nat /\ DOMAIN b = 1 .. Len(b) /\ Len(c) \in Nat /\ DOMAIN c = 1 .. Len(c)
  BY <1>2, SeqShape
<1>4. ASSUME NEW i \in 1 .. Len(c) PROVE f[i] \in 1 .. Len(b) /\ b[f[i]] = c[i]
  <2>1. c[i] \in Elems(b)
    BY <1>2, <1>3 DEF Elems
  <2>2. \E j \in 1 .. Len(b) : b[j] = c[i]
    BY <1>3, <2>1 DEF Elems
  <2> QED
    BY <2>2
<1>5. f \in [1 .. Len(c) -> 1 .. Len(b)]
  BY <1>4
<1>6. ASSUME NEW i \in 1 .. Len(c), NEW j \in 1 .. Len(c), f[i] = f[j] PROVE i = j
  <2>1. c[i] = c[j] /\ c[i] \in Nat
    BY <1>2, <1>3, <1>4, <1>6, InOrder
  <2>2. ~(i < j) /\ ~(j < i)
    BY <1>2, <1>3, <2>1 DEF Increasing
  <2> QED
    BY <1>3, <2>2
<1> HIDE DEF f
<1>7. f \in Injection(1 .. Len(c), 1 .. Len(b))
  BY <1>5, <1>6 DEF Injection, IsInjective
<1>8. Cardinality(1 .. Len(c)) <= Cardinality(1 .. Len(b))
  <2>1. IsFiniteSet(1 .. Len(b))
    BY <1>3, FS_Interval
  <2> QED
    BY <1>7, <2>1, FS_Injection
<1>9. Cardinality(1 .. Len(c)) = Len(c) /\ Cardinality(1 .. Len(b)) = Len(b)
  <2>1. ASSUME NEW n \in Nat PROVE Cardinality(1 .. n) = n
    BY FS_Interval
  <2> QED
    BY <1>3, <2>1
<1> QED
  BY <1>3, <1>8, <1>9 DEF c

\* Buffer and chunks keep within CHUNK_RECORDS.
Short(cs) == \A i \in DOMAIN cs : Len(cs[i]) <= ChunkCap

ShortInv ==
  /\ pc = "scan" => Len(buf) < ChunkCap
  /\ pc \in {"scan", "merge"} => Short(chunks)

LEMMA FlushedShort ==
  ASSUME Sound(chunks), Short(chunks), NEW b \in Seq(Hashes), Len(b) <= ChunkCap
  PROVE  Short(Flushed(b))
<1>1. CASE b = <<>>
  BY <1>1 DEF Flushed
<1>2. CASE b # <<>>
  <2> DEFINE c == Sort[Elems(b)]
             cs == Append(chunks, c)
  <2>1. Elems(b) \in SUBSET Hashes
    BY DEF Elems
  <2>2. c \in Seq(Hashes) /\ Len(c) <= ChunkCap
    <3>1. c \in Seq(Hashes)
      BY <2>1, SortAssumption
    <3>2. Len(b) \in Nat /\ ChunkCap \in Nat
      BY SeqShape, IndexAssumption
    <3> QED
      BY <3>1, <3>2, SortShort
  <2>3. Flushed(b) = cs
    BY <1>2 DEF Flushed
  <2> HIDE DEF c
  <2>4. /\ cs[Len(chunks) + 1] = c /\ \A i \in DOMAIN chunks : cs[i] = chunks[i]
        /\ \A i \in DOMAIN cs : i \in DOMAIN chunks \/ i = Len(chunks) + 1
    BY <2>2, AppendElems DEF Sound
  <2> HIDE DEF cs
  <2> QED
    BY <2>2, <2>3, <2>4 DEF Short
<1> QED
  BY <1>1, <1>2

LEMMA ShortInit == Init => ShortInv
BY DEF Init, ShortInv

LEMMA ShortNext ==
  ASSUME IndexInv, ShortInv, [Next]_vars
  PROVE  ShortInv'
<1>1. CASE UNCHANGED vars
  BY <1>1 DEF vars, import, ShortInv, Short
<1>2. CASE Refresh \/ OpenPickles
  <2>1. buf' = <<>> /\ chunks' = <<>>
    BY <1>2 DEF Refresh, OpenPickles, Begin
  <2> QED
    BY <2>1, IndexAssumption DEF ShortInv, Short
<1>3. ASSUME NEW h \in Hashes, Push(h) PROVE ShortInv'
  <2> DEFINE b == Append(buf, h)
  <2>1. pc = "scan" /\ buf \in Seq(Hashes) /\ Sound(chunks) /\ Short(chunks) /\ Len(buf) < ChunkCap
    BY <1>3 DEF Push, IndexInv, ImportInv, ShortInv
  <2>2. b \in Seq(Hashes) /\ Len(b) = Len(buf) + 1 /\ Len(buf) \in Nat /\ ChunkCap \in Nat \ {0}
    BY <2>1, AppendElems, SeqShape, IndexAssumption
  <2>3. Short(Flushed(b))
    <3>1. b \in Seq(Hashes) /\ Len(b) <= ChunkCap
      BY <2>1, <2>2
    <3> HIDE DEF b
    <3> QED
      BY <2>1, <3>1, FlushedShort
  <2>4. \/ buf' = <<>> /\ chunks' = Flushed(b)
        \/ buf' = b /\ chunks' = chunks /\ ~(Len(b) >= ChunkCap)
    BY <1>3 DEF Push
  <2>5. pc' = "scan"
    BY <1>3 DEF Push
  <2> HIDE DEF b
  <2>6. Short(chunks') /\ Len(buf') < ChunkCap
    BY <2>1, <2>2, <2>3, <2>4
  <2> QED
    BY <2>5, <2>6 DEF ShortInv, Short
<1>4. CASE EndOfRows
  <2>1. pc = "scan" /\ buf \in Seq(Hashes) /\ Sound(chunks) /\ Short(chunks) /\ Len(buf) < ChunkCap
    BY <1>4 DEF EndOfRows, IndexInv, ImportInv, ShortInv
  <2>2. Len(buf) \in Nat /\ ChunkCap \in Nat
    BY <2>1, SeqShape, IndexAssumption
  <2>3. Short(Flushed(buf))
    BY <2>1, <2>2, FlushedShort
  <2>4. chunks' = Flushed(buf) /\ pc' # "scan"
    BY <1>4 DEF EndOfRows
  <2> QED
    BY <2>3, <2>4 DEF ShortInv, Short
<1>5. CASE Pop
  BY <1>5 DEF Pop, ShortInv, Short
<1>6. CASE pc' \notin {"scan", "merge"}
  BY <1>6 DEF ShortInv
<1>7. ASSUME Next, ~(Refresh \/ OpenPickles \/ EndOfRows \/ Pop), \A h \in Hashes : ~Push(h)
      PROVE  pc' \notin {"scan", "merge"}
  BY <1>7 DEF Next, Start, Shard, Contains, Build, Migrate, Load, Stop, Probe, Reply, Answer
<1> QED
  BY <1>1, <1>2, <1>3, <1>4, <1>5, <1>6, <1>7

\* What the merge has yet to write or drop is finite.
Ahead == {c \in (DOMAIN chunks) \X (1 .. ChunkCap) : c[2] \in pos[c[1]] .. Len(chunks[c[1]])}

LEMMA MergeFinite ==
  ASSUME MergeInv, Sound(chunks)
  PROVE  /\ IsFiniteSet(heap) /\ Cardinality(heap) \in Nat
         /\ IsFiniteSet(Ahead) /\ Cardinality(Ahead) \in Nat
<1>1. IsFiniteSet(DOMAIN chunks) /\ IsFiniteSet(1 .. ChunkCap)
  <2>1. Len(chunks) \in Nat /\ DOMAIN chunks = 1 .. Len(chunks) /\ ChunkCap \in Nat
    BY SeqShape, IndexAssumption DEF Sound
  <2> QED
    BY <2>1, FS_Interval
<1>2. IsFiniteSet(heap)
  <2> DEFINE f == [e \in heap |-> e[2]]
  <2>1. \A e \in heap : e[2] \in DOMAIN chunks /\ e = <<chunks[e[2]][pos[e[2]] - 1], e[2]>>
    BY DEF MergeInv, HeapInv
  <2>2. f \in Injection(heap, DOMAIN chunks)
    <3>1. f \in [heap -> DOMAIN chunks]
      BY <2>1
    <3>2. ASSUME NEW d \in heap, NEW e \in heap, f[d] = f[e] PROVE d = e
      <4>1. d[2] = e[2]
        BY <3>2
      <4> QED
        BY <2>1, <4>1
    <3> HIDE DEF f
    <3> QED
      BY <3>1, <3>2 DEF Injection, IsInjective
  <2> QED
    BY <1>1, <2>2, FS_Injection
<1>3. IsFiniteSet(Ahead)
  <2>1. IsFiniteSet((DOMAIN chunks) \X (1 .. ChunkCap))
    BY <1>1, FS_Product
  <2>2. Ahead \in SUBSET ((DOMAIN chunks) \X (1 .. ChunkCap))
    BY DEF Ahead
  <2> QED
    BY <2>1, <2>2, FS_Subset
<1> QED
  BY <1>2, <1>3, FS_CardinalityType

\* A pop takes one record off, or off what is ahead of its reader.
LEMMA PopAdvances ==
  ASSUME IndexInv, ShortInv, Pop, heap # {}
  PROVE  Unmerged' < Unmerged
<1>1. pc = "merge" /\ ImportInv /\ MergeInv /\ HeapInv /\ Sound(chunks) /\ Short(chunks)
  BY DEF Pop, IndexInv, ImportInv, MergeInv, ShortInv
<1>2. MergeInv' /\ UNCHANGED <<buf, chunks, rows>>
  BY <1>1, PopMerges
<1>3. chunks' = chunks /\ Sound(chunks)'
  BY <1>1, <1>2 DEF Sound
<1>4. /\ IsFiniteSet(heap) /\ Cardinality(heap) \in Nat
      /\ IsFiniteSet(Ahead) /\ Cardinality(Ahead) \in Nat
      /\ Cardinality(Ahead') \in Nat
  <2>1. ASSUME MergeInv', Sound(chunks)' PROVE Cardinality(Ahead)' \in Nat
    <3>1. (MergeInv /\ Sound(chunks) => Cardinality(Ahead) \in Nat)'
      BY MergeFinite, PTL
    <3> QED
      BY <2>1, <3>1
  <2> QED
    BY <1>1, <1>2, <1>3, <2>1, MergeFinite
<1>5. \A e \in heap : e[2] \in DOMAIN chunks /\ e = <<chunks[e[2]][pos[e[2]] - 1], e[2]>>
  BY <1>1 DEF HeapInv
<1>6. chunks \in Seq(Seq(Hashes)) /\ pos \in [DOMAIN chunks -> Nat]
      /\ \A j \in DOMAIN chunks : /\ chunks[j] \in Seq(Hashes) /\ Len(chunks[j]) \in Nat
                                  /\ Len(chunks[j]) <= ChunkCap /\ 2 <= pos[j]
  <2>1. chunks \in Seq(Seq(Hashes))
    BY <1>1 DEF Sound
  <2>2. ASSUME NEW j \in DOMAIN chunks PROVE chunks[j] \in Seq(Hashes) /\ Len(chunks[j]) \in Nat
    BY <2>1, SeqShape
  <2> QED
    BY <1>1, <2>1, <2>2 DEF Short, HeapInv
<1>7. heap \subseteq Hashes \X DOMAIN chunks
  <2>1. ASSUME NEW e \in heap PROVE e \in Hashes \X DOMAIN chunks
    <3>1. e[2] \in DOMAIN chunks /\ e = <<chunks[e[2]][pos[e[2]] - 1], e[2]>>
      BY <1>5
    <3>2. pos[e[2]] - 1 \in 1 .. Len(chunks[e[2]])
      BY <1>1, <1>6, <3>1 DEF HeapInv
    <3>3. chunks[e[2]][pos[e[2]] - 1] \in Hashes
      BY <1>6, <3>1, <3>2, SeqShape
    <3> QED
      BY <3>1, <3>3
  <2> QED
    BY <2>1
<1>8. PICK t \in heap : t = Top
  BY <1>6, <1>7, TopIs
<1>9. PICK i \in DOMAIN chunks : i = t[2]
  BY <1>5, <1>8
<1> DEFINE more == pos[i] <= Len(chunks[i])
           new == <<chunks[i][pos[i]], i>>
<1>10. /\ heap' = (heap \ {t}) \cup (IF more THEN {new} ELSE {})
       /\ pos' = IF more THEN [pos EXCEPT ![i] = @ + 1] ELSE pos
  BY <1>8, <1>9 DEF Pop
<1>11. IsFiniteSet(heap \ {t}) /\ Cardinality(heap \ {t}) = Cardinality(heap) - 1
  BY <1>4, FS_RemoveElement
<1>12. Unmerged = Cardinality(heap) + Cardinality(Ahead)
       /\ Unmerged' = Cardinality(heap') + Cardinality(Ahead')
  BY DEF Unmerged, Ahead
<1>13. CASE ~more
  <2>1. heap' = heap \ {t} /\ Ahead' = Ahead
    BY <1>3, <1>10, <1>13 DEF Ahead
  <2> QED
    BY <1>4, <1>11, <1>12, <2>1
<1>14. CASE more
  <2> DEFINE at == <<i, pos[i]>>
  <2>1. Cardinality(heap') = Cardinality(heap)
    <3>1. heap' = (heap \ {t}) \cup {new}
      BY <1>10, <1>14
    <3>2. new \notin heap \ {t}
      <4>1. new[2] = i
        OBVIOUS
      <4>2. \A e \in heap : e[2] = i => e = t
        BY <1>5, <1>9
      <4> QED
        BY <4>1, <4>2
    <3> HIDE DEF new
    <3>3. Cardinality(heap') = Cardinality(heap \ {t}) + 1
      BY <1>11, <3>1, <3>2, FS_AddElement
    <3> QED
      BY <1>4, <1>11, <3>3
  <2>2. at \in Ahead
    <3>1. pos[i] \in Nat /\ pos[i] \in 1 .. ChunkCap /\ pos[i] \in pos[i] .. Len(chunks[i])
      BY <1>6, <1>14, IndexAssumption
    <3> QED
      BY <3>1 DEF Ahead
  <2>3. Ahead' = Ahead \ {at}
    <3>1. \A j \in DOMAIN chunks : pos'[j] = IF j = i THEN pos[j] + 1 ELSE pos[j]
      BY <1>6, <1>10, <1>14
    <3>2. ASSUME NEW c \in (DOMAIN chunks) \X (1 .. ChunkCap)
          PROVE  c[2] \in pos'[c[1]] .. Len(chunks[c[1]])
                   <=> c[2] \in pos[c[1]] .. Len(chunks[c[1]]) /\ c # at
      <4>1. PICK j \in DOMAIN chunks, n \in 1 .. ChunkCap : c = <<j, n>>
        OBVIOUS
      <4>2. n \in Nat /\ pos[j] \in Nat /\ Len(chunks[j]) \in Nat
        BY <1>6, IndexAssumption
      <4>3. c[1] = j /\ c[2] = n /\ (c = at <=> j = i /\ n = pos[i])
        BY <4>1
      <4>4. CASE j = i
        <5>1. n \in (pos[j] + 1) .. Len(chunks[j]) <=> n \in pos[j] .. Len(chunks[j]) /\ n # pos[j]
          BY <4>2
        <5> QED
          BY <3>1, <4>3, <4>4, <5>1
      <4>5. CASE j # i
        BY <3>1, <4>3, <4>5
      <4> QED
        BY <4>4, <4>5
    <3> HIDE DEF at
    <3>3. Ahead' = {c \in (DOMAIN chunks) \X (1 .. ChunkCap) : c[2] \in pos'[c[1]] .. Len(chunks[c[1]])}
      BY <1>3 DEF Ahead
    <3> QED
      BY <3>2, <3>3 DEF Ahead
  <2> HIDE DEF at
  <2>4. Cardinality(Ahead') = Cardinality(Ahead) - 1
    BY <1>4, <2>2, <2>3, FS_RemoveElement
  <2> QED
    BY <1>4, <1>12, <2>1, <2>4
<1> QED
  BY <1>13, <1>14

\* A turn of the search leaves half of what it had.
LEMMA ProbeHalves ==
  ASSUME IndexInv, Probe, pc' = "search"
  PROVE  2 * (q'.hi - q'.lo) <= q.hi - q.lo
<1>1. SearchInv /\ pc = "search"
  BY DEF Probe, IndexInv, QueryInv
<1>2. PICK key \in Hashes, off \in Nat, lo \in Nat, hi \in Nat, turns \in Nat :
         q = [place |-> "search", key |-> key, off |-> off, lo |-> lo, hi |-> hi, turns |-> turns]
  BY <1>1 DEF SearchInv
<1>3. q.lo = lo /\ q.hi = hi
  BY <1>2
<1> DEFINE mid == (lo + hi) \div 2
<1>4. \E below \in BOOLEAN : lo < hi /\ q' = [Narrow(mid, below) EXCEPT !.turns = @ + 1]
  <2>1. lo < hi
    BY <1>3 DEF Probe, Answer
  <2>2. ~(q.lo >= q.hi)
    BY <1>3, <2>1
  <2> DEFINE rec == db.recs[q.off + mid + 1]
  <2>3. q' = [Narrow(mid, rec < q.key) EXCEPT !.turns = @ + 1]
    BY <1>3, <2>2 DEF Probe, Answer
  <2> HIDE DEF rec, mid
  <2>4. CASE rec < q.key
    <3>1. Narrow(mid, rec < q.key) = Narrow(mid, TRUE)
      BY <2>4 DEF Narrow
    <3> QED
      BY <2>1, <2>3, <3>1
  <2>5. CASE ~(rec < q.key)
    <3>1. Narrow(mid, rec < q.key) = Narrow(mid, FALSE)
      BY <2>5 DEF Narrow
    <3> QED
      BY <2>1, <2>3, <3>1
  <2> QED
    BY <2>4, <2>5
<1>5. PICK below \in BOOLEAN : lo < hi /\ q' = [Narrow(mid, below) EXCEPT !.turns = @ + 1]
  BY <1>4
<1>6. mid \in Nat /\ 2 * mid <= lo + hi /\ lo + hi <= 2 * mid + 1
  OBVIOUS
<1> HIDE DEF mid
<1>7. \/ q'.lo = mid + 1 /\ q'.hi = hi
      \/ q'.lo = lo /\ q'.hi = mid
  BY <1>2, <1>5 DEF Narrow
<1> QED
  BY <1>3, <1>5, <1>6, <1>7

Advance ==
  /\ pc = "search" /\ pc' = "search" => 2 * (q'.hi - q'.lo) <= q.hi - q.lo
  /\ pc = "merge" /\ pc' = "merge" => Unmerged' < Unmerged

LEMMA StepAdvances ==
  ASSUME IndexInv, ShortInv, [Next]_vars
  PROVE  [Advance]_vars
<1> SUFFICES ASSUME Next PROVE Advance
  OBVIOUS
<1>1. ASSUME pc = "search", pc' = "search" PROVE 2 * (q'.hi - q'.lo) <= q.hi - q.lo
  <2>1. Probe
    BY <1>1 DEF Next, Start, Push, Shard, Contains, Refresh, OpenPickles, EndOfRows, Pop, Build,
       Migrate, Load, Stop, Reply
  <2> QED
    BY <1>1, <2>1, ProbeHalves
<1>2. ASSUME pc = "merge", pc' = "merge" PROVE Unmerged' < Unmerged
  <2>1. Pop
    BY <1>2 DEF Next, Start, Push, Shard, Contains, Refresh, OpenPickles, EndOfRows, Build,
       Migrate, Load, Stop, Probe, Reply
  <2>2. heap # {}
    BY <1>2, <2>1 DEF Pop
  <2> QED
    BY <2>1, <2>2, PopAdvances
<1> QED
  BY <1>1, <1>2 DEF Advance

\* For any dump and chunk size, and any bucket: every turn of merge_chunks and of the
\* search in DiskDb::contains leaves less to do, so both loops end.
THEOREM LoopsEnd == Spec => LoopsAdvance
<1>1. Init => IndexInv /\ ShortInv
  BY IndexInit, ShortInit
<1>2. IndexInv /\ ShortInv /\ [Next]_vars => (IndexInv /\ ShortInv)'
  BY IndexNext, ShortNext
<1>3. IndexInv /\ ShortInv /\ [Next]_vars => [Advance]_vars
  BY StepAdvances
<1>4. LoopsAdvance <=> [][Advance]_vars
  BY PTL DEF LoopsAdvance, Advance
<1> QED
  BY <1>1, <1>2, <1>3, <1>4, PTL DEF Spec

-----------------------------------------------------------------------------
\* The refinement of FundedSet.  What a caller can tell of files, filter and buckets is
\* a set, and what he can tell of a search its key and its answer.

KeptKeys == IF file = NoFile THEN Nil ELSE Elems(file.recs)
ServedKeys == IF db = NoDb THEN Nil ELSE Elems(db.recs)
AskedKey == IF q = NoQuery THEN Nil ELSE q.key
Said == IF q = NoQuery THEN "none"
        ELSE IF q.place = "search" THEN "open"
        ELSE IF q.failed THEN "error"
        ELSE IF q.found THEN "yes" ELSE "no"

\* The same by the keys the snapshot is of and by where the process is.
View ==
  /\ keys \subseteq Hashes /\ keys # Nil
  /\ KeptKeys = IF file = NoFile THEN Nil ELSE keys
  /\ ServedKeys = IF pc \in {"ready", "search", "answer"} THEN keys ELSE Nil
  /\ pc \notin {"search", "answer"} => AskedKey = Nil /\ Said = "none"
  /\ pc = "search" => AskedKey = q.key /\ Said = "open"
  /\ pc = "answer" =>
       /\ AskedKey = q.key
       /\ Said = IF q.failed THEN "error" ELSE IF q.key \in keys THEN "yes" ELSE "no"

LEMMA SnapshotKeys ==
  ASSUME NEW f, NEW K, SnapshotOf(f, K)
  PROVE  f # NoFile /\ Elems(f.recs) = K
<1>1. PICK recs : /\ SortedKeys(recs, K)
                  /\ \/ f = [format |-> "plh1", recs |-> recs]
                     \/ \E bits \in 8 .. 32 : f = Plh2(recs, bits)
  BY DEF SnapshotOf
<1>2. f.recs = recs /\ f.format \in {"plh1", "plh2"}
  BY <1>1, OpenedPlh2
<1> QED
  BY <1>1, <1>2 DEF SortedKeys, NoFile

LEMMA ViewHolds == IndexInv => View
<1> SUFFICES ASSUME IndexInv PROVE View
  OBVIOUS
<1> USE DEF IndexInv
<1>1. keys \subseteq Hashes /\ keys # Nil
  BY IndexAssumption DEF FileInv
<1>2. KeptKeys = IF file = NoFile THEN Nil ELSE keys
  BY SnapshotKeys DEF FileInv, KeptKeys
<1>3. ServedKeys = IF pc \in {"ready", "search", "answer"} THEN keys ELSE Nil
  <2>1. CASE pc \in {"ready", "search", "answer"}
    <3>1. db.lookup \in {"mmap", "sorted", "hash"} /\ Elems(db.recs) = keys
      BY <2>1 DEF DbInv, DbOf, SortedKeys, BasicInv, Sane
    <3> QED
      BY <2>1, <3>1 DEF ServedKeys, NoDb
  <2>2. CASE pc \notin {"ready", "search", "answer"}
    BY <2>2 DEF DbInv, ServedKeys
  <2> QED
    BY <2>1, <2>2
<1>4. pc \notin {"search", "answer"} => AskedKey = Nil /\ Said = "none"
  BY DEF QueryInv, AskedKey, Said
<1>5. pc = "search" => AskedKey = q.key /\ Said = "open"
  <2> SUFFICES ASSUME pc = "search" PROVE AskedKey = q.key /\ Said = "open"
    OBVIOUS
  <2>1. q.place = "search"
    BY DEF QueryInv, SearchInv
  <2> QED
    BY <2>1 DEF AskedKey, Said, NoQuery
<1>6. pc = "answer" =>
        /\ AskedKey = q.key
        /\ Said = IF q.failed THEN "error" ELSE IF q.key \in keys THEN "yes" ELSE "no"
  <2> SUFFICES ASSUME pc = "answer"
               PROVE  /\ AskedKey = q.key
                      /\ Said = IF q.failed THEN "error" ELSE IF q.key \in keys THEN "yes" ELSE "no"
    OBVIOUS
  <2>1. PICK key \in Hashes, found \in BOOLEAN, failed \in BOOLEAN :
          /\ q = [place |-> "answer", key |-> key, found |-> found, failed |-> failed]
          /\ ~failed => (found <=> key \in keys)
    BY DEF QueryInv, AnswerInv
  <2>2. q.place = "answer" /\ q.key = key /\ q.found = found /\ q.failed = failed
    BY <2>1
  <2> QED
    BY <2>1, <2>2 DEF AskedKey, Said, NoQuery
<1> QED
  BY <1>1, <1>2, <1>3, <1>4, <1>5, <1>6 DEF View

LEMMA ViewNext == IndexInv' => View'
BY ViewHolds, PTL

\* The steps of FundedSet, and none, in these terms.
LEMMA IsBegin ==
  ASSUME Said = "none", rows' = {}, ServedKeys' = Nil, UNCHANGED <<KeptKeys, AskedKey, Said>>
  PROVE  Promise!SNext
BY DEF Promise!SNext, Promise!Begin, KeptKeys, ServedKeys, AskedKey, Said

LEMMA IsGather ==
  ASSUME NEW h \in Hashes, ServedKeys = Nil, rows' = rows \cup {h},
         UNCHANGED <<KeptKeys, ServedKeys, AskedKey, Said>>
  PROVE  Promise!SNext
BY DEF Promise!SNext, Promise!Gather, KeptKeys, ServedKeys, AskedKey, Said

LEMMA IsFinish ==
  ASSUME ServedKeys = Nil, KeptKeys' = rows, rows' = {},
         UNCHANGED <<ServedKeys, AskedKey, Said>>
  PROVE  Promise!SNext
BY DEF Promise!SNext, Promise!Finish, KeptKeys, ServedKeys, AskedKey, Said

LEMMA IsFinishInMemory ==
  ASSUME ServedKeys = Nil, ServedKeys' = rows, KeptKeys' \in {rows, KeptKeys}, rows' = {},
         UNCHANGED <<AskedKey, Said>>
  PROVE  Promise!SNext
BY DEF Promise!SNext, Promise!FinishInMemory, KeptKeys, ServedKeys, AskedKey, Said

LEMMA IsOpen ==
  ASSUME ServedKeys = Nil, KeptKeys # Nil, ServedKeys' = KeptKeys,
         UNCHANGED <<rows, KeptKeys, AskedKey, Said>>
  PROVE  Promise!SNext
BY DEF Promise!SNext, Promise!Open, KeptKeys, ServedKeys, AskedKey, Said

LEMMA IsClose ==
  ASSUME Said = "none", ServedKeys' = Nil, UNCHANGED <<rows, KeptKeys, AskedKey, Said>>
  PROVE  Promise!SNext
BY DEF Promise!SNext, Promise!Close, KeptKeys, ServedKeys, AskedKey, Said

LEMMA IsAsk ==
  ASSUME NEW h \in Hashes, ServedKeys # Nil, Said = "none", AskedKey' = h,
         Said' \in {"open", IF h \in ServedKeys THEN "yes" ELSE "no", "error"},
         UNCHANGED <<rows, KeptKeys, ServedKeys>>
  PROVE  Promise!SNext
BY DEF Promise!SNext, Promise!Ask, Promise!Truth, KeptKeys, ServedKeys, AskedKey, Said

LEMMA IsReply ==
  ASSUME Said = "open", Said' = IF AskedKey \in ServedKeys THEN "yes" ELSE "no",
         UNCHANGED <<rows, KeptKeys, ServedKeys, AskedKey>>
  PROVE  Promise!SNext
BY DEF Promise!SNext, Promise!Reply, Promise!Truth, KeptKeys, ServedKeys, AskedKey, Said

LEMMA IsTake ==
  ASSUME Said \in {"yes", "no", "error"}, AskedKey' = Nil, Said' = "none",
         UNCHANGED <<rows, KeptKeys, ServedKeys>>
  PROVE  Promise!SNext
BY DEF Promise!SNext, Promise!Take, KeptKeys, ServedKeys, AskedKey, Said

LEMMA IsStutter ==
  ASSUME UNCHANGED <<rows, KeptKeys, ServedKeys, AskedKey, Said>>
  PROVE  UNCHANGED Promise!svars
BY DEF Promise!svars, KeptKeys, ServedKeys, AskedKey, Said

\* An import: it gathers, and brings what it gathered.
LEMMA ImportServes ==
  ASSUME IndexInv, View, View',
         \/ Refresh \/ OpenPickles \/ EndOfRows \/ Pop \/ Build
         \/ \E h \in Hashes : Push(h) \/ Shard(h)
  PROVE  [Promise!SNext]_Promise!svars
<1>1. CASE Refresh \/ OpenPickles
  <2>1. /\ pc \in {"load", "ready"} /\ pc' \in {"scan", "shard"} /\ rows' = {}
        /\ UNCHANGED <<file, q, keys>>
    BY <1>1 DEF Refresh, OpenPickles, Begin
  <2>2. Said = "none" /\ ServedKeys' = Nil /\ UNCHANGED <<KeptKeys, AskedKey, Said>>
    BY <2>1 DEF View, KeptKeys
  <2> QED
    BY <2>1, <2>2, IsBegin
<1>2. ASSUME NEW h \in Hashes, Push(h) \/ Shard(h) PROVE [Promise!SNext]_Promise!svars
  <2>1. /\ pc \in {"scan", "shard"} /\ pc' = pc /\ rows' = rows \cup {h}
        /\ UNCHANGED <<file, q, keys>>
    BY <1>2 DEF Push, Shard
  <2>2. ServedKeys = Nil /\ UNCHANGED <<KeptKeys, ServedKeys, AskedKey, Said>>
    BY <2>1 DEF View, KeptKeys
  <2> QED
    BY <2>1, <2>2, IsGather
<1>3. CASE EndOfRows \/ Pop
  <2>1. /\ pc \in {"scan", "merge"} /\ pc' \in {"merge", "build"} /\ UNCHANGED <<rows, file, q, keys>>
    BY <1>3 DEF EndOfRows, Pop
  <2>2. UNCHANGED <<KeptKeys, ServedKeys, AskedKey, Said>>
    BY <2>1 DEF View, KeptKeys
  <2> QED
    BY <2>1, <2>2, IsStutter
<1>4. CASE Build
  <2>1. /\ pc = "build" /\ pc' = "load" /\ keys' = rows /\ rows' = {}
        /\ file' = Plh2(out, cfg.bits_per_key)
    BY <1>4 DEF Build, Forget
  <2>2. file' # NoFile
    BY <2>1 DEF Plh2, NoFile
  <2>3. KeptKeys' = rows /\ ServedKeys = Nil /\ UNCHANGED <<ServedKeys, AskedKey, Said>>
    BY <2>1, <2>2 DEF View
  <2> QED
    BY <2>1, <2>3, IsFinish
<1> QED
  BY <1>1, <1>2, <1>3, <1>4

\* An import into memory, with a snapshot for the next start or without.
LEMMA MigrateServes ==
  ASSUME IndexInv, View, View', Migrate
  PROVE  Promise!SNext
<1>1. /\ pc = "shard" /\ pc' = "ready" /\ keys' = rows /\ rows' = {} /\ file = NoFile
  BY DEF Migrate, Forget, IndexInv, FileInv
<1>2. /\ ServedKeys = Nil /\ ServedKeys' = rows /\ KeptKeys = Nil
      /\ KeptKeys' = (IF file' = NoFile THEN Nil ELSE rows)
      /\ UNCHANGED <<AskedKey, Said>>
  BY <1>1 DEF View
<1> QED
  BY <1>1, <1>2, IsFinishInMemory

\* A load, whatever it converts.
LEMMA LoadServes ==
  ASSUME IndexInv, View, View', Load
  PROVE  Promise!SNext
<1> DEFINE bits == cfg.bits_per_key
           f1 == IF file.format = "plh1" THEN Plh2(file.recs, bits) ELSE file
<1>1. pc = "load" /\ pc' = "ready" /\ file # NoFile /\ UNCHANGED <<rows, keys>>
  BY DEF Load, import
<1>2. \A recs : Plh2(recs, bits) # NoFile
  BY DEF Plh2, NoFile
<1>3. f1 # NoFile
  BY <1>1, <1>2
<1>4. file' \in {f1, Plh2(f1.recs, bits)}
  BY DEF Load
<1>5. file' # NoFile
  <2> HIDE DEF f1, bits
  <2> QED
    BY <1>2, <1>3, <1>4
<1>6. /\ ServedKeys = Nil /\ KeptKeys = keys /\ keys # Nil /\ KeptKeys' = keys /\ ServedKeys' = keys
      /\ UNCHANGED <<AskedKey, Said>>
  BY <1>1, <1>5 DEF View
<1> QED
  BY <1>1, <1>6, IsOpen

\* Starts and stops.
LEMMA ProcessServes ==
  ASSUME IndexInv, View, View',
         (\E f \in Files, e \in Envs : Start(f, e)) \/ Stop
  PROVE  [Promise!SNext]_Promise!svars
<1>1. CASE \E f \in Files, e \in Envs : Start(f, e)
  <2>1. pc = "down" /\ pc' = "load" /\ UNCHANGED <<rows, file, q, keys>>
    BY <1>1 DEF Start, import
  <2>2. UNCHANGED <<KeptKeys, ServedKeys, AskedKey, Said>>
    BY <2>1 DEF View, KeptKeys
  <2> QED
    BY <2>1, <2>2, IsStutter
<1>2. CASE Stop
  <2>1. pc \in {"load", "ready"} /\ pc' = "down" /\ UNCHANGED <<rows, file, q, keys>>
    BY <1>2 DEF Stop, import
  <2>2. Said = "none" /\ ServedKeys' = Nil /\ UNCHANGED <<KeptKeys, AskedKey, Said>>
    BY <2>1 DEF View, KeptKeys
  <2> QED
    BY <2>1, <2>2, IsClose
<1> QED
  BY <1>1, <1>2

\* A lookup keeps its key from the question to the answer.
LEMMA LookupServes ==
  ASSUME IndexInv, View, View', (\E h \in Hashes : Contains(h)) \/ Probe \/ Reply
  PROVE  [Promise!SNext]_Promise!svars
<1>1. UNCHANGED <<rows, file, db, keys, KeptKeys, ServedKeys>>
  BY DEF Contains, Probe, Reply, import, KeptKeys, ServedKeys
<1>2. ASSUME NEW h \in Hashes, Contains(h) PROVE Promise!SNext
  <2>1. pc = "ready" /\ pc' \in {"search", "answer"} /\ q'.key = h
    BY <1>2 DEF Contains, Answer
  <2>2. ServedKeys = keys /\ ServedKeys # Nil /\ Said = "none"
    BY <2>1 DEF View
  <2>3. AskedKey' = h
    BY <2>1 DEF View
  <2>4. Said' \in {"open", IF h \in keys THEN "yes" ELSE "no", "error"}
    BY <1>1, <2>1 DEF View
  <2> QED
    BY <1>1, <2>2, <2>3, <2>4, IsAsk
<1>3. CASE Probe
  <2>1. pc = "search" /\ ServedKeys = keys /\ AskedKey = q.key /\ Said = "open"
    BY <1>3 DEF Probe, View
  <2>2. PICK key \in Hashes, off \in Nat, lo \in Nat, hi \in Nat, turns \in Nat :
          q = [place |-> "search", key |-> key, off |-> off, lo |-> lo, hi |-> hi, turns |-> turns]
    BY <2>1 DEF IndexInv, QueryInv, SearchInv
  <2>3. q.key = key
    BY <2>2
  <2>4. CASE \E found \in BOOLEAN : Answer(key, found, FALSE)
    <3>1. pc' = "answer" /\ q'.key = key /\ q'.failed = FALSE
      BY <2>4 DEF Answer
    <3>2. AskedKey' = key /\ Said' = IF key \in keys THEN "yes" ELSE "no"
      BY <1>1, <3>1 DEF View
    <3> QED
      BY <1>1, <2>1, <2>3, <3>2, IsReply
  <2>5. CASE \E mid, below : pc' = pc /\ q' = [Narrow(mid, below) EXCEPT !.turns = @ + 1]
    <3>1. PICK mid, below : pc' = pc /\ q' = [Narrow(mid, below) EXCEPT !.turns = @ + 1]
      BY <2>5
    <3>2. q'.key = key
      <4>1. CASE below
        <5>1. q' = [place |-> "search", key |-> key, off |-> off, lo |-> mid + 1, hi |-> hi,
                    turns |-> turns + 1]
          BY <2>2, <3>1, <4>1 DEF Narrow
        <5> QED
          BY <5>1
      <4>2. CASE ~below
        <5>1. q' = [place |-> "search", key |-> key, off |-> off, lo |-> lo, hi |-> mid,
                    turns |-> turns + 1]
          BY <2>2, <3>1, <4>2 DEF Narrow
        <5> QED
          BY <5>1
      <4> QED
        BY <4>1, <4>2
    <3>3. UNCHANGED <<AskedKey, Said>>
      BY <2>1, <2>3, <3>1, <3>2 DEF View
    <3> QED
      BY <1>1, <3>3, IsStutter
  <2>6. \/ \E found \in BOOLEAN : Answer(key, found, FALSE)
        \/ \E mid, below : pc' = pc /\ q' = [Narrow(mid, below) EXCEPT !.turns = @ + 1]
    <3>1. CASE q.lo >= q.hi
      BY <1>3, <2>3, <3>1 DEF Probe
    <3>2. CASE ~(q.lo >= q.hi)
      <4> DEFINE mid == (q.lo + q.hi) \div 2
                 rec == db.recs[q.off + mid + 1]
      <4>1. CASE rec = q.key
        BY <1>3, <2>3, <3>2, <4>1 DEF Probe
      <4>2. CASE rec # q.key
        <5>1. q' = [Narrow(mid, rec < q.key) EXCEPT !.turns = @ + 1] /\ pc' = pc
          BY <1>3, <3>2, <4>2 DEF Probe
        <5> HIDE DEF mid, rec
        <5> QED
          BY <5>1
      <4> QED
        BY <4>1, <4>2
    <3> QED
      BY <3>1, <3>2
  <2> QED
    BY <2>4, <2>5, <2>6
<1>4. CASE Reply
  <2>1. pc = "answer" /\ pc' = "ready"
    BY <1>4 DEF Reply
  <2>2. Said \in {"yes", "no", "error"} /\ AskedKey' = Nil /\ Said' = "none"
    BY <2>1 DEF View
  <2> QED
    BY <1>1, <2>2, IsTake
<1> QED
  BY <1>2, <1>3, <1>4

LEMMA InitServes == Init => Promise!SInit
<1> SUFFICES ASSUME Init PROVE Promise!SInit
  OBVIOUS
<1>1. View
  BY IndexInit, ViewHolds
<1>2. rows = {} /\ pc = "down"
  BY DEF Init
<1>3. ServedKeys = Nil /\ AskedKey = Nil /\ Said = "none"
  BY <1>1, <1>2 DEF View
<1>4. KeptKeys \in (SUBSET Hashes) \cup {Nil}
  BY <1>1 DEF View
<1> QED
  BY <1>2, <1>3, <1>4 DEF Promise!SInit, KeptKeys, ServedKeys, AskedKey, Said

LEMMA StepServes ==
  ASSUME IndexInv, View, View', [Next]_vars
  PROVE  [Promise!SNext]_Promise!svars
<1>1. CASE UNCHANGED vars
  <2>1. UNCHANGED <<rows, KeptKeys, ServedKeys, AskedKey, Said>>
    BY <1>1 DEF vars, import, KeptKeys, ServedKeys, AskedKey, Said
  <2> QED
    BY <2>1, IsStutter
<1>2. CASE Next
  BY <1>2, ImportServes, MigrateServes, LoadServes, ProcessServes, LookupServes DEF Next
<1> QED
  BY <1>1, <1>2

\* To its callers the index is a set: for any dump, chunk size, bucket, filter function and
\* configuration, an import brings exactly its rows, nothing else changes a key, and a
\* lookup is answered by what was loaded (db.rs from gzip_to_chunks to contains).
THEOREM IndexIsASet == Spec => ServesASet
<1>1. IndexInv /\ IndexInv' /\ [Next]_vars => [Promise!SNext]_Promise!svars
  BY ViewHolds, ViewNext, StepServes
<1> QED
  BY <1>1, InitServes, IndexCorrect, PTL DEF Spec, ServesASet, Promise!SSpec

=============================================================================
