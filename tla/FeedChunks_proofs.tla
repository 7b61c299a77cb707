--------------------------- MODULE FeedChunks_proofs ---------------------------
(***************************************************************************)
(* Proof that itertools' chunks(k), as drain_chain_updates and            *)
(* update_added_nodes_messages use it (Chunks), cuts a sequence of any     *)
(* length into consecutive slices that cover it exactly once and in order: *)
(* every chunk but the last holds k entries, the last one 1 to k, and     *)
(* entry n of the input is entry (n-1) % k + 1 of chunk (n-1) \div k + 1. *)
(* It holds for every k > 0, MSGS_PER_WS_MSG = 64 included, and every      *)
(* length.                                                                 *)
(***************************************************************************)
EXTENDS FeedChunks, SequenceTheorems, TLAPS

\* Chunks(s, k) is an exact, ordered partition of s into runs of k.
ChunksPartition(s, k) ==
    LET c == Chunks(s, k) IN
    /\ c \in Seq(Seq(Range(s)))
    /\ \A i \in DOMAIN c : /\ 1 <= Len(c[i]) /\ Len(c[i]) <= k
                           /\ (i < Len(c) => Len(c[i]) = k)
                           /\ \A j \in 1 .. Len(c[i]) : c[i][j] = s[(i - 1) * k + j]
    /\ \A n \in 1 .. Len(s) :
         LET i == (n - 1) \div k + 1
             j == ((n - 1) % k) + 1
         IN  i \in DOMAIN c /\ j \in 1 .. Len(c[i]) /\ c[i][j] = s[n]

\* Chunk i of N starts inside s and ends at or after its start.
LEMMA ChunkBounds ==
    ASSUME NEW L \in Nat, NEW k \in Nat \ {0},
           NEW i \in 1 .. ((L + k - 1) \div k)
    PROVE  /\ (i - 1) * k \in 0 .. (L - 1)
           /\ Minimum(i * k, L) - (i - 1) * k \in 1 .. k
           /\ i < (L + k - 1) \div k => i * k <= L
<1> DEFINE N == (L + k - 1) \div k
<1>1. N \in Nat /\ N * k <= L + k - 1 /\ L + k - 1 < (N + 1) * k
  BY SMT
<1>2. (i - 1) * k \in Nat /\ i * k = (i - 1) * k + k
  BY SMT
<1>3. i * k <= N * k
  BY <1>1, SMT
<1>4. (i - 1) * k <= L - 1
  BY <1>1, <1>2, <1>3
<1>5. i < N => i * k <= L
  <2> SUFFICES ASSUME i < N PROVE i * k <= L
    OBVIOUS
  <2>1. (i + 1) * k <= N * k /\ (i + 1) * k = i * k + k
    BY <1>1, SMT
  <2>. QED
    BY <1>1, <2>1
<1>. QED
  BY <1>2, <1>4, <1>5 DEF Minimum

\* Entry n of s falls in chunk (n-1) \div k + 1, at (n-1) % k + 1.
LEMMA EntryChunk ==
    ASSUME NEW len \in Nat, NEW size \in Nat \ {0}, NEW e \in 1 .. len
    PROVE  /\ (e - 1) \div size + 1 \in 1 .. ((len + size - 1) \div size)
           /\ ((e - 1) % size) + 1 \in 1 .. (Minimum(((e - 1) \div size + 1) * size, len)
                                          - ((e - 1) \div size + 1 - 1) * size)
           /\ ((e - 1) \div size + 1 - 1) * size + (((e - 1) % size) + 1) = e
<1> DEFINE q == (e - 1) \div size
           r == (e - 1) % size
           N == (len + size - 1) \div size
<1>1. q \in Nat /\ r \in 0 .. (size - 1) /\ e - 1 = q * size + r
  BY SMT
<1>2. N \in Nat /\ len + size - 1 < (N + 1) * size
  BY SMT
<1>3. q + 1 <= N
  <2> SUFFICES ASSUME q + 1 > N PROVE FALSE
    OBVIOUS
  <2>1. (N + 1) * size <= (q + 1) * size
    BY <1>1, <1>2, SMT
  <2>2. (q + 1) * size = q * size + size
    BY <1>1, SMT
  <2>. QED
    BY <1>1, <1>2, <2>1, <2>2
<1>4. q * size + r + 1 <= Minimum((q + 1) * size, len)
  <2>1. (q + 1) * size = q * size + size
    BY <1>1, SMT
  <2>. QED
    BY <1>1, <2>1 DEF Minimum
<1>5. /\ (e - 1) \div size + 1 = q + 1 /\ ((e - 1) % size) + 1 = r + 1
      /\ (q + 1 - 1) * size = q * size
  BY <1>1
<1>6. q + 1 \in 1 .. N
  BY <1>1, <1>3
<1>7. r + 1 \in 1 .. (Minimum((q + 1) * size, len) - (q + 1 - 1) * size)
  <2> DEFINE m == Minimum((q + 1) * size, len)
  <2>1. m \in Int /\ q * size \in Int
    BY <1>1 DEF Minimum
  <2>2. q * size + r + 1 <= m
    BY <1>4
  <2>3. r + 1 \in 1 .. (m - q * size)
    BY <1>1, <2>1, <2>2
  <2>. QED
    BY <1>5, <2>3
<1>8. (q + 1 - 1) * size + (r + 1) = e
  BY <1>1, <1>5
<1>. QED
  BY <1>5, <1>6, <1>7, <1>8

\* The chunking of drain_chain_updates and update_added_nodes_messages is
\* an exact, ordered partition for every input and every chunk size:
\* no entry is dropped, repeated or moved, no chunk is empty, and only the
\* last may hold fewer than MSGS_PER_WS_MSG entries.
THEOREM ChunksArePartition ==
    ASSUME NEW S, NEW s \in Seq(S), NEW k \in Nat \ {0}
    PROVE  ChunksPartition(s, k)
<1> DEFINE L == Len(s)
           N == (L + k - 1) \div k
           lo(i) == (i - 1) * k + 1
           hi(i) == Minimum(i * k, L)
           c == Chunks(s, k)
<1>1. L \in Nat /\ N \in Nat
  BY LenProperties, SMT
<1>2. c = [i \in 1 .. N |-> SubSeq(s, lo(i), hi(i))]
  BY DEF Chunks
<1>3. ASSUME NEW i \in 1 .. N
      PROVE  /\ Len(c[i]) = hi(i) - (i - 1) * k
             /\ c[i] \in Seq(Range(s))
             /\ \A j \in 1 .. Len(c[i]) : c[i][j] = s[(i - 1) * k + j]
  <2>1. (i - 1) * k \in 0 .. (L - 1) /\ hi(i) - (i - 1) * k \in 1 .. k
    BY <1>1, ChunkBounds
  <2>2. hi(i) \in lo(i) .. L /\ lo(i) \in Int /\ hi(i) \in Int
    BY <2>1 DEF Minimum
  <2>3. \A m \in lo(i) .. hi(i) : s[m] \in Range(s)
    <3>1. lo(i) .. hi(i) \subseteq DOMAIN s
      BY <2>1, <2>2, LenProperties
    <3>. QED
      BY <3>1 DEF Range
  <2>4. /\ SubSeq(s, lo(i), hi(i)) \in Seq(Range(s))
        /\ Len(SubSeq(s, lo(i), hi(i))) = hi(i) - lo(i) + 1
        /\ \A j \in 1 .. hi(i) - lo(i) + 1 : SubSeq(s, lo(i), hi(i))[j] = s[lo(i) + j - 1]
    BY <2>2, <2>3, SubSeqProperties
  <2>5. c[i] = SubSeq(s, lo(i), hi(i))
    BY <1>2
  <2>6. hi(i) - lo(i) + 1 = hi(i) - (i - 1) * k
    BY <2>2
  <2>7. \A j \in 1 .. hi(i) - lo(i) + 1 : lo(i) + j - 1 = (i - 1) * k + j
    BY <2>2
  <2>. QED
    BY <2>4, <2>5, <2>6, <2>7
<1>4. c \in Seq(Seq(Range(s))) /\ Len(c) = N /\ DOMAIN c = 1 .. N
  <2>1. c \in [1 .. N -> Seq(Range(s))]
    BY <1>2, <1>3
  <2>. QED
    BY <1>1, <2>1
<1>5. ASSUME NEW i \in DOMAIN c
      PROVE  /\ 1 <= Len(c[i]) /\ Len(c[i]) <= k
             /\ (i < Len(c) => Len(c[i]) = k)
  <2>1. hi(i) - (i - 1) * k \in 1 .. k /\ (i < N => i * k <= L)
    BY <1>1, <1>4, ChunkBounds
  <2>2. i < N => hi(i) - (i - 1) * k = k
    BY <2>1, SMT DEF Minimum
  <2>. QED
    BY <1>3, <1>4, <2>1, <2>2
<1>6. ASSUME NEW n \in 1 .. L
      PROVE  LET i == (n - 1) \div k + 1
                 j == ((n - 1) % k) + 1
             IN  i \in DOMAIN c /\ j \in 1 .. Len(c[i]) /\ c[i][j] = s[n]
  <2> DEFINE i == (n - 1) \div k + 1
             j == ((n - 1) % k) + 1
  <2>1. /\ i \in 1 .. N
        /\ j \in 1 .. (hi(i) - (i - 1) * k)
        /\ (i - 1) * k + j = n
    <3>1. Len(s) \in Nat /\ n \in 1 .. Len(s)
      BY <1>1
    <3>2. (n - 1) \div k + 1 \in 1 .. ((Len(s) + k - 1) \div k)
      BY <3>1, EntryChunk
    <3>3. ((n - 1) % k) + 1 \in 1 .. (Minimum(((n - 1) \div k + 1) * k, Len(s))
                                     - ((n - 1) \div k + 1 - 1) * k)
      BY <3>1, EntryChunk
    <3>4. ((n - 1) \div k + 1 - 1) * k + (((n - 1) % k) + 1) = n
      BY <3>1, SMT
    <3>. QED
      BY <3>2, <3>3, <3>4
  <2>. QED
    BY <1>3, <1>4, <2>1
<1>. QED
  BY <1>3, <1>4, <1>5, <1>6 DEF ChunksPartition
=============================================================================
