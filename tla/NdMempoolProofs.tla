--------------------------- MODULE NdMempoolProofs ---------------------------
(***************************************************************************)
(* The block pool over the scheduler: the free list is a chain of all the  *)
(* blocks that no client has, whatever happens to the threads; and, on the *)
(* ports that switch on the spot, no free block is left to nobody.         *)
(***************************************************************************)
EXTENDS NdMempool, NdSchedProofs

-----------------------------------------------------------------------------
(* The free list *)

\* c is the free list: n links from the first block to the null pointer, over blocks that
\* are different and that are those of the set free.
IsList(c, n, l, head, free) ==
  /\ c \in [0..n -> Blocks \cup {Null}] /\ c[0] = head /\ c[n] = Null
  /\ \A i \in 1..n : c[i] = l[c[i - 1]]
  /\ \A i \in 0..n - 1 : c[i] \in free
  /\ \A i, j \in 0..n - 1 : c[i] = c[j] => i = j
  /\ \A a \in free : \E i \in 0..n - 1 : c[i] = a

\* A list of n blocks without its first one, and with a in front of it.
RestOf(c, n) == [i \in 0..n - 1 |-> c[i + 1]]
LongerOf(c, n, a) == [i \in 0..n + 1 |-> IF i = 0 THEN a ELSE c[i - 1]]

\* The pool's variables agree.
PoolChain ==
  /\ free_count \in 0..BlockCount /\ given \subseteq Blocks
  /\ IsFiniteSet(given) /\ Cardinality(given) = BlockCount - free_count
  /\ link \in [Blocks -> Blocks \cup {Null}]
  /\ \E c : IsList(c, free_count, link, free_list, Blocks \ given)

\* Taking the first block off a list leaves the rest of it,
LEMMA RestOfList ==
  ASSUME NEW n \in Nat, n # 0, NEW l \in [Blocks -> Blocks \cup {Null}], NEW head,
         NEW free, free \subseteq Blocks, NEW c, IsList(c, n, l, head, free)
  PROVE  /\ head \in free
         /\ IsList(RestOf(c, n), n - 1, [l EXCEPT ![head] = Null],
                   l[head], free \ {head})
<1> DEFINE d == [i \in 0..n - 1 |-> c[i + 1]]
           m == [l EXCEPT ![head] = Null]
<1>1. /\ c \in [0..n -> Blocks \cup {Null}] /\ c[0] = head /\ c[n] = Null
      /\ \A i \in 1..n : c[i] = l[c[i - 1]]
      /\ \A i \in 0..n - 1 : c[i] \in free
      /\ \A i, j \in 0..n - 1 : c[i] = c[j] => i = j
      /\ \A a \in free : \E i \in 0..n - 1 : c[i] = a
  BY DEF IsList
<1>2. 0 \in 0..n - 1 /\ n - 1 \in Nat /\ 0 \in 0..n
  OBVIOUS
<1>3. head \in free
  BY <1>1, <1>2
<1>4. /\ d \in [0..n - 1 -> Blocks \cup {Null}]
      /\ \A i \in 0..n - 1 : d[i] = c[i + 1] /\ i + 1 \in 1..n
  BY <1>1
<1>5. \A a \in Blocks \ {head} : m[a] = l[a]
  OBVIOUS
<1> HIDE DEF d, m
<1>6. d[0] = l[head] /\ d[n - 1] = Null
  <2>1. d[0] = c[1] /\ c[1] = l[c[0]] /\ d[n - 1] = c[n]
    BY <1>1, <1>2, <1>4
  <2> QED
    BY <1>1, <2>1
<1>7. ASSUME NEW i \in 0..n - 2 PROVE d[i] \in free \ {head}
  <2>1. i + 1 \in 0..n - 1 /\ i + 1 # 0 /\ i \in 0..n - 1
    OBVIOUS
  <2> QED
    BY <1>1, <1>2, <1>4, <2>1
<1>8. ASSUME NEW i \in 1..n - 1 PROVE d[i] = m[d[i - 1]]
  <2>1. i - 1 \in 0..n - 2 /\ i \in 0..n - 1 /\ i - 1 \in 0..n - 1 /\ i + 1 \in 1..n
    OBVIOUS
  <2>2. d[i - 1] \in free \ {head} /\ d[i - 1] = c[i]
    BY <1>4, <1>7, <2>1
  <2>3. m[d[i - 1]] = l[d[i - 1]]
    BY <1>5, <2>2
  <2>4. d[i] = c[i + 1] /\ c[i + 1] = l[c[i]]
    BY <1>1, <1>4, <2>1
  <2> QED
    BY <2>2, <2>3, <2>4
<1>9. ASSUME NEW i \in 0..n - 2, NEW j \in 0..n - 2, d[i] = d[j] PROVE i = j
  <2>1. i + 1 \in 0..n - 1 /\ j + 1 \in 0..n - 1 /\ i \in 0..n - 1 /\ j \in 0..n - 1
    OBVIOUS
  <2>2. i + 1 = j + 1
    BY <1>1, <1>4, <1>9, <2>1
  <2> QED
    BY <2>2
<1>10. ASSUME NEW a \in free \ {head} PROVE \E i \in 0..n - 2 : d[i] = a
  <2>1. PICK i \in 0..n - 1 : c[i] = a
    BY <1>1
  <2>2. i - 1 \in 0..n - 2 /\ i - 1 \in 0..n - 1
    BY <1>1, <2>1
  <2>3. d[i - 1] = c[i]
    BY <1>4, <2>2
  <2> QED
    BY <2>1, <2>2, <2>3
<1>11. n - 1 - 1 = n - 2
  OBVIOUS
<1>12. IsList(d, n - 1, m, l[head], free \ {head})
  BY <1>4, <1>6, <1>7, <1>8, <1>9, <1>10, <1>11 DEF IsList
<1> QED
  BY <1>3, <1>12 DEF d, m, RestOf

\* and putting a block in front of it makes it one longer.
LEMMA LongerList ==
  ASSUME NEW n \in Nat, NEW l \in [Blocks -> Blocks \cup {Null}], NEW head,
         NEW free, free \subseteq Blocks, NEW c, IsList(c, n, l, head, free),
         NEW a \in Blocks \ free
  PROVE  /\ [l EXCEPT ![a] = head] \in [Blocks -> Blocks \cup {Null}]
         /\ IsList(LongerOf(c, n, a), n + 1,
                   [l EXCEPT ![a] = head], a, free \cup {a})
<1> DEFINE d == [i \in 0..n + 1 |-> IF i = 0 THEN a ELSE c[i - 1]]
           m == [l EXCEPT ![a] = head]
<1>1. /\ c \in [0..n -> Blocks \cup {Null}] /\ c[0] = head /\ c[n] = Null
      /\ \A i \in 1..n : c[i] = l[c[i - 1]]
      /\ \A i \in 0..n - 1 : c[i] \in free
      /\ \A i, j \in 0..n - 1 : c[i] = c[j] => i = j
      /\ \A b \in free : \E i \in 0..n - 1 : c[i] = b
  BY DEF IsList
<1>2. 0 \in 0..n /\ 0 \in 0..n + 1 /\ n + 1 \in 1..n + 1 /\ n + 1 \in 0..n + 1
  OBVIOUS
<1>3. /\ d[0] = a /\ \A i \in 1..n + 1 : d[i] = c[i - 1] /\ i - 1 \in 0..n
  BY <1>2
<1>4. d \in [0..n + 1 -> Blocks \cup {Null}]
  BY <1>1
<1>5. /\ m \in [Blocks -> Blocks \cup {Null}] /\ m[a] = head
      /\ \A b \in Blocks \ {a} : m[b] = l[b]
  <2>1. head \in Blocks \cup {Null}
    BY <1>1, <1>2
  <2> QED
    BY <2>1
<1> HIDE DEF d, m
<1>6. d[n + 1] = Null
  BY <1>1, <1>2, <1>3
<1>7. ASSUME NEW i \in 1..n PROVE d[i] = c[i - 1] /\ d[i] \in free /\ i - 1 \in 0..n - 1
  <2>1. i \in 1..n + 1 /\ i - 1 \in 0..n - 1
    OBVIOUS
  <2> QED
    BY <1>1, <1>3, <2>1
<1>8. ASSUME NEW i \in 1..n + 1 PROVE d[i] = m[d[i - 1]]
  <2>1. CASE i = 1
    <3>1. d[1] = c[0] /\ d[0] = a
      BY <1>3, <2>1
    <3> QED
      BY <1>1, <1>5, <2>1, <3>1
  <2>2. CASE i # 1
    <3>1. i - 1 \in 1..n
      BY <2>2
    <3>2. d[i - 1] = c[i - 1 - 1] /\ d[i - 1] \in free
      BY <1>7, <3>1
    <3>3. m[d[i - 1]] = l[d[i - 1]]
      BY <1>5, <3>2
    <3>4. c[i - 1] = l[c[i - 1 - 1]]
      BY <1>1, <3>1
    <3> QED
      BY <1>3, <3>2, <3>3, <3>4
  <2> QED
    BY <2>1, <2>2
<1>9. \A i \in 0..n : d[i] \in free \cup {a}
  BY <1>3, <1>7
<1>10. ASSUME NEW i \in 0..n, NEW j \in 0..n, d[i] = d[j] PROVE i = j
  <2>1. CASE i = 0 \/ j = 0
    BY <1>3, <1>7, <1>10, <2>1
  <2>2. CASE i # 0 /\ j # 0
    <3>1. i \in 1..n /\ j \in 1..n
      BY <2>2
    <3>2. c[i - 1] = c[j - 1] /\ i - 1 \in 0..n - 1 /\ j - 1 \in 0..n - 1
      BY <1>7, <1>10, <3>1
    <3>3. i - 1 = j - 1
      BY <1>1, <3>2
    <3> QED
      BY <3>3
  <2> QED
    BY <2>1, <2>2
<1>11. ASSUME NEW b \in free \cup {a} PROVE \E i \in 0..n : d[i] = b
  <2>1. CASE b = a
    BY <1>2, <1>3, <2>1
  <2>2. CASE b \in free
    <3>1. PICK i \in 0..n - 1 : c[i] = b
      BY <1>1, <2>2
    <3>2. i + 1 \in 1..n + 1 /\ i + 1 \in 0..n /\ i + 1 - 1 = i
      OBVIOUS
    <3>3. d[i + 1] = b
      BY <1>3, <3>1, <3>2
    <3> QED
      BY <3>2, <3>3
  <2> QED
    BY <2>1, <2>2
<1>12. n + 1 - 1 = n
  OBVIOUS
<1>13. IsList(d, n + 1, m, a, free \cup {a})
  BY <1>3, <1>4, <1>6, <1>8, <1>9, <1>10, <1>11, <1>12 DEF IsList
<1> QED
  BY <1>5, <1>13 DEF d, m, LongerOf

\* An allocation takes the first block.
LEMMA UnlinkKeeps ==
  ASSUME PoolChain, Unlink
  PROVE  PoolChain' /\ free_count' = free_count - 1
<1> DEFINE free == Blocks \ given
<1>1. /\ free_count \in 0..BlockCount /\ free_count # 0 /\ BlockCount \in Nat
      /\ free_count \in Nat /\ given \subseteq Blocks
      /\ IsFiniteSet(given) /\ Cardinality(given) = BlockCount - free_count
      /\ link \in [Blocks -> Blocks \cup {Null}]
  BY PoolAssumption DEF PoolChain, Unlink
<1>2. PICK c : IsList(c, free_count, link, free_list, free)
  BY DEF PoolChain
<1>3. free \subseteq Blocks
  OBVIOUS
<1>4. /\ free_list' = link[free_list] /\ free_count' = free_count - 1
      /\ given' = given \cup {free_list}
      /\ link' = [link EXCEPT ![free_list] = Null]
  BY DEF Unlink
<1> DEFINE d == RestOf(c, free_count)
           m == [link EXCEPT ![free_list] = Null]
<1> HIDE DEF free
<1>5. /\ free_list \in free
      /\ IsList(d, free_count - 1, m, link[free_list], free \ {free_list})
  BY ONLY <1>1, <1>2, <1>3, RestOfList
<1> HIDE DEF d
<1>6. free_list \in Blocks /\ free_list \notin given /\ (Blocks \ given)' = free \ {free_list}
  BY <1>4, <1>5 DEF free, Blocks, Block
<1>7. IsFiniteSet(given') /\ Cardinality(given') = BlockCount - free_count'
  <2>1. /\ IsFiniteSet(given \cup {free_list})
        /\ Cardinality(given \cup {free_list}) = Cardinality(given) + 1
    BY <1>1, <1>6, FS_AddElement
  <2> QED
    BY <1>1, <1>4, <2>1
<1>8. link' \in [Blocks -> Blocks \cup {Null}]
  BY <1>1, <1>4
<1>9. IsList(d, free_count', link', free_list', Blocks \ given')
  BY <1>4, <1>5, <1>6
<1> QED
  BY <1>1, <1>4, <1>6, <1>7, <1>8, <1>9 DEF PoolChain

\* A block that is given back becomes the first.
LEMMA FreeKeeps ==
  ASSUME PoolChain, NEW a \in given, nd_mempool_free(a)
  PROVE  PoolChain' /\ free_count' = free_count + 1
<1> DEFINE free == Blocks \ given
<1>1. /\ free_count \in 0..BlockCount /\ BlockCount \in Nat
      /\ free_count \in Nat /\ given \subseteq Blocks
      /\ IsFiniteSet(given) /\ Cardinality(given) = BlockCount - free_count
      /\ link \in [Blocks -> Blocks \cup {Null}]
  BY PoolAssumption DEF PoolChain
<1>2. PICK c : IsList(c, free_count, link, free_list, free)
  BY DEF PoolChain
<1>3. free \subseteq Blocks /\ a \in Blocks \ free
  BY <1>1
<1>4. /\ free_list' = a /\ free_count' = free_count + 1 /\ given' = given \ {a}
      /\ link' = [link EXCEPT ![a] = free_list]
  BY DEF nd_mempool_free
<1> DEFINE d == LongerOf(c, free_count, a)
           m == [link EXCEPT ![a] = free_list]
<1> HIDE DEF free
<1>5. /\ m \in [Blocks -> Blocks \cup {Null}]
      /\ IsList(d, free_count + 1, m, a, free \cup {a})
  BY ONLY <1>1, <1>2, <1>3, LongerList
<1> HIDE DEF d
<1>6. Blocks \ given' = free \cup {a}
  BY <1>1, <1>4 DEF free
<1>7. /\ IsFiniteSet(given') /\ Cardinality(given') = Cardinality(given) - 1
      /\ Cardinality(given') \in Nat
  <2>1. /\ IsFiniteSet(given \ {a})
        /\ Cardinality(given \ {a}) = Cardinality(given) - 1
    BY <1>1, FS_RemoveElement
  <2> QED
    BY <1>4, <2>1, FS_CardinalityType
<1>8. free_count' \in 0..BlockCount /\ Cardinality(given') = BlockCount - free_count'
  BY <1>1, <1>4, <1>7
<1>9. IsList(d, free_count', link', free_list', Blocks \ given')
  BY <1>4, <1>5, <1>6
<1> QED
  BY <1>1, <1>4, <1>5, <1>7, <1>8, <1>9 DEF PoolChain

\* Nothing else in the pool changes the list.
LEMMA ChainStep ==
  ASSUME PoolChain, [PoolNext]_poolVars
  PROVE  PoolChain'
<1>1. CASE UNCHANGED blocks
  <2>1. link' = link /\ free_list' = free_list /\ free_count' = free_count /\ given' = given
    BY <1>1 DEF blocks
  <2> QED
    BY <2>1 DEF PoolChain
<1>2. CASE Unlink
  BY <1>2, UnlinkKeeps
<1>3. CASE \E a \in given : nd_mempool_free(a)
  BY <1>3, FreeKeeps
<1>4. UNCHANGED poolVars => UNCHANGED blocks
  BY DEF poolVars, blocks
<1> QED
  BY <1>1, <1>2, <1>3, <1>4
     DEF PoolNext, nd_mempool_alloc, HandlerAlloc, LoopTimeout, LoopAlloc, Takes, Waits

\* The places of the blocks are different.
LEMMA PlacesLemma ==
  /\ BlockSize \in Nat \ {0} /\ BlockCount \in Nat \ {0}
  /\ \A i \in Nat : Block(i) \in Nat /\ Block(i + 1) = Block(i) + Block(1)
  /\ \A i, j \in Nat : i < j => Block(i) < Block(j)
<1>1. BlockSize \in Nat \ {0} /\ BlockCount \in Nat \ {0}
  BY PoolAssumption
<1> DEFINE B == BlockSize
<1> HIDE DEF B
<1>2. B \in Nat \ {0}
  BY <1>1 DEF B
<1>3. ASSUME NEW i \in Nat PROVE i * B \in Nat /\ (i + 1) * B = i * B + 1 * B
  BY <1>2
<1>4. ASSUME NEW i \in Nat, NEW j \in Nat, i < j PROVE i * B < j * B
  BY <1>2, <1>4
<1> QED
  BY <1>1, <1>3, <1>4 DEF Block, B

\* nd_mempool_init links each block to the one behind it.
LEMMA ChainInit == PoolInit => PoolChain
<1> SUFFICES ASSUME PoolInit PROVE PoolChain
  OBVIOUS
<1> DEFINE N == BlockCount
           c == [i \in 0..N |-> IF i = N THEN Null ELSE Block(i)]
<1>1. /\ link = [a \in Blocks |-> IF a = Block(N - 1) THEN Null ELSE a + Block(1)]
      /\ free_list = Block(0) /\ free_count = N /\ given = {}
  BY DEF PoolInit
<1>2. /\ N \in Nat \ {0}
      /\ \A i \in Nat : Block(i) \in Nat /\ Block(i + 1) = Block(i) + Block(1)
      /\ \A i, j \in Nat : i < j => Block(i) < Block(j)
  BY PlacesLemma
<1>3. \A a : a \in Blocks <=> \E i \in 0..N - 1 : a = Block(i)
  BY DEF Blocks
<1> HIDE DEF N
<1>4. \A i, j \in Nat : Block(i) = Block(j) => i = j
  <2> SUFFICES ASSUME NEW i \in Nat, NEW j \in Nat, Block(i) = Block(j), i # j PROVE FALSE
    OBVIOUS
  <2>1. i < j \/ j < i
    OBVIOUS
  <2>2. Block(i) < Block(j) \/ Block(j) < Block(i)
    BY <1>2, <2>1
  <2> QED
    BY <1>2, <2>2
<1>5. /\ c[N] = Null /\ c[0] = Block(0) /\ 0 \in 0..N - 1
      /\ \A i \in 0..N - 1 : c[i] = Block(i) /\ Block(i) \in Blocks
  BY <1>2, <1>3
<1>6. c \in [0..N -> Blocks \cup {Null}]
  <2>1. \A i \in 0..N : i = N \/ i \in 0..N - 1
    BY <1>2
  <2>2. \A i \in 0..N : c[i] \in Blocks \cup {Null}
    <3> HIDE DEF c
    <3> QED
      BY <1>5, <2>1
  <2>3. c = [i \in 0..N |-> c[i]]
    OBVIOUS
  <2> HIDE DEF c
  <2> QED
    BY <2>2, <2>3
<1> HIDE DEF c
<1>7. ASSUME NEW i \in 0..N - 1
      PROVE  link[Block(i)] = c[i + 1] /\ link[Block(i)] \in Blocks \cup {Null}
  <2>1. i \in Nat /\ N - 1 \in Nat /\ Block(i) \in Blocks
    BY <1>2, <1>5
  <2>2. link[Block(i)] = IF Block(i) = Block(N - 1) THEN Null ELSE Block(i) + Block(1)
    BY <1>1, <2>1
  <2>3. CASE i = N - 1
    <3>1. i + 1 = N
      BY <1>2, <2>3
    <3> QED
      BY <1>5, <2>2, <2>3, <3>1
  <2>4. CASE i # N - 1
    <3>1. i + 1 \in 0..N - 1
      BY <1>2, <2>4
    <3>2. Block(i) # Block(N - 1) /\ Block(i + 1) = Block(i) + Block(1)
      BY <1>2, <1>4, <2>1, <2>4
    <3> QED
      BY <1>5, <2>2, <3>1, <3>2
  <2> QED
    BY <2>3, <2>4
<1>8. link \in [Blocks -> Blocks \cup {Null}]
  <2>1. \A a \in Blocks : link[a] \in Blocks \cup {Null}
    BY <1>3, <1>7
  <2>2. link = [a \in Blocks |-> link[a]]
    BY <1>1
  <2> QED
    BY <2>1, <2>2
<1>9. ASSUME NEW i \in 1..N PROVE c[i] = link[c[i - 1]]
  <2>1. i - 1 \in 0..N - 1 /\ i - 1 + 1 = i
    BY <1>2
  <2> QED
    BY <1>5, <1>7, <2>1
<1>10. \A i, j \in 0..N - 1 : c[i] = c[j] => i = j
  <2>1. \A i \in 0..N - 1 : i \in Nat
    OBVIOUS
  <2> QED
    BY <1>4, <1>5, <2>1
<1>11. \A a \in Blocks : \E i \in 0..N - 1 : c[i] = a
  BY <1>3, <1>5
<1>12. IsList(c, N, link, Block(0), Blocks)
  BY <1>5, <1>6, <1>9, <1>10, <1>11 DEF IsList
<1>13. Blocks \ given = Blocks /\ given \subseteq Blocks
  BY <1>1
<1>14. IsFiniteSet(given) /\ Cardinality(given) = N - free_count /\ free_count \in 0..N
  BY <1>1, <1>2, FS_EmptySet
<1> QED
  BY <1>1, <1>8, <1>12, <1>13, <1>14 DEF PoolChain, N

\* A list is the chain that its links make.
LEMMA ChainIsList ==
  ASSUME free_count \in Nat, NEW c, NEW free, IsList(c, free_count, link, free_list, free)
  PROVE  \A i \in 0..free_count : Chain[i] = c[i]
<1> DEFINE N == free_count
           Follows(f) == f = [n \in 0..N |-> IF n = 0 THEN free_list ELSE link[f[n - 1]]]
           g == Chain
           S == {i \in 0..N : g[i] = c[i]}
<1>1. /\ c \in [0..N -> Blocks \cup {Null}] /\ c[0] = free_list
      /\ \A i \in 1..N : c[i] = link[c[i - 1]]
  BY DEF IsList
<1>2. g = CHOOSE f : Follows(f)
  BY DEF Chain
<1>3. \E f : Follows(f)
  <2> DEFINE d == [n \in 0..N |-> IF n = 0 THEN free_list ELSE link[c[n - 1]]]
  <2>1. \A n \in 0..N : d[n] = c[n]
    <3>1. \A n \in 0..N : n = 0 \/ n \in 1..N
      OBVIOUS
    <3> QED
      BY <1>1, <3>1
  <2>2. c = [n \in 0..N |-> c[n]]
    BY <1>1
  <2>3. d = c
    BY <2>1, <2>2
  <2>4. Follows(c)
    BY <2>3
  <2> QED
    BY <2>4
<1>4. Follows(g)
  <2> HIDE DEF Follows, g
  <2> QED
    BY <1>2, <1>3
<1> HIDE DEF g
<1>5. 0 \in S
  BY <1>1, <1>4
<1>6. \A i \in 0..N : i < N /\ i \in S => i + 1 \in S
  <2> SUFFICES ASSUME NEW i \in 0..N, i < N, i \in S PROVE i + 1 \in S
    OBVIOUS
  <2>1. i + 1 \in 1..N /\ i + 1 \in 0..N /\ i + 1 - 1 = i /\ i + 1 # 0
    OBVIOUS
  <2>2. c[i + 1] = link[c[i]]
    BY <1>1, <2>1
  <2>3. g[i + 1] = link[g[i]]
    BY <1>4, <2>1
  <2>4. g[i] = c[i]
    OBVIOUS
  <2> QED
    BY <2>1, <2>2, <2>3, <2>4
<1>7. \A i \in 0..N : i \in S
  <2> HIDE DEF S
  <2> QED
    BY ONLY N \in Nat, <1>5, <1>6, Climbs
<1> QED
  BY <1>7 DEF g

\* So the variables say what BlocksKept says.
LEMMA ChainKeeps == PoolChain => BlocksKept
<1> SUFFICES ASSUME PoolChain PROVE BlocksKept
  OBVIOUS
<1>1. PICK c : IsList(c, free_count, link, free_list, Blocks \ given)
  BY DEF PoolChain
<1>2. free_count \in Nat /\ free_count \in 0..BlockCount
  BY PoolAssumption DEF PoolChain
<1>3. \A i \in 0..free_count : Chain[i] = c[i]
  BY <1>1, <1>2, ChainIsList
<1> DEFINE f == Chain
<1>4. \A i \in 0..free_count : f[i] = c[i]
  BY <1>3
<1>5. BlocksKept <=> /\ free_count \in 0..BlockCount /\ f[free_count] = Null
                     /\ {f[n] : n \in 0..free_count - 1} = Blocks \ given
                     /\ Cardinality(given) = BlockCount - free_count
  BY DEF BlocksKept
<1> HIDE DEF f
<1>6. f[free_count] = Null
  BY <1>1, <1>2, <1>4 DEF IsList
<1>7. {f[n] : n \in 0..free_count - 1} = Blocks \ given
  <2>1. \A n \in 0..free_count - 1 : f[n] \in Blocks \ given
    BY <1>1, <1>2, <1>4 DEF IsList
  <2>2. \A a \in Blocks \ given : \E n \in 0..free_count - 1 : f[n] = a
    BY <1>1, <1>2, <1>4 DEF IsList
  <2> QED
    BY <2>1, <2>2
<1> QED
  BY <1>2, <1>5, <1>6, <1>7 DEF PoolChain

\* No block is lost or handed out twice, whatever threads and handlers do: the first words
\* of the free blocks lead from free_list through all of them, and end there.
THEOREM BlocksAccounted == PoolSpec => []BlocksKept
<1>1. PoolChain /\ [PoolNext]_poolVars => PoolChain'
  BY ChainStep
<1> QED
  BY <1>1, ChainInit, ChainKeeps, PTL DEF PoolSpec

-----------------------------------------------------------------------------
(* The threads *)

Patience == 0..MaxDelay \cup {Forever}

\* The kernel under the calls of the pool, whose threads keep their timeouts.
PoolPlaces == LoopPlaces /\ patience \in [Thread -> Patience]

\* The pool is the only object.
LEMMA PoolLemma ==
  Object = {pool} /\ pool \in Object /\ NoThread # pool /\ AllocTimeouts \subseteq Patience
  BY PoolAssumption, ObjectLemma DEF Patience

\* The steps of the pool, by what they do.
LEMMA PoolCases ==
  ASSUME PoolPlaces, PoolNext
  PROVE  /\ patience' \in [Thread -> Patience]
         /\ \/ ~InLoop /\ Next /\ UNCHANGED blocks
            \/ /\ \E timeout \in Patience : WaitsIn(pool, timeout)
               /\ free_count = 0 /\ UNCHANGED blocks
            \/ Unlink /\ LeavesLoop
            \/ Unlink /\ UNCHANGED <<k, inside>>
            \/ (\E a \in given : nd_mempool_free(a)) /\ HandsOn(pool) /\ ComesBack(pool)
            \/ LeavesLoop /\ k.error[k.cur] = "ETIMEOUT" /\ UNCHANGED blocks
<1>1. /\ Object = {pool} /\ pool \in Object /\ NoThread # pool
      /\ AllocTimeouts \subseteq Patience
  BY PoolLemma
<1>2. /\ patience \in [Thread -> Patience] /\ inside[Idle] \notin Object
      /\ inside \in [Thread -> WaitQueue \cup {NoThread}]
      /\ (InLoop => InThread(k)) /\ (InThread(k) => k.cur \in Thread)
  BY InThreadLemma DEF PoolPlaces, LoopPlaces
<1>3. Looping <=> InLoop
  BY DEF Looping, InLoop
<1>4. Looping => InThread(k) /\ k.cur \in Thread \ {Idle} /\ inside[k.cur] = pool
  BY <1>1, <1>2, <1>3 DEF InLoop
<1>5. InOwnCode => InThread(k) /\ k.cur \in Thread \ {Idle} /\ inside[k.cur] = NoThread
  BY <1>2 DEF InOwnCode
<1>6. ASSUME NEW timeout \in Patience, Waits(timeout), Looping \/ InOwnCode
      PROVE  /\ WaitsIn(pool, timeout) /\ UNCHANGED blocks
             /\ patience' \in [Thread -> Patience]
  <2>1. /\ k' = nd_scheduler(nd_thread_pend(k, pool, timeout)) /\ UNCHANGED blocks
        /\ inside' = [inside EXCEPT ![k.cur] = pool]
        /\ patience' = [patience EXCEPT ![k.cur] = timeout]
    BY <1>6 DEF Waits
  <2>2. InThread(k) /\ k.cur # Idle /\ inside[k.cur] \in {NoThread, pool}
    BY <1>4, <1>5, <1>6
  <2>3. patience' \in [Thread -> Patience]
    BY <1>2, <2>1
  <2> QED
    BY <2>1, <2>2, <2>3 DEF WaitsIn
<1>7. ASSUME Takes, Looping \/ InOwnCode
      PROVE  Unlink /\ LeavesLoop /\ patience' \in [Thread -> Patience]
  BY <1>2, <1>4, <1>5, <1>7 DEF Takes, LeavesLoop
<1>8. CASE ~Looping /\ Next /\ UNCHANGED <<blocks, patience>>
  BY <1>2, <1>3, <1>8
<1>9. ASSUME NEW timeout \in AllocTimeouts, nd_mempool_alloc(timeout)
      PROVE  \/ Unlink /\ LeavesLoop /\ patience' \in [Thread -> Patience]
             \/ /\ timeout \in Patience /\ WaitsIn(pool, timeout) /\ free_count = 0
                /\ UNCHANGED blocks /\ patience' \in [Thread -> Patience]
  BY <1>1, <1>6, <1>7, <1>9 DEF nd_mempool_alloc
<1>10. CASE HandlerAlloc
  BY <1>2, <1>10 DEF HandlerAlloc
<1>11. CASE LoopTimeout
  BY <1>2, <1>4, <1>11 DEF LoopTimeout, LeavesLoop
<1>12. CASE LoopAlloc
  <2>1. patience[k.cur] \in Patience /\ Looping
    BY <1>2, <1>4, <1>12 DEF LoopAlloc
  <2>2. CASE Takes
    BY <1>7, <2>1, <2>2
  <2>3. CASE free_count = 0 /\ Waits(patience[k.cur])
    <3> DEFINE timeout == patience[k.cur]
    <3>1. timeout \in Patience /\ Waits(timeout)
      BY <2>1, <2>3
    <3> HIDE DEF timeout
    <3>2. WaitsIn(pool, timeout) /\ UNCHANGED blocks /\ patience' \in [Thread -> Patience]
      BY <1>6, <2>1, <3>1
    <3> QED
      BY <2>3, <3>1, <3>2
  <2> QED
    BY <1>12, <2>2, <2>3 DEF LoopAlloc
<1>13. ASSUME NEW a \in given, nd_mempool_free(a)
       PROVE  HandsOn(pool) /\ ComesBack(pool) /\ patience' \in [Thread -> Patience]
  <2>1. /\ InOwnCode \/ InHandler(k)
        /\ k' = IF k.wait[pool] = <<>> THEN k ELSE nd_scheduler(nd_thread_wakeup(k, pool))
        /\ inside' = inside /\ patience' = patience
    BY <1>13 DEF nd_mempool_free
  <2>2. InOwnCode => inside = [inside EXCEPT ![k.cur] = NoThread]
    BY <1>2, <1>5
  <2>3. ComesBack(pool)
    BY <1>1, <1>5, <2>1, <2>2 DEF ComesBack
  <2> QED
    BY <1>2, <2>1, <2>3 DEF HandsOn
<1> QED
  BY <1>8, <1>9, <1>10, <1>11, <1>12, <1>13 DEF PoolNext

\* Every step keeps PoolPlaces.
LEMMA PoolPlacesStep ==
  ASSUME ~Deferred, PoolPlaces, [PoolNext]_poolVars
  PROVE  PoolPlaces'
<1>0. LoopPlaces /\ patience \in [Thread -> Patience]
  BY DEF PoolPlaces
<1>1. k' = k /\ inside' = inside => LoopPlaces'
  BY <1>0 DEF LoopPlaces, InLoop
<1>2. CASE UNCHANGED poolVars
  BY <1>0, <1>1, <1>2 DEF poolVars, PoolPlaces
<1>3. CASE PoolNext
  <2>0. /\ patience' \in [Thread -> Patience]
        /\ \/ ~InLoop /\ Next
           \/ \E timeout \in Patience : WaitsIn(pool, timeout)
           \/ LeavesLoop
           \/ UNCHANGED <<k, inside>>
           \/ HandsOn(pool) /\ ComesBack(pool)
    BY <1>3, PoolCases
  <2>1. pool \in Object
    BY PoolLemma
  <2>2. CASE ~InLoop /\ Next
    BY <1>0, <2>0, <2>2, LoopNext DEF PoolPlaces
  <2>3. CASE \E timeout \in Patience : WaitsIn(pool, timeout)
    BY <1>0, <2>0, <2>1, <2>3, LoopWaits DEF PoolPlaces, Patience
  <2>4. CASE LeavesLoop
    BY <1>0, <2>0, <2>4, LoopLeaves DEF PoolPlaces
  <2>5. CASE HandsOn(pool) /\ ComesBack(pool)
    BY <1>0, <2>0, <2>1, <2>5, LoopHands DEF PoolPlaces
  <2>6. CASE UNCHANGED <<k, inside>>
    BY <1>1, <2>0, <2>6 DEF PoolPlaces
  <2> QED
    BY <2>0, <2>2, <2>3, <2>4, <2>5, <2>6
<1> QED
  BY <1>2, <1>3

\* After nd_scheduler_init and nd_mempool_init.
LEMMA PoolInitLemma == PoolInit => PoolPlaces
<1> SUFFICES ASSUME PoolInit PROVE PoolPlaces
  OBVIOUS
<1>1. WaitInv
  BY WaitInitLemma DEF PoolInit
<1>2. /\ inside = [t \in Thread |-> NoThread] /\ k.isr = <<>> /\ k.cur = NoThread
      /\ ~k.expiring /\ k.halting = NoThread
  BY DEF PoolInit, Init
<1>3. Control(k) /\ ~InLoop /\ inside[Idle] \notin Object
  BY <1>2, ObjectLemma DEF Control, InLoop, Booted
<1>4. patience \in [Thread -> Patience]
  BY DelayAssumption DEF PoolInit, Patience
<1> QED
  BY <1>1, <1>3, <1>4, KernelInvForm DEF WaitInv, PoolPlaces, LoopPlaces

\* The kernel's tables agree and whoever runs inside the loop of nd_mempool_alloc runs
\* alone, on the ports that switch on the spot.
THEOREM PoolKernel ==
  ASSUME ~Deferred
  PROVE  PoolSpec => []PoolPlaces
<1>1. PoolPlaces /\ [PoolNext]_poolVars => PoolPlaces'
  BY PoolPlacesStep
<1> QED
  BY <1>1, PoolInitLemma, PTL DEF PoolSpec

-----------------------------------------------------------------------------
(* No block is left to nobody *)

\* Nobody inside the loop is suspended or dead, the woken ones are counted, and while
\* somebody waits there is one of them for each free block.
WakesEnough ==
  /\ IsFiniteSet(WokenIn(pool)) /\ CallersLive
  /\ k.wait[pool] # <<>> => Cardinality(WokenIn(pool)) >= free_count

\* Every step keeps the wakeups, where nobody is suspended or aborted inside a call.
LEMMA WakesEnoughStep ==
  ASSUME ~Deferred, {"suspend", "abort"} \cap (Calls \cup IsrCalls) = {},
         PoolPlaces, PoolChain, WakesEnough, [PoolNext]_poolVars
  PROVE  WakesEnough'
<1> DEFINE w == Cardinality(WokenIn(pool))
           v == Cardinality(WokenIn(pool)')
<1>0. /\ Object = {pool} /\ pool \in Object /\ free_count \in Nat /\ LoopPlaces
      /\ CallersLive /\ IsFiniteSet(WokenIn(pool)) /\ w \in Nat
      /\ k.wait[pool] # <<>> => w >= free_count
  BY PoolLemma, PoolAssumption, WokenLemma DEF PoolChain, PoolPlaces, WakesEnough
<1>1. CASE UNCHANGED <<k, inside>> /\ (UNCHANGED blocks \/ Unlink)
  <2>1. WokenIn(pool)' = WokenIn(pool) /\ CallersLive' /\ k' = k
    BY <1>0, <1>1 DEF WokenIn, CallersLive
  <2>2. free_count' = free_count \/ free_count' = free_count - 1
    BY <1>1 DEF blocks, Unlink
  <2> HIDE DEF w, v
  <2>3. v = w
    BY <2>1 DEF w, v
  <2>4. k'.wait[pool] # <<>> => v >= free_count'
    BY <1>0, <2>1, <2>2, <2>3
  <2> QED
    BY <1>0, <2>1, <2>4 DEF WakesEnough, v
<1>2. CASE PoolNext
  <2>0. \/ ~InLoop /\ Next /\ UNCHANGED blocks
        \/ /\ \E timeout \in Patience : WaitsIn(pool, timeout)
           /\ free_count = 0 /\ UNCHANGED blocks
        \/ Unlink /\ LeavesLoop
        \/ Unlink /\ UNCHANGED <<k, inside>>
        \/ (\E a \in given : nd_mempool_free(a)) /\ HandsOn(pool) /\ ComesBack(pool)
        \/ LeavesLoop /\ k.error[k.cur] = "ETIMEOUT" /\ UNCHANGED blocks
    BY <1>2, PoolCases
  <2>1. CASE ~InLoop /\ Next /\ UNCHANGED blocks
    <3>1. /\ CallersLive' /\ WokenIn(pool)' = WokenIn(pool)
          /\ (k'.wait[pool] # <<>> => k.wait[pool] # <<>>)
      BY <1>0, <2>1, NextCounts
    <3>2. free_count' = free_count
      BY <2>1 DEF blocks
    <3> QED
      BY <1>0, <3>1, <3>2 DEF WakesEnough
  <2>2. CASE /\ \E timeout \in Patience : WaitsIn(pool, timeout)
             /\ free_count = 0 /\ UNCHANGED blocks
    <3> DEFINE c == k.cur
    <3>1. CallersLive' /\ AtMostLoses(pool, c)
      BY <1>0, <2>2, WaitsCounts DEF Patience
    <3> HIDE DEF c
    <3>2. IsFiniteSet(WokenIn(pool)') /\ v \in Nat
      BY <1>0, <3>1, WokenLemma
    <3>3. free_count' = 0
      BY <2>2 DEF blocks
    <3> HIDE DEF v
    <3>4. v >= free_count'
      BY <3>2, <3>3
    <3> QED
      BY <3>1, <3>2, <3>4 DEF WakesEnough, v
  <2>3. CASE Unlink /\ LeavesLoop
    <3> DEFINE c == k.cur
    <3>1. CallersLive' /\ AtMostLoses(pool, c)
      BY <1>0, <2>3, LeavesCounts
    <3> HIDE DEF c
    <3>2. IsFiniteSet(WokenIn(pool)') /\ v \in Nat /\ v >= w - 1
      BY <1>0, <3>1, WokenLemma
    <3>3. free_count' = free_count - 1 /\ k' = k
      BY <2>3 DEF Unlink, LeavesLoop
    <3> HIDE DEF v, w
    <3>4. k'.wait[pool] # <<>> => v >= free_count'
      BY <1>0, <3>2, <3>3
    <3> QED
      BY <3>1, <3>2, <3>4 DEF WakesEnough, v
  <2>4. CASE (\E a \in given : nd_mempool_free(a)) /\ HandsOn(pool) /\ ComesBack(pool)
    <3>1. /\ CallersLive'
          /\ \A p \in Object : k'.wait[p] # <<>> => k.wait[p] # <<>>
          /\ k.wait[pool] # <<>> => \E h : Gains(pool, h)
          /\ k.wait[pool] = <<>> => WokenIn(pool)' = WokenIn(pool)
      BY <1>0, <2>4, HandsCounts
    <3>2. /\ IsFiniteSet(WokenIn(pool)')
          /\ k.wait[pool] # <<>> => v = w + 1
      BY <1>0, <3>1, WokenLemma
    <3>3. free_count' = free_count + 1
      BY <2>4 DEF nd_mempool_free
    <3> HIDE DEF v, w
    <3>4. k'.wait[pool] # <<>> => v >= free_count'
      BY <1>0, <3>1, <3>2, <3>3
    <3> QED
      BY <3>1, <3>2, <3>4 DEF WakesEnough, v
  <2>5. CASE LeavesLoop /\ k.error[k.cur] = "ETIMEOUT" /\ UNCHANGED blocks
    <3>1. CallersLive' /\ WokenIn(pool)' = WokenIn(pool)
      BY <1>0, <2>5, LeavesCounts
    <3>2. k' = k /\ free_count' = free_count
      BY <2>5 DEF LeavesLoop, blocks
    <3> QED
      BY <1>0, <3>1, <3>2 DEF WakesEnough
  <2> QED
    BY <1>1, <2>0, <2>1, <2>2, <2>3, <2>4, <2>5
<1>3. UNCHANGED poolVars => UNCHANGED <<k, inside>> /\ UNCHANGED blocks
  BY DEF poolVars, blocks
<1> QED
  BY <1>1, <1>2, <1>3

\* Nobody waits at first.
LEMMA WakesEnoughInit == PoolInit => WakesEnough
<1> SUFFICES ASSUME PoolInit PROVE WakesEnough
  OBVIOUS
<1>1. inside = [t \in Thread |-> NoThread] /\ k.wait = [q \in WaitQueue |-> <<>>]
  BY DEF PoolInit, Init
<1>2. pool \in WaitQueue /\ NoThread \notin Object /\ pool # NoThread
  BY PoolLemma, ObjectLemma
<1>3. WokenIn(pool) = {}
  BY <1>1, <1>2 DEF WokenIn
<1> QED
  BY <1>1, <1>2, <1>3, FS_EmptySet DEF WakesEnough, CallersLive

\* Blocks of an aligned size lie where nd_mempool_free looks for them.
LEMMA AlignedLemma ==
  ASSUME BlockSize % Word = 0, given \subseteq Blocks
  PROVE  BlocksAreAligned
<1> DEFINE B == BlockSize
           W == Word
           N == BlockCount
<1>1. B \in Nat \ {0} /\ W \in Nat \ {0} /\ N \in Nat \ {0} /\ B % W = 0
  BY PoolAssumption
<1>2. \A a \in Blocks : \E i \in 0..N - 1 : a = i * B
  BY DEF Blocks, Block
<1>3. block_size = ((B + W - 1) \div W) * W
  BY DEF block_size
<1> DEFINE bs == block_size
<1> HIDE DEF B, W, N, bs
<1>4. bs = B
  <2>1. PICK q \in Nat : B = q * W
    <3> DEFINE d == B \div W
    <3>1. d \in Nat /\ B = (W * d) + (B % W)
      BY <1>1
    <3> HIDE DEF d
    <3>2. B = d * W
      BY <1>1, <3>1
    <3> QED
      BY <3>1, <3>2
  <2>2. (q * W + (W - 1)) \div W = q
    BY <1>1, <2>1
  <2> QED
    BY <1>1, <1>3, <2>1, <2>2 DEF bs
<1>5. ASSUME NEW i \in 0..N - 1 PROVE i * B < B * N /\ (i * B) % B = 0
  BY <1>1, <1>5
<1>6. \A a \in given : a < bs * N /\ a % bs = 0
  BY <1>2, <1>4, <1>5
<1> QED
  BY <1>6 DEF BlocksAreAligned, bs, N

\* The kernel's tables and the free list agree, while threads wait every free block has a
\* thread on its way, and every block handed out may be given back; where the size of a
\* block is a multiple of a word, and nobody is suspended or aborted inside an allocation.
THEOREM PoolKeeps ==
  ASSUME ~Deferred, {"suspend", "abort"} \cap (Calls \cup IsrCalls) = {},
         BlockSize % Word = 0
  PROVE  PoolSpec => []PoolInv
<1>1. PoolInit => PoolPlaces /\ PoolChain /\ WakesEnough
  BY PoolInitLemma, ChainInit, WakesEnoughInit
<1>2. PoolPlaces /\ PoolChain /\ WakesEnough /\ [PoolNext]_poolVars =>
        PoolPlaces' /\ PoolChain' /\ WakesEnough'
  BY PoolPlacesStep, ChainStep, WakesEnoughStep
<1>3. PoolPlaces => KernelInv
  BY KernelInvForm DEF PoolPlaces, LoopPlaces
<1>4. WakesEnough => NoIdleBlock
  BY DEF WakesEnough, NoIdleBlock, WokenIn, Woken
<1>5. PoolChain => BlocksAreAligned
  BY AlignedLemma DEF PoolChain
<1>6. PoolPlaces /\ PoolChain /\ WakesEnough => PoolInv
  BY <1>3, <1>4, <1>5, ChainKeeps DEF PoolInv
<1> QED
  BY <1>1, <1>2, <1>6, PTL DEF PoolSpec

=============================================================================
