------------------------- MODULE X86CompilerProofs -------------------------
(***************************************************************************)
(* Proofs about X86Compiler, for every program, origin, reach of the jumps *)
(* and number of passes.  The layout is looked at as a set of entries: a   *)
(* lemma tells what an operation on the Map makes of the set, others that  *)
(* placing, replacing and shifting entries of a set keep it laid out.  The *)
(* second half follows the order of the entries and what has become of     *)
(* each node, up to the blobs that are emitted, and in a pass that changes *)
(* nothing the entries that are behind the iterator.  The last part counts *)
(* what each pass has settled: a jump or a TIMES that has grown, or an EQU *)
(* that has its last value.                                                *)
(***************************************************************************)
EXTENDS X86Compiler, TLAPS, SequenceTheorems, FiniteSetTheorems,
        NaturalsInduction, WellFoundedInduction

-----------------------------------------------------------------------------
(* Induction and recursion over numbers, with a set for the predicate.     *)

LEMMA Counting ==
  ASSUME NEW P, 0 \in P, \A n \in Nat : n \in P => n + 1 \in P
  PROVE  \A n \in Nat : n \in P
  <1> DEFINE S == {n \in Nat : n \notin P}
  <1>1. ASSUME S # {} PROVE FALSE
    <2>1. IsWellFoundedOn(OpToRel(<, Nat), Nat)
      BY NatLessThanWellFounded
    <2>2. PICK m \in S : \A n \in S : ~(<<n, m>> \in OpToRel(<, Nat))
      BY <1>1, <2>1, WFMin
    <2>3. m \in Nat /\ m \notin P /\ m # 0
      OBVIOUS
    <2> DEFINE n == m - 1
    <2>4. n \in Nat /\ n + 1 = m /\ n < m
      BY <2>3
    <2> HIDE DEF n
    <2>5. <<n, m>> \in OpToRel(<, Nat)
      BY <2>3, <2>4 DEF OpToRel
    <2>6. n \in P
      BY <2>2, <2>4, <2>5
    <2> QED
      BY <2>3, <2>4, <2>6
  <1> QED
    BY <1>1

\* f goes from c through the steps of F, m of them.
Follows(f, m, c, F) == f = [n \in 0 .. m |-> IF n = 0 THEN c ELSE F[n][f[n - 1]]]

LEMMA Recursion ==
  ASSUME NEW S, NEW c \in S, NEW m \in Nat, NEW F \in [Nat -> [S -> S]]
  PROVE  \E f \in [0 .. m -> S] : Follows(f, m, c, F)
  <1> DEFINE P == {k \in Nat : \E f \in [0 .. k -> S] : Follows(f, k, c, F)}
  <1>1. 0 \in P
    <2> DEFINE f == [n \in 0 .. 0 |-> c]
    <2>1. f \in [0 .. 0 -> S]
      OBVIOUS
    <2>2. f = [n \in 0 .. 0 |-> IF n = 0 THEN c ELSE F[n][f[n - 1]]]
      <3>1. \A n \in 0 .. 0 : n = 0
        OBVIOUS
      <3> QED
        BY <3>1
    <2> HIDE DEF f
    <2> QED
      BY <2>1, <2>2 DEF Follows
  <1>2. ASSUME NEW k \in Nat, k \in P PROVE k + 1 \in P
    <2>1. PICK f \in [0 .. k -> S] : Follows(f, k, c, F)
      BY <1>2
    <2> DEFINE last == F[k + 1][f[k]]
               g == [n \in 0 .. k + 1 |-> IF n = k + 1 THEN last ELSE f[n]]
    <2>2. last \in S
      <3>1. f[k] \in S /\ F[k + 1] \in [S -> S]
        BY <1>2
      <3> QED
        BY <3>1
    <2>3. g \in [0 .. k + 1 -> S]
      <3>1. \A n \in 0 .. k + 1 : n # k + 1 => n \in 0 .. k
        OBVIOUS
      <3> QED
        BY <2>2, <3>1
    <2>4. \A n \in 0 .. k : g[n] = f[n]
      OBVIOUS
    <2>5. g[k + 1] = last
      OBVIOUS
    <2>6. \A n \in 0 .. k : f[n] = IF n = 0 THEN c ELSE F[n][f[n - 1]]
      BY <2>1, Zenon DEF Follows
    <2> HIDE DEF g
    <2>7. ASSUME NEW n \in 0 .. k + 1
          PROVE  g[n] = IF n = 0 THEN c ELSE F[n][g[n - 1]]
      <3>1. CASE n = k + 1
        <4>1. g[n - 1] = f[k] /\ n # 0
          BY <2>4, <3>1
        <4> QED
          BY <2>5, <3>1, <4>1
      <3>2. CASE n # k + 1
        <4>1. n \in 0 .. k /\ (n # 0 => n - 1 \in 0 .. k)
          BY <3>2
        <4>2. g[n] = f[n] /\ (n # 0 => g[n - 1] = f[n - 1])
          BY <2>4, <4>1
        <4> QED
          BY <2>6, <4>1, <4>2
      <3> QED
        BY <3>1, <3>2
    <2>8. g = [n \in 0 .. k + 1 |-> IF n = 0 THEN c ELSE F[n][g[n - 1]]]
      BY <2>3, <2>7
    <2>9. Follows(g, k + 1, c, F)
      BY <2>8, Zenon DEF Follows
    <2>10. k + 1 \in Nat
      OBVIOUS
    <2> QED
      BY <2>3, <2>9, <2>10
  <1> HIDE DEF P
  <1>3. m \in P
    BY <1>1, <1>2, Counting
  <1> QED
    BY <1>3 DEF P

-----------------------------------------------------------------------------
(* What is left of a map when entries are deleted.                         *)

IsOnce(s) == \A i, j \in DOMAIN s : s[i] = s[j] => i = j

LEMMA Appended ==
  ASSUME NEW S, NEW q \in Seq(S), NEW x \in S
  PROVE  /\ Append(q, x) \in Seq(S)
         /\ ToSet(Append(q, x)) = ToSet(q) \cup {x}
         /\ IsOnce(q) /\ x \notin ToSet(q) => IsOnce(Append(q, x))
  <1>1. /\ Append(q, x) \in Seq(S) /\ Len(Append(q, x)) = Len(q) + 1
        /\ \A i \in 1 .. Len(q) : Append(q, x)[i] = q[i]
        /\ Append(q, x)[Len(q) + 1] = x
    OBVIOUS
  <1> DEFINE p == Append(q, x)
  <1>2. DOMAIN p = 1 .. Len(q) + 1 /\ DOMAIN q = 1 .. Len(q) /\ Len(q) \in Nat
    BY <1>1
  <1> HIDE DEF p
  <1>3. /\ \A i \in DOMAIN q : i \in DOMAIN p /\ p[i] = q[i]
        /\ Len(q) + 1 \in DOMAIN p /\ p[Len(q) + 1] = x
        /\ \A i \in DOMAIN p : i \in DOMAIN q \/ i = Len(q) + 1
    BY <1>1, <1>2 DEF p
  <1>4. ToSet(p) = ToSet(q) \cup {x}
    BY <1>3 DEF ToSet
  <1>5. ASSUME IsOnce(q), x \notin ToSet(q) PROVE IsOnce(p)
    <2>1. \A i \in DOMAIN q : q[i] # x
      BY <1>5 DEF ToSet
    <2> QED
      BY <1>3, <1>5, <2>1 DEF IsOnce
  <1> QED
    BY <1>1, <1>4, <1>5 DEF p

\* How Only runs over the map, entry by entry.
Runs(only, S, map, T) ==
  /\ only \in [0 .. Len(map) -> Seq(S)] /\ only[0] = << >>
  /\ \A i \in 1 .. Len(map) :
       only[i] = IF map[i] \in T THEN Append(only[i - 1], map[i]) ELSE only[i - 1]
  /\ Only(map, T) = only[Len(map)]

LEMMA OnlyRuns ==
  ASSUME NEW S, NEW map \in Seq(S), NEW T
  PROVE  \E only : Runs(only, S, map, T)
  <1> DEFINE m == Len(map)
             F == [n \in Nat |-> [q \in Seq(S) |-> IF n \in DOMAIN map
                                                   THEN IF map[n] \in T THEN Append(q, map[n]) ELSE q
                                                   ELSE q]]
             Q(f) == f = [i \in 0 .. m |-> IF i = 0 THEN << >>
                                           ELSE IF map[i] \in T THEN Append(f[i - 1], map[i])
                                                ELSE f[i - 1]]
             only == CHOOSE f : Q(f)
  <1>1. m \in Nat /\ DOMAIN map = 1 .. m
    OBVIOUS
  <1>2. F \in [Nat -> [Seq(S) -> Seq(S)]]
    OBVIOUS
  <1>3. \A n \in 1 .. m : \A q \in Seq(S) :
          F[n][q] = IF map[n] \in T THEN Append(q, map[n]) ELSE q
    BY <1>1
  <1>4. << >> \in Seq(S)
    OBVIOUS
  <1> HIDE DEF F
  <1>5. PICK f \in [0 .. m -> Seq(S)] : Follows(f, m, << >>, F)
    BY <1>1, <1>2, <1>4, Recursion
  <1>6. Q(f)
    <2>1. ASSUME NEW i \in 0 .. m
          PROVE  f[i] = IF i = 0 THEN << >>
                        ELSE IF map[i] \in T THEN Append(f[i - 1], map[i]) ELSE f[i - 1]
      <3>1. f[i] = IF i = 0 THEN << >> ELSE F[i][f[i - 1]]
        BY <1>5, Zenon DEF Follows
      <3>2. i # 0 => i \in 1 .. m /\ f[i - 1] \in Seq(S)
        BY <1>1
      <3> QED
        BY <1>3, <3>1, <3>2
    <2> QED
      BY <2>1
  <1> HIDE DEF Q
  <1>7. Q(only)
    BY <1>6
  <1> HIDE DEF only
  <1>8. \A i \in 0 .. m : only[i] = IF i = 0 THEN << >>
                                    ELSE IF map[i] \in T THEN Append(only[i - 1], map[i])
                                         ELSE only[i - 1]
    BY <1>7, Zenon DEF Q
  <1> DEFINE P == {i \in Nat : i <= m => only[i] \in Seq(S)}
  <1>9. 0 \in P
    <2>1. only[0] = << >>
      BY <1>1, <1>8
    <2> QED
      BY <1>4, <2>1
  <1>10. ASSUME NEW i \in Nat, i \in P PROVE i + 1 \in P
    <2> SUFFICES ASSUME i + 1 <= m PROVE only[i + 1] \in Seq(S)
      OBVIOUS
    <2>1. only[i] \in Seq(S)
      BY <1>1, <1>10
    <2>2. i + 1 \in 1 .. m /\ i + 1 \in 0 .. m /\ i + 1 # 0 /\ (i + 1) - 1 = i
      BY <1>1
    <2>3. only[i + 1] = IF map[i + 1] \in T THEN Append(only[i], map[i + 1]) ELSE only[i]
      BY <1>8, <2>2
    <2>4. map[i + 1] \in S
      BY <1>1, <2>2
    <2> QED
      BY <2>1, <2>3, <2>4
  <1> HIDE DEF P
  <1>11. \A i \in Nat : i \in P
    BY <1>9, <1>10, Counting
  <1>12. \A i \in 0 .. m : only[i] \in Seq(S)
    BY <1>1, <1>11 DEF P
  <1>13. only = [i \in 0 .. m |-> only[i]]
    BY <1>7, Zenon DEF Q
  <1>14. only \in [0 .. m -> Seq(S)]
    BY <1>12, <1>13
  <1>15. Only(map, T) = only[m]
    BY DEF Only, only, Q
  <1>16. only[0] = << >>
    BY <1>1, <1>8
  <1>17. \A i \in 1 .. m :
           only[i] = IF map[i] \in T THEN Append(only[i - 1], map[i]) ELSE only[i - 1]
    BY <1>1, <1>8
  <1> HIDE DEF m
  <1>18. Runs(only, S, map, T)
    BY <1>14, <1>15, <1>16, <1>17 DEF Runs, m
  <1> QED
    BY <1>18

LEMMA OnlyFacts ==
  ASSUME NEW S, NEW map \in Seq(S), NEW T
  PROVE  /\ Only(map, T) \in Seq(S)
         /\ ToSet(Only(map, T)) = ToSet(map) \cap T
         /\ IsOnce(map) => IsOnce(Only(map, T))
  <1> DEFINE m == Len(map)
  <1>1. m \in Nat /\ DOMAIN map = 1 .. m
    OBVIOUS
  <1>2. PICK only : Runs(only, S, map, T)
    BY OnlyRuns
  <1>3. only[0] = << >> /\ << >> \in Seq(S)
    BY <1>2 DEF Runs
  <1>4. \A i \in 1 .. m :
          only[i] = IF map[i] \in T THEN Append(only[i - 1], map[i]) ELSE only[i - 1]
    BY <1>2 DEF Runs
  <1> DEFINE Prefix(i) == {map[j] : j \in 1 .. i}
             R(i) == /\ only[i] \in Seq(S)
                     /\ ToSet(only[i]) = Prefix(i) \cap T
                     /\ IsOnce(map) => IsOnce(only[i])
             P == {i \in Nat : i <= m => R(i)}
  <1>9. 0 \in P
    <2>1. only[0] = << >>
      BY <1>3
    <2>2. ToSet(<< >>) = {} /\ Prefix(0) = {} /\ IsOnce(<< >>)
      BY DEF ToSet, IsOnce
    <2> QED
      BY <1>3, <2>1, <2>2
  <1>10. ASSUME NEW i \in Nat, i \in P PROVE i + 1 \in P
    <2> SUFFICES ASSUME i + 1 <= m PROVE R(i + 1)
      OBVIOUS
    <2>1. R(i)
      BY <1>1, <1>10
    <2>2. i + 1 \in 1 .. m /\ i + 1 \in 0 .. m /\ i + 1 # 0 /\ (i + 1) - 1 = i
      BY <1>1
    <2>3. only[i + 1] = IF map[i + 1] \in T THEN Append(only[i], map[i + 1]) ELSE only[i]
      BY <1>4, <2>2
    <2>4. map[i + 1] \in S
      BY <1>1, <2>2
    <2>5. Prefix(i + 1) = Prefix(i) \cup {map[i + 1]}
      <3>1. \A j : j \in 1 .. i + 1 <=> (j \in 1 .. i \/ j = i + 1)
        OBVIOUS
      <3> QED
        BY <3>1
    <2>6. IsOnce(map) => map[i + 1] \notin Prefix(i)
      <3>1. \A j \in 1 .. i : j \in DOMAIN map /\ j # i + 1
        BY <1>1, <2>2
      <3>2. i + 1 \in DOMAIN map
        BY <1>1, <2>2
      <3> QED
        BY <3>1, <3>2 DEF IsOnce
    <2> HIDE DEF Prefix
    <2>7. CASE map[i + 1] \in T
      <3> DEFINE q == only[i]
                 x == map[i + 1]
      <3>1. q \in Seq(S) /\ x \in S /\ only[i + 1] = Append(q, x)
        BY <2>1, <2>3, <2>4, <2>7
      <3> HIDE DEF q, x
      <3>2. /\ Append(q, x) \in Seq(S)
            /\ ToSet(Append(q, x)) = ToSet(q) \cup {x}
            /\ IsOnce(q) /\ x \notin ToSet(q) => IsOnce(Append(q, x))
        BY <3>1, Appended
      <3> QED
        BY <2>1, <2>5, <2>6, <2>7, <3>1, <3>2 DEF q, x
    <2>8. CASE map[i + 1] \notin T
      BY <2>1, <2>3, <2>5, <2>8
    <2> QED
      BY <2>7, <2>8
  <1> HIDE DEF P
  <1>11. m \in P
    BY <1>1, <1>9, <1>10, Counting
  <1>12. R(m)
    BY <1>1, <1>11 DEF P
  <1>13. Prefix(m) = ToSet(map)
    BY <1>1 DEF ToSet
  <1>14. Only(map, T) = only[m]
    BY <1>2 DEF Runs
  <1> QED
    BY <1>12, <1>13, <1>14

LEMMA Concatenated ==
  ASSUME NEW S, NEW p \in Seq(S), NEW q \in Seq(S)
  PROVE  /\ p \o q \in Seq(S)
         /\ Len(p \o q) = Len(p) + Len(q)
         /\ ToSet(p \o q) = ToSet(p) \cup ToSet(q)
         /\ IsOnce(p) /\ IsOnce(q) /\ ToSet(p) \cap ToSet(q) = {} => IsOnce(p \o q)
  <1> DEFINE r == p \o q
  <1>1. /\ r \in Seq(S) /\ Len(r) = Len(p) + Len(q)
        /\ \A i \in 1 .. Len(p) : r[i] = p[i]
        /\ \A i \in 1 .. Len(q) : r[Len(p) + i] = q[i]
    BY ConcatProperties
  <1>2. /\ DOMAIN p = 1 .. Len(p) /\ DOMAIN q = 1 .. Len(q) /\ DOMAIN r = 1 .. Len(p) + Len(q)
        /\ Len(p) \in Nat /\ Len(q) \in Nat
    BY <1>1
  <1> HIDE DEF r
  <1>3. \A i \in DOMAIN r : i \in DOMAIN p \/ (i - Len(p) \in DOMAIN q /\ r[i] = q[i - Len(p)])
    <2> SUFFICES ASSUME NEW i \in DOMAIN r, i \notin DOMAIN p
                 PROVE  i - Len(p) \in DOMAIN q /\ r[i] = q[i - Len(p)]
      OBVIOUS
    <2> DEFINE j == i - Len(p)
    <2>1. j \in 1 .. Len(q) /\ i = Len(p) + j
      BY <1>2
    <2> QED
      BY <1>1, <1>2, <2>1
  <1>4. \A i \in DOMAIN q : Len(p) + i \in DOMAIN r /\ r[Len(p) + i] = q[i]
    BY <1>1, <1>2
  <1>5. \A i \in DOMAIN p : i \in DOMAIN r /\ r[i] = p[i]
    BY <1>1, <1>2
  <1>6. ToSet(r) = ToSet(p) \cup ToSet(q)
    BY <1>3, <1>4, <1>5 DEF ToSet
  <1>7. ASSUME IsOnce(p), IsOnce(q), ToSet(p) \cap ToSet(q) = {} PROVE IsOnce(r)
    <2> SUFFICES ASSUME NEW i \in DOMAIN r, NEW j \in DOMAIN r, r[i] = r[j] PROVE i = j
      BY DEF IsOnce
    <2>1. \A k \in DOMAIN p : \A l \in DOMAIN q : p[k] # q[l]
      BY <1>7 DEF ToSet
    <2>2. CASE i \in DOMAIN p /\ j \in DOMAIN p
      BY <1>5, <1>7, <2>2 DEF IsOnce
    <2>3. CASE i \notin DOMAIN p /\ j \notin DOMAIN p
      <3>1. i - Len(p) = j - Len(p)
        BY <1>3, <1>7, <2>3 DEF IsOnce
      <3> QED
        BY <1>2, <3>1
    <2>4. CASE i \in DOMAIN p /\ j \notin DOMAIN p
      BY <1>3, <1>5, <2>1, <2>4
    <2>5. CASE i \notin DOMAIN p /\ j \in DOMAIN p
      BY <1>3, <1>5, <2>1, <2>5
    <2> QED
      BY <2>2, <2>3, <2>4, <2>5
  <1> QED
    BY <1>1, <1>6, <1>7 DEF r

-----------------------------------------------------------------------------
(* Entries of the Map.                                                     *)

Asts == EquNodes \cup ByteNodes \cup TimesNodes

Blobs ==
  [node : Nat, ast : Asts, size : Nat, val : Int \cup {NIL}, slaves : Seq(Names)]

MapEntries == [at : Nat, blob : Blobs]

Shifted(e, d) == [e EXCEPT !.at = @ + d]

Upto(entries, addr)   == {e \in entries : e.at <= addr}
Below(entries, addr)  == {e \in entries : e.at < addr}
Behind(entries, addr) == {e \in entries : e.at > addr}

LEMMA ShiftedFacts ==
  ASSUME NEW e \in MapEntries, NEW d \in Int, e.at + d \in Nat
  PROVE  /\ Shifted(e, d) \in MapEntries /\ Shifted(e, d).at = e.at + d
         /\ Shifted(e, d).blob = e.blob
         /\ Ends(Shifted(e, d)) = Ends(e) + d
  <1>1. /\ Shifted(e, d) \in MapEntries /\ Shifted(e, d).at = e.at + d
        /\ Shifted(e, d).blob = e.blob
    BY DEF Shifted, MapEntries
  <1>2. e.at \in Nat /\ e.blob.size \in Nat
    BY DEF MapEntries, Blobs
  <1> QED
    BY <1>1, <1>2 DEF Ends

\* Different entries are still different when they have been shifted.
LEMMA ShiftedApart ==
  ASSUME NEW e \in MapEntries, NEW f \in MapEntries, NEW d \in Int,
         Shifted(e, d) = Shifted(f, d)
  PROVE  e = f
  <1>1. Shifted(e, d).at = e.at + d /\ Shifted(f, d).at = f.at + d
    BY DEF Shifted, MapEntries
  <1>2. Shifted(e, d).blob = e.blob /\ Shifted(f, d).blob = f.blob
    BY DEF Shifted, MapEntries
  <1>3. e.at \in Nat /\ f.at \in Nat
    BY DEF MapEntries
  <1>4. e.at = f.at /\ e.blob = f.blob
    BY <1>1, <1>2, <1>3
  <1> QED
    BY <1>4 DEF MapEntries

\* The entries behind addr of a resized map are shifted, in whatever order.
LEMMA ResizedFacts ==
  ASSUME NEW map \in Seq(MapEntries), IsOnce(map), NEW addr \in Nat, NEW d \in Int,
         \A e \in ToSet(map) : e.at > addr =>
           /\ e.at + d \in Nat
           /\ \A f \in ToSet(map) : f.at <= addr => f.at < e.at + d
  PROVE  LET r == Resized(map, addr, d) IN
         /\ r \in Seq(MapEntries) /\ IsOnce(r)
         /\ ToSet(r) = Upto(ToSet(map), addr) \cup {Shifted(e, d) : e \in Behind(ToSet(map), addr)}
  <1> DEFINE kept  == Only(map, Upto(ToSet(map), addr))
             moved == Only(map, Behind(ToSet(map), addr))
             shift == [i \in DOMAIN moved |-> [moved[i] EXCEPT !.at = Moved(@, addr, d)]]
  <1>1. /\ kept \in Seq(MapEntries) /\ IsOnce(kept)
        /\ ToSet(kept) = ToSet(map) \cap Upto(ToSet(map), addr)
    BY OnlyFacts
  <1>2. /\ moved \in Seq(MapEntries) /\ IsOnce(moved)
        /\ ToSet(moved) = ToSet(map) \cap Behind(ToSet(map), addr)
    BY OnlyFacts
  <1>3. Resized(map, addr, d) = kept \o shift
    BY DEF Resized, Upto, Behind
  <1> HIDE DEF kept, moved
  <1>4. ASSUME NEW i \in DOMAIN moved
        PROVE  /\ moved[i] \in MapEntries /\ moved[i] \in ToSet(map) /\ moved[i].at > addr
               /\ moved[i].at + d \in Nat
               /\ shift[i] = Shifted(moved[i], d)
    <2>1. moved[i] \in ToSet(moved)
      BY DEF ToSet
    <2>2. moved[i] \in ToSet(map) /\ moved[i].at > addr
      BY <1>2, <2>1 DEF Behind
    <2>3. moved[i] \in MapEntries
      BY <1>2
    <2>4. shift[i] = Shifted(moved[i], d)
      BY <2>2 DEF Shifted, Moved
    <2> QED
      BY <2>2, <2>3, <2>4
  <1>5. shift \in Seq(MapEntries) /\ DOMAIN shift = DOMAIN moved
    <2>1. \A i \in DOMAIN moved : shift[i] \in MapEntries
      BY <1>4, ShiftedFacts
    <2>2. DOMAIN moved = 1 .. Len(moved) /\ Len(moved) \in Nat
      BY <1>2
    <2>3. shift \in [1 .. Len(moved) -> MapEntries]
      BY <2>1, <2>2
    <2> QED
      BY <2>2, <2>3, IsASeq
  <1> HIDE DEF shift
  <1>6. ToSet(shift) = {Shifted(e, d) : e \in Behind(ToSet(map), addr)}
    <2>1. ToSet(shift) = {Shifted(moved[i], d) : i \in DOMAIN moved}
      BY <1>4, <1>5 DEF ToSet
    <2>2. Behind(ToSet(map), addr) = {moved[i] : i \in DOMAIN moved}
      BY <1>2 DEF ToSet, Behind
    <2> QED
      BY <2>1, <2>2
  <1>7. IsOnce(shift)
    <2> SUFFICES ASSUME NEW i \in DOMAIN moved, NEW j \in DOMAIN moved, shift[i] = shift[j]
                 PROVE  i = j
      BY <1>5 DEF IsOnce
    <2>1. Shifted(moved[i], d) = Shifted(moved[j], d)
      BY <1>4
    <2>2. moved[i] \in MapEntries /\ moved[j] \in MapEntries
      BY <1>4
    <2>3. moved[i] = moved[j]
      BY <2>1, <2>2, ShiftedApart
    <2> QED
      BY <1>2, <2>3 DEF IsOnce
  <1>8. ToSet(kept) \cap ToSet(shift) = {}
    <2> SUFFICES ASSUME NEW f \in ToSet(kept), NEW i \in DOMAIN moved, f = shift[i]
                 PROVE  FALSE
      BY <1>5 DEF ToSet
    <2>1. f \in ToSet(map) /\ f.at <= addr /\ f \in MapEntries
      <3>1. f \in ToSet(map) /\ f.at <= addr
        BY <1>1 DEF Upto
      <3> QED
        BY <3>1 DEF ToSet
    <2>2. f.at = moved[i].at + d
      BY <1>4, ShiftedFacts
    <2>3. f.at < moved[i].at + d
      BY <1>4, <2>1
    <2>4. f.at \in Nat
      BY <2>1 DEF MapEntries
    <2> QED
      BY <2>2, <2>3, <2>4
  <1>9. /\ kept \o shift \in Seq(MapEntries) /\ IsOnce(kept \o shift)
        /\ ToSet(kept \o shift) = ToSet(kept) \cup ToSet(shift)
    BY <1>1, <1>5, <1>7, <1>8, Concatenated
  <1>10. ToSet(kept) = Upto(ToSet(map), addr)
    BY <1>1 DEF Upto
  <1> QED
    BY <1>3, <1>6, <1>9, <1>10

-----------------------------------------------------------------------------
(* Layouts.                                                                *)

\* Only an EQU has no bytes, and a TIMES has one until it is expanded.
Sized(b) ==
  /\ b.size = 0 <=> b.ast.kind = "EQU"
  /\ b.ast.kind = "TIMES" => b.size = 1

\* Addresses go with the order of the source.
InOrder(entries) == \A d, e \in entries : d.at < e.at => d.blob.node <= e.blob.node

Layout(entries) ==
  /\ Tiled(entries) /\ InOrder(entries)
  /\ \A d, e \in entries : d.at = e.at => d = e
  /\ \A e \in entries : e \in MapEntries /\ e.at >= Origin /\ Sized(e.blob)

LEMMA Numbers ==
  ASSUME NEW e \in MapEntries
  PROVE  /\ e.at \in Nat /\ e.blob.size \in Nat /\ e.blob.node \in Nat
         /\ Ends(e) \in Nat /\ Ends(e) = e.at + e.blob.size
  <1>1. e.at \in Nat /\ e.blob.size \in Nat /\ e.blob.node \in Nat
    BY DEF MapEntries, Blobs
  <1> QED
    BY <1>1 DEF Ends

LEMMA OriginIsNat == Origin \in Nat
  BY BoundsAssumption

\* The entries of c take the place of x, with n bytes.
Fills(c, x, n) ==
  /\ \A e \in c : /\ e \in MapEntries /\ Sized(e.blob) /\ e.blob.size > 0
                  /\ e.blob.node = x.blob.node /\ x.at <= e.at /\ Ends(e) <= x.at + n
  /\ \A e \in c : e.at = x.at \/ \E d \in c : d.at < e.at /\ Ends(d) = e.at
  /\ \A d, e \in c : d.at < e.at => Ends(d) <= e.at
  /\ \A d, e \in c : d.at = e.at => d = e
  /\ n > 0 => \E e \in c : Ends(e) = x.at + n

\* The entries with those of c in the place of x, and what is behind shifted.
Replaced(entries, x, c, n) ==
  Below(entries, x.at) \cup c
    \cup {Shifted(e, n - x.blob.size) : e \in Behind(entries, x.at)}

\* Where the three parts of a layout with a replaced entry lie.
Regions(entries, x, c, n) ==
  /\ \A e \in Below(entries, x.at) :
       /\ e \in entries /\ e \in MapEntries /\ e.at < x.at /\ Ends(e) <= x.at
       /\ e.at >= Origin /\ e.blob.node <= x.blob.node
  /\ \A e \in c :
       /\ e \in MapEntries /\ x.at <= e.at /\ e.at < Ends(e) /\ Ends(e) <= x.at + n
       /\ e.blob.node = x.blob.node
  /\ \A e \in Behind(entries, x.at) :
       LET f == Shifted(e, n - x.blob.size) IN
       /\ e \in entries /\ e \in MapEntries /\ e.at >= Ends(x)
       /\ f \in MapEntries /\ f.blob = e.blob /\ f.at >= x.at + n
       /\ f.at = e.at + (n - x.blob.size) /\ Ends(f) = Ends(e) + (n - x.blob.size)
       /\ e.blob.node >= x.blob.node

LEMMA RegionsHold ==
  ASSUME NEW entries, Layout(entries), NEW x \in entries, x.blob.size > 0,
         NEW c, NEW n \in Nat, Fills(c, x, n)
  PROVE  Regions(entries, x, c, n)
  <1>1. /\ x \in MapEntries /\ x.at \in Nat /\ x.blob.size \in Nat /\ x.blob.node \in Nat
        /\ Ends(x) \in Nat /\ Ends(x) = x.at + x.blob.size
    BY Numbers DEF Layout
  <1>2. ASSUME NEW e \in Below(entries, x.at)
        PROVE  /\ e \in entries /\ e \in MapEntries /\ e.at < x.at /\ Ends(e) <= x.at
               /\ e.at >= Origin /\ e.blob.node <= x.blob.node
    BY DEF Below, Layout, Tiled, InOrder
  <1>3. ASSUME NEW e \in c
        PROVE  /\ e \in MapEntries /\ x.at <= e.at /\ e.at < Ends(e) /\ Ends(e) <= x.at + n
               /\ e.blob.node = x.blob.node
    <2>1. e \in MapEntries /\ e.blob.size > 0 /\ x.at <= e.at /\ Ends(e) <= x.at + n
          /\ e.blob.node = x.blob.node
      BY DEF Fills
    <2>2. e.at \in Nat /\ e.blob.size \in Nat /\ Ends(e) = e.at + e.blob.size
      BY <2>1, Numbers
    <2> QED
      BY <2>1, <2>2
  <1>4. ASSUME NEW e \in Behind(entries, x.at)
        PROVE  LET f == Shifted(e, n - x.blob.size) IN
               /\ e \in entries /\ e \in MapEntries /\ e.at >= Ends(x)
               /\ f \in MapEntries /\ f.blob = e.blob /\ f.at >= x.at + n
               /\ f.at = e.at + (n - x.blob.size) /\ Ends(f) = Ends(e) + (n - x.blob.size)
               /\ e.blob.node >= x.blob.node
    <2>1. e \in entries /\ e \in MapEntries /\ x.at < e.at
      BY DEF Behind, Layout
    <2>2. Ends(x) <= e.at /\ x.blob.node <= e.blob.node
      BY <2>1 DEF Layout, Tiled, InOrder
    <2>3. e.at \in Nat /\ e.blob.node \in Nat
      BY <2>1, Numbers
    <2> DEFINE d == n - x.blob.size
    <2>4. d \in Int /\ e.at + d \in Nat /\ e.at + d >= x.at + n
      BY <1>1, <2>2, <2>3
    <2> HIDE DEF d
    <2>5. /\ Shifted(e, d) \in MapEntries /\ Shifted(e, d).at = e.at + d
          /\ Shifted(e, d).blob = e.blob
          /\ Ends(Shifted(e, d)) = Ends(e) + d
      BY <2>1, <2>4, ShiftedFacts
    <2>6. Shifted(e, d).at >= x.at + n
      BY <2>4, <2>5
    <2>7. e.at >= Ends(x) /\ e.blob.node >= x.blob.node
      BY <1>1, <2>2, <2>3
    <2> QED
      BY <2>1, <2>5, <2>6, <2>7 DEF d
  <1> QED
    BY <1>2, <1>3, <1>4 DEF Regions

\* What replaces an entry, with what is behind it shifted by the difference of
\* sizes, leaves no hole and no overlap.
LEMMA ReplacedLayout ==
  ASSUME NEW entries, Layout(entries), NEW x \in entries, x.blob.size > 0,
         NEW c, NEW n \in Nat, Fills(c, x, n)
  PROVE  Layout(Replaced(entries, x, c, n))
  <1> DEFINE lower == Below(entries, x.at)
             upper == Behind(entries, x.at)
             s(e)  == Shifted(e, n - x.blob.size)
             new   == Replaced(entries, x, c, n)
             Kinds(e) == \/ e \in lower
                         \/ e \in c
                         \/ \E f \in upper : e = s(f)
  <1>1. /\ x \in MapEntries /\ x.at \in Nat /\ x.blob.size \in Nat /\ x.blob.node \in Nat
        /\ Ends(x) \in Nat /\ Ends(x) = x.at + x.blob.size /\ x.at >= Origin /\ Origin \in Nat
    BY Numbers, OriginIsNat DEF Layout
  <1>2. Regions(entries, x, c, n)
    BY RegionsHold
  <1>3. \A e \in lower :
          /\ e \in entries /\ e \in MapEntries /\ e.at < x.at /\ Ends(e) <= x.at
          /\ e.at >= Origin /\ e.blob.node <= x.blob.node
    BY <1>2 DEF Regions
  <1>4. \A e \in c :
          /\ e \in MapEntries /\ x.at <= e.at /\ e.at < Ends(e) /\ Ends(e) <= x.at + n
          /\ e.blob.node = x.blob.node
    BY <1>2 DEF Regions
  <1>5. \A e \in upper :
          /\ e \in entries /\ e \in MapEntries /\ e.at >= Ends(x)
          /\ s(e) \in MapEntries /\ s(e).blob = e.blob /\ s(e).at >= x.at + n
          /\ s(e).at = e.at + (n - x.blob.size) /\ Ends(s(e)) = Ends(e) + (n - x.blob.size)
          /\ e.blob.node >= x.blob.node
    BY <1>2 DEF Regions
  <1>6. \A e \in new : Kinds(e)
    BY DEF Replaced
  <1>7. /\ \A e \in lower : e \in new
        /\ \A e \in c : e \in new
        /\ \A e \in upper : s(e) \in new
    BY DEF Replaced
  <1>8. /\ \A e \in entries : e.at < x.at => e \in lower
        /\ \A e \in entries : e.at > x.at => e \in upper
        /\ \A e \in entries : e.at = x.at => e = x
    BY DEF Below, Behind, Layout
  <1> HIDE DEF lower, upper, s, new
  <1>9. ASSUME NEW e \in new
        PROVE  e \in MapEntries /\ e.at >= Origin /\ Sized(e.blob)
    <2>1. CASE e \in lower
      BY <1>3, <2>1 DEF Layout
    <2>2. CASE e \in c
      <3>1. e \in MapEntries /\ Sized(e.blob) /\ x.at <= e.at
        BY <2>2 DEF Fills
      <3>2. e.at \in Nat
        BY <3>1, Numbers
      <3> QED
        BY <1>1, <3>1, <3>2
    <2>3. ASSUME NEW f \in upper, e = s(f)
          PROVE  e \in MapEntries /\ e.at >= Origin /\ Sized(e.blob)
      <3>1. e \in MapEntries /\ e.blob = f.blob /\ e.at >= x.at + n
        BY <1>5, <2>3
      <3>2. Sized(f.blob)
        BY <1>5 DEF Layout
      <3>3. e.at \in Nat
        BY <3>1, Numbers
      <3> QED
        BY <1>1, <3>1, <3>2, <3>3
    <2> QED
      BY <1>6, <2>1, <2>2, <2>3
  <1>10. ASSUME NEW e \in new
         PROVE  /\ e.at \in Nat /\ e.blob.node \in Nat /\ Ends(e) \in Nat
    BY <1>9, Numbers
  <1>11. \A e \in entries : e.at \in Nat /\ e.blob.node \in Nat /\ Ends(e) \in Nat
    BY Numbers DEF Layout
  \* Two entries of the new layout.
  <1>12. ASSUME NEW d \in new, NEW e \in new
         PROVE  /\ d.at < e.at => Ends(d) <= e.at /\ d.blob.node <= e.blob.node
                /\ d.at = e.at => d = e
    <2> DEFINE Goal == /\ d.at < e.at => Ends(d) <= e.at /\ d.blob.node <= e.blob.node
                       /\ d.at = e.at => d = e
    <2>0. /\ d.at \in Nat /\ e.at \in Nat /\ Ends(d) \in Nat /\ Ends(e) \in Nat
          /\ d.blob.node \in Nat /\ e.blob.node \in Nat
      BY <1>10
    <2>1. CASE d \in lower /\ e \in lower
      <3>1. d \in entries /\ e \in entries
        BY <1>3, <2>1
      <3> QED
        BY <3>1 DEF Layout, Tiled, InOrder
    <2>2. CASE d \in lower /\ e \in c
      <3>1. d.at < x.at /\ Ends(d) <= x.at /\ d.blob.node <= x.blob.node
            /\ x.at <= e.at /\ e.blob.node = x.blob.node
        BY <1>3, <1>4, <2>2
      <3> QED
        BY <1>1, <2>0, <3>1
    <2>3. ASSUME d \in lower, NEW f \in upper, e = s(f) PROVE Goal
      <3>1. d.at < x.at /\ Ends(d) <= x.at /\ d.blob.node <= x.blob.node
            /\ e.at >= x.at + n /\ e.blob.node >= x.blob.node
        BY <1>3, <1>5, <2>3
      <3> QED
        BY <1>1, <2>0, <3>1
    <2>4. CASE d \in c /\ e \in lower
      <3>1. e.at < x.at /\ x.at <= d.at
        BY <1>3, <1>4, <2>4
      <3> QED
        BY <1>1, <2>0, <3>1
    <2>5. CASE d \in c /\ e \in c
      <3>1. d.blob.node = e.blob.node
        BY <1>4, <2>5
      <3>2. (d.at < e.at => Ends(d) <= e.at) /\ (d.at = e.at => d = e)
        BY <2>5 DEF Fills
      <3> QED
        BY <2>0, <3>1, <3>2
    <2>6. ASSUME d \in c, NEW f \in upper, e = s(f) PROVE Goal
      <3>1. /\ d.at < Ends(d) /\ Ends(d) <= x.at + n /\ d.blob.node = x.blob.node
            /\ e.at >= x.at + n /\ e.blob.node >= x.blob.node
        BY <1>4, <1>5, <2>6
      <3> QED
        BY <1>1, <2>0, <3>1
    <2>7. ASSUME NEW f \in upper, d = s(f), e \in lower PROVE Goal
      <3>1. e.at < x.at /\ d.at >= x.at + n
        BY <1>3, <1>5, <2>7
      <3> QED
        BY <1>1, <2>0, <3>1
    <2>8. ASSUME NEW f \in upper, d = s(f), e \in c PROVE Goal
      <3>1. e.at < Ends(e) /\ Ends(e) <= x.at + n /\ d.at >= x.at + n
        BY <1>4, <1>5, <2>8
      <3> QED
        BY <1>1, <2>0, <3>1
    <2>9. ASSUME NEW f \in upper, d = s(f), NEW g \in upper, e = s(g) PROVE Goal
      <3>1. f \in entries /\ g \in entries
        BY <1>5
      <3>2. /\ d.at = f.at + (n - x.blob.size) /\ Ends(d) = Ends(f) + (n - x.blob.size)
            /\ e.at = g.at + (n - x.blob.size) /\ d.blob = f.blob /\ e.blob = g.blob
        BY <1>5, <2>9
      <3>3. /\ f.at < g.at => Ends(f) <= g.at /\ f.blob.node <= g.blob.node
            /\ f.at = g.at => f = g
        BY <3>1 DEF Layout, Tiled, InOrder
      <3>4. f.at \in Nat /\ g.at \in Nat /\ Ends(f) \in Nat
        BY <1>11, <3>1
      <3>5. (d.at < e.at => f.at < g.at) /\ (d.at = e.at => f.at = g.at)
        BY <1>1, <3>2, <3>4
      <3>6. Ends(f) <= g.at => Ends(d) <= e.at
        BY <1>1, <3>2, <3>4
      <3> QED
        BY <2>9, <3>2, <3>3, <3>5, <3>6
    <2> QED
      BY <1>6, <2>1, <2>2, <2>3, <2>4, <2>5, <2>6, <2>7, <2>8, <2>9
  \* Each starts where another ends.
  <1> DEFINE Based(e) == e.at = Origin \/ \E d \in new : d.at < e.at /\ Ends(d) = e.at
  <1>13. x.at = Origin \/ \E d \in lower : d.at < x.at /\ Ends(d) = x.at
    <2>1. x.at = Origin \/ \E d \in entries : d.at < x.at /\ Ends(d) = x.at
      BY DEF Layout, Tiled
    <2> QED
      BY <1>8, <2>1
  <1>14. ASSUME NEW e \in new PROVE Based(e)
    <2>1. CASE e \in lower
      <3>1. e \in entries /\ e.at < x.at /\ e.at \in Nat
        BY <1>3, <1>10, <2>1
      <3>2. CASE e.at = Origin
        BY <3>2
      <3>3. ASSUME NEW d \in entries, d.at < e.at, Ends(d) = e.at PROVE Based(e)
        <4>1. d.at < x.at
          BY <1>1, <1>11, <3>1, <3>3
        <4> QED
          BY <1>7, <1>8, <3>3, <4>1
      <3> QED
        BY <3>1, <3>2, <3>3 DEF Layout, Tiled
    <2>2. CASE e \in c
      <3>1. e.at = x.at \/ \E d \in c : d.at < e.at /\ Ends(d) = e.at
        BY <2>2 DEF Fills
      <3> QED
        BY <1>7, <1>13, <3>1
    <2>3. ASSUME NEW f \in upper, e = s(f) PROVE Based(e)
      <3>1. f \in entries /\ f.at >= Ends(x) /\ e.at = f.at + (n - x.blob.size)
        BY <1>5, <2>3
      <3>2. f.at \in Nat
        BY <1>11, <3>1
      <3>3. f.at > x.at
        BY <1>1, <3>1, <3>2
      <3>4. f.at # Origin
        BY <1>1, <3>2, <3>3
      <3>5. PICK g \in entries : g.at < f.at /\ Ends(g) = f.at
        BY <3>1, <3>4 DEF Layout, Tiled
      <3>6. g.at \in Nat
        BY <1>11
      <3>7. CASE g.at < x.at
        <4>1. g \in lower
          BY <1>8, <3>7
        <4>2. Ends(g) <= x.at
          BY <1>3, <4>1
        <4> QED
          BY <1>1, <3>2, <3>3, <3>5, <4>2
      <3>8. CASE g.at = x.at
        <4>1. g = x
          BY <1>8, <3>8
        <4>2. e.at = x.at + n
          BY <1>1, <3>1, <3>2, <3>5, <4>1
        <4>3. CASE n = 0
          <5>1. e.at = x.at
            BY <1>1, <4>2, <4>3
          <5> QED
            BY <1>7, <1>13, <5>1
        <4>4. CASE n # 0
          <5>1. PICK d \in c : Ends(d) = x.at + n
            BY <4>4 DEF Fills
          <5>2. d.at < e.at /\ Ends(d) = e.at
            BY <1>4, <4>2, <5>1
          <5> QED
            BY <1>7, <5>2
        <4> QED
          BY <4>3, <4>4
      <3>9. CASE g.at > x.at
        <4>1. g \in upper
          BY <1>8, <3>9
        <4>2. s(g).at = g.at + (n - x.blob.size) /\ Ends(s(g)) = Ends(g) + (n - x.blob.size)
          BY <1>5, <4>1
        <4>3. s(g).at < e.at /\ Ends(s(g)) = e.at
          BY <1>1, <3>1, <3>2, <3>5, <3>6, <4>2
        <4> QED
          BY <1>7, <4>1, <4>3
      <3> QED
        BY <1>1, <3>6, <3>7, <3>8, <3>9
    <2> QED
      BY <1>6, <2>1, <2>2, <2>3
  <1>15. Tiled(new)
    BY <1>12, <1>14 DEF Tiled
  <1>16. InOrder(new)
    BY <1>12 DEF InOrder
  <1>17. Layout(new)
    BY <1>9, <1>12, <1>15, <1>16 DEF Layout
  <1> QED
    BY <1>17 DEF new

\* A label stays where the code before it ends: it moves when that grows.
LEMMA ReplacedStands ==
  ASSUME NEW entries, Layout(entries), NEW x \in entries, x.blob.size > 0,
         NEW c, NEW n \in Nat, Fills(c, x, n),
         NEW a \in Nat, a >= Origin, NEW k \in Nat, k # x.blob.node, Stands(entries, a, k)
  PROVE  LET b == Moved(a, x.at, n - x.blob.size) IN
         /\ b \in Nat /\ b >= Origin
         /\ Stands(Replaced(entries, x, c, n), b, k)
  <1> DEFINE lower == Below(entries, x.at)
             upper == Behind(entries, x.at)
             s(e)  == Shifted(e, n - x.blob.size)
             new   == Replaced(entries, x, c, n)
             b     == Moved(a, x.at, n - x.blob.size)
  <1>1. /\ x \in MapEntries /\ x.at \in Nat /\ x.blob.size \in Nat /\ x.blob.node \in Nat
        /\ Ends(x) \in Nat /\ Ends(x) = x.at + x.blob.size /\ x.at >= Origin /\ Origin \in Nat
    BY Numbers, OriginIsNat DEF Layout
  <1>2. Regions(entries, x, c, n)
    BY RegionsHold
  <1>3. \A e \in lower :
          /\ e \in entries /\ e \in MapEntries /\ e.at < x.at /\ Ends(e) <= x.at
          /\ e.at >= Origin /\ e.blob.node <= x.blob.node
    BY <1>2 DEF Regions
  <1>4. \A e \in c :
          /\ e \in MapEntries /\ x.at <= e.at /\ e.at < Ends(e) /\ Ends(e) <= x.at + n
          /\ e.blob.node = x.blob.node
    BY <1>2 DEF Regions
  <1>5. \A e \in upper :
          /\ e \in entries /\ e \in MapEntries /\ e.at >= Ends(x)
          /\ s(e) \in MapEntries /\ s(e).blob = e.blob /\ s(e).at >= x.at + n
          /\ s(e).at = e.at + (n - x.blob.size) /\ Ends(s(e)) = Ends(e) + (n - x.blob.size)
          /\ e.blob.node >= x.blob.node
    BY <1>2 DEF Regions
  <1>6. \A e \in new : e \in lower \/ e \in c \/ \E f \in upper : e = s(f)
    BY DEF Replaced
  <1>7. /\ \A e \in lower : e \in new
        /\ \A e \in c : e \in new
        /\ \A e \in upper : s(e) \in new
    BY DEF Replaced
  <1>8. /\ \A e \in entries : e.at < x.at => e \in lower
        /\ \A e \in entries : e.at > x.at => e \in upper
        /\ \A e \in entries : e.at = x.at => e = x
    BY DEF Below, Behind, Layout
  <1>9. \A e \in entries : e.at \in Nat /\ e.blob.node \in Nat /\ Ends(e) \in Nat /\ e.at <= Ends(e)
    BY Numbers DEF Layout
  <1>10. \A e \in entries : /\ e.blob.node < k => Ends(e) <= a
                            /\ e.blob.node > k => e.at >= a
    BY DEF Stands
  <1> HIDE DEF lower, upper, s, new
  \* Before x, or behind it.
  <1>11. CASE k < x.blob.node
    <2>1. a <= x.at
      BY <1>1, <1>10, <1>11
    <2>2. b = a
      BY <1>1, <2>1 DEF Moved
    <2> HIDE DEF b
    <2>3. ASSUME NEW e \in new
          PROVE  (e.blob.node < k => Ends(e) <= a) /\ (e.blob.node > k => e.at >= a)
      <3>1. CASE e \in lower
        BY <1>3, <1>10, <3>1
      <3>2. CASE e \in c
        <4>1. e.at >= a
          <5>1. e.at \in Nat /\ x.at <= e.at
            BY <1>4, <3>2, Numbers
          <5> QED
            BY <1>1, <2>1, <5>1
        <4>2. e.blob.node = x.blob.node
          BY <1>4, <3>2
        <4> QED
          BY <1>1, <1>11, <4>1, <4>2
      <3>3. ASSUME NEW f \in upper, e = s(f)
            PROVE  (e.blob.node < k => Ends(e) <= a) /\ (e.blob.node > k => e.at >= a)
        <4>1. e.blob.node >= x.blob.node /\ e.at >= x.at + n /\ e \in MapEntries
          BY <1>5, <3>3
        <4>2. e.at \in Nat /\ e.blob.node \in Nat
          BY <4>1, Numbers
        <4> QED
          BY <1>1, <1>11, <2>1, <4>1, <4>2
      <3> QED
        BY <1>6, <3>1, <3>2, <3>3
    <2>4. a = Origin \/ \E e \in new : e.blob.node < k /\ Ends(e) = a
      <3>1. ASSUME NEW e \in entries, e.blob.node < k, Ends(e) = a
            PROVE  e \in new
        <4>1. e.at <= x.at /\ e # x
          BY <1>1, <1>9, <1>11, <2>1, <3>1
        <4>2. e.at < x.at
          BY <1>1, <1>8, <1>9, <4>1
        <4> QED
          BY <1>7, <1>8, <4>2
      <3> QED
        BY <3>1 DEF Stands
    <2>5. Stands(new, a, k)
      BY <2>3, <2>4 DEF Stands
    <2> QED
      BY <2>2, <2>5 DEF b, new
  <1>12. CASE k > x.blob.node
    <2>1. Ends(x) <= a
      BY <1>1, <1>10, <1>12
    <2>2. b = a + (n - x.blob.size) /\ b \in Nat /\ b >= x.at + n /\ b >= Origin
      BY <1>1, <2>1 DEF Moved
    <2> HIDE DEF b
    <2>3. ASSUME NEW e \in new
          PROVE  (e.blob.node < k => Ends(e) <= b) /\ (e.blob.node > k => e.at >= b)
      <3>1. CASE e \in lower
        <4>1. Ends(e) <= x.at /\ e.blob.node <= x.blob.node /\ Ends(e) \in Nat /\ e.blob.node \in Nat
          BY <1>3, <1>9, <3>1
        <4> QED
          BY <1>1, <1>12, <2>2, <4>1
      <3>2. CASE e \in c
        <4>1. Ends(e) <= x.at + n /\ e.blob.node = x.blob.node /\ Ends(e) \in Nat
          BY <1>4, <3>2, Numbers
        <4> QED
          BY <1>1, <1>12, <2>2, <4>1
      <3>3. ASSUME NEW f \in upper, e = s(f)
            PROVE  (e.blob.node < k => Ends(e) <= b) /\ (e.blob.node > k => e.at >= b)
        <4>1. /\ f \in entries /\ e.blob = f.blob /\ e.at = f.at + (n - x.blob.size)
              /\ Ends(e) = Ends(f) + (n - x.blob.size)
          BY <1>5, <3>3
        <4>2. (f.blob.node < k => Ends(f) <= a) /\ (f.blob.node > k => f.at >= a)
          BY <1>10, <4>1
        <4>3. f.at \in Nat /\ Ends(f) \in Nat
          BY <1>9, <4>1
        <4>4. (Ends(f) <= a => Ends(e) <= b) /\ (f.at >= a => e.at >= b)
          BY <1>1, <2>2, <4>1, <4>3
        <4> QED
          BY <4>1, <4>2, <4>4
      <3> QED
        BY <1>6, <3>1, <3>2, <3>3
    <2>4. b = Origin \/ \E e \in new : e.blob.node < k /\ Ends(e) = b
      <3>1. a # Origin
        <4>1. x.at < Ends(x)
          BY <1>1
        <4> QED
          BY <1>1, <2>1, <4>1
      <3>2. PICK e \in entries : e.blob.node < k /\ Ends(e) = a
        BY <3>1 DEF Stands
      <3>3. CASE e.at > x.at
        <4>1. e \in upper
          BY <1>8, <3>3
        <4>2. s(e).blob = e.blob /\ Ends(s(e)) = Ends(e) + (n - x.blob.size)
          BY <1>5, <4>1
        <4>3. s(e) \in new /\ s(e).blob.node < k /\ Ends(s(e)) = b
          BY <1>7, <2>2, <3>2, <4>1, <4>2
        <4> QED
          BY <4>3
      <3>4. CASE e.at = x.at
        <4>1. e = x
          BY <1>8, <3>4
        <4>2. b = x.at + n
          BY <1>1, <2>2, <3>2, <4>1
        <4>3. CASE n = 0
          <5>1. b = x.at
            BY <1>1, <4>2, <4>3
          <5>2. CASE x.at = Origin
            BY <5>1, <5>2
          <5>3. ASSUME NEW d \in entries, d.at < x.at, Ends(d) = x.at
                PROVE  \E g \in new : g.blob.node < k /\ Ends(g) = b
            <6>1. d \in lower
              BY <1>8, <5>3
            <6>2. d.blob.node <= x.blob.node /\ d.blob.node \in Nat
              BY <1>3, <1>9, <5>3, <6>1
            <6>3. d.blob.node < k
              BY <1>1, <1>12, <6>2
            <6> QED
              BY <1>7, <5>1, <5>3, <6>1, <6>3
          <5> QED
            BY <5>2, <5>3 DEF Layout, Tiled
        <4>4. CASE n # 0
          <5>1. PICK d \in c : Ends(d) = x.at + n
            BY <4>4 DEF Fills
          <5> QED
            BY <1>4, <1>7, <1>12, <4>2, <5>1
        <4> QED
          BY <4>3, <4>4
      <3>5. CASE e.at < x.at
        <4>1. Ends(e) <= x.at
          BY <1>3, <1>8, <3>5
        <4>2. x.at < Ends(x)
          BY <1>1
        <4> QED
          BY <1>1, <1>9, <2>1, <3>2, <4>1, <4>2
      <3> QED
        BY <1>1, <1>9, <3>3, <3>4, <3>5
    <2>5. Stands(new, b, k)
      BY <2>3, <2>4 DEF Stands
    <2> QED
      BY <2>2, <2>5 DEF b, new
  <1> QED
    BY <1>1, <1>11, <1>12

\* Entries of the same places, nodes and sizes are laid out alike.
Alike(d, e) == d.at = e.at /\ d.blob.node = e.blob.node /\ d.blob.size = e.blob.size

LEMMA AlikeLayout ==
  ASSUME NEW entries, Layout(entries),
         NEW new, \A e \in new : e \in MapEntries /\ Sized(e.blob),
         \A d, e \in new : d.at = e.at => d = e,
         \A e \in new : \E d \in entries : Alike(d, e),
         \A d \in entries : \E e \in new : Alike(d, e)
  PROVE  /\ Layout(new)
         /\ \A a \in Nat : \A k \in Nat : Stands(entries, a, k) => Stands(new, a, k)
  <1>1. \A d, e : Alike(d, e) => d.at = e.at /\ d.blob.node = e.blob.node /\ Ends(d) = Ends(e)
    BY DEF Alike, Ends
  <1>2. Tiled(new)
    <2> SUFFICES ASSUME NEW e \in new
                 PROVE  /\ \A d \in new : d.at < e.at => Ends(d) <= e.at
                        /\ e.at = Origin \/ \E d \in new : d.at < e.at /\ Ends(d) = e.at
      BY DEF Tiled
    <2>1. PICK f \in entries : Alike(f, e)
      OBVIOUS
    <2>2. /\ \A d \in entries : d.at < f.at => Ends(d) <= f.at
          /\ f.at = Origin \/ \E d \in entries : d.at < f.at /\ Ends(d) = f.at
      BY DEF Layout, Tiled
    <2> QED
      BY <1>1, <2>1, <2>2
  <1>3. InOrder(new)
    BY <1>1 DEF Layout, InOrder
  <1>4. \A e \in new : e.at >= Origin
    BY <1>1 DEF Layout
  <1>5. ASSUME NEW a \in Nat, NEW k \in Nat, Stands(entries, a, k) PROVE Stands(new, a, k)
    BY <1>1, <1>5 DEF Stands
  <1> QED
    BY <1>2, <1>3, <1>4, <1>5 DEF Layout

\* The entry of the node that the first pass has come to is placed behind all
\* others; one without bytes at its address makes place for it.
Placed(entries, new) == Below(entries, new.at) \cup {new}

LEMMA PlacedLayout ==
  ASSUME NEW entries, Layout(entries), NEW n \in Nat, \A e \in entries : e.blob.node < n,
         NEW new \in MapEntries, new.at >= Origin, new.blob.node = n, Sized(new.blob),
         Stands(entries, new.at, n),
         new.blob.size = 0 => \A e \in entries : e.at # new.at
  PROVE  /\ Layout(Placed(entries, new))
         /\ \A a \in Nat : \A k \in Nat :
              k < n /\ Stands(entries, a, k) => Stands(Placed(entries, new), a, k)
         /\ Stands(Placed(entries, new), Ends(new), n + 1)
  <1> DEFINE lower == Below(entries, new.at)
             p     == Placed(entries, new)
             Based(e) == e.at = Origin \/ \E d \in p : d.at < e.at /\ Ends(d) = e.at
  <1>1. /\ new.at \in Nat /\ new.blob.size \in Nat /\ Ends(new) = new.at + new.blob.size
        /\ Ends(new) \in Nat /\ Origin \in Nat
    BY Numbers, OriginIsNat
  <1>2. \A e \in entries :
          /\ e.at \in Nat /\ e.blob.node \in Nat /\ Ends(e) \in Nat /\ e.blob.size \in Nat
          /\ Ends(e) = e.at + e.blob.size /\ Ends(e) <= new.at /\ e.at >= Origin /\ e \in MapEntries
    BY Numbers DEF Layout, Stands
  <1>3. /\ \A e \in p : e \in lower \/ e = new
        /\ \A e \in lower : e \in p
        /\ new \in p
    BY DEF Placed
  <1>4. /\ \A e \in lower : e \in entries /\ e.at < new.at
        /\ \A e \in entries : e.at < new.at => e \in lower
    BY DEF Below
  <1> HIDE DEF lower, p
  \* Who is not below ends there, at an EQU.
  <1>5. ASSUME NEW e \in entries, e \notin lower
        PROVE  e.at = new.at /\ Ends(e) = new.at
    <2>1. ~(e.at < new.at)
      BY <1>4, <1>5
    <2> QED
      BY <1>1, <1>2, <2>1
  <1>6. ASSUME NEW e \in entries, Ends(e) = new.at
        PROVE  \/ new.at = Origin
               \/ \E d \in lower : Ends(d) = new.at /\ d.blob.node <= e.blob.node
    <2>1. CASE e \in lower
      BY <1>2, <1>6, <2>1
    <2>2. CASE e \notin lower
      <3>1. e.at = new.at
        BY <1>5, <2>2
      <3>2. CASE new.at = Origin
        BY <3>2
      <3>3. ASSUME NEW d \in entries, d.at < e.at, Ends(d) = e.at
            PROVE  \E g \in lower : Ends(g) = new.at /\ g.blob.node <= e.blob.node
        <4>1. d \in lower /\ d.blob.node <= e.blob.node
          BY <1>4, <3>1, <3>3 DEF Layout, InOrder
        <4> QED
          BY <3>1, <3>3, <4>1
      <3> QED
        BY <3>1, <3>2, <3>3 DEF Layout, Tiled
    <2> QED
      BY <2>1, <2>2
  <1>7. ASSUME NEW e \in p PROVE Based(e)
    <2>1. CASE e \in lower
      <3>1. e \in entries /\ e.at < new.at
        BY <1>4, <2>1
      <3>2. ASSUME NEW d \in entries, d.at < e.at, Ends(d) = e.at PROVE Based(e)
        <4>1. d.at < new.at
          BY <1>1, <1>2, <3>1, <3>2
        <4> QED
          BY <1>3, <1>4, <3>2, <4>1
      <3> QED
        BY <3>1, <3>2 DEF Layout, Tiled
    <2>2. CASE e = new
      <3>1. new.at = Origin \/ \E d \in entries : d.blob.node < n /\ Ends(d) = new.at
        BY DEF Stands
      <3>2. new.at = Origin \/ \E d \in lower : Ends(d) = new.at
        BY <1>6, <3>1
      <3> QED
        BY <1>3, <1>4, <2>2, <3>2
    <2> QED
      BY <1>3, <2>1, <2>2
  <1>8. ASSUME NEW d \in p, NEW e \in p
        PROVE  /\ d.at < e.at => Ends(d) <= e.at /\ d.blob.node <= e.blob.node
               /\ d.at = e.at => d = e
    <2>1. CASE d \in lower /\ e \in lower
      BY <1>4, <2>1 DEF Layout, Tiled, InOrder
    <2>2. CASE d \in lower /\ e = new
      <3>1. d \in entries /\ d.at < new.at /\ d.blob.node < n
        BY <1>4, <2>2
      <3> QED
        BY <1>1, <1>2, <2>2, <3>1
    <2>3. CASE d = new /\ e \in lower
      <3>1. e \in entries /\ e.at < new.at
        BY <1>4, <2>3
      <3> QED
        BY <1>1, <1>2, <2>3, <3>1
    <2>4. CASE d = new /\ e = new
      BY <1>1, <2>4
    <2> QED
      BY <1>3, <2>1, <2>2, <2>3, <2>4
  <1>9. Layout(p)
    <2>1. \A e \in p : e \in MapEntries /\ e.at >= Origin /\ Sized(e.blob)
      BY <1>3, <1>4 DEF Layout
    <2>2. Tiled(p) /\ InOrder(p)
      BY <1>7, <1>8 DEF Tiled, InOrder
    <2> QED
      BY <1>8, <2>1, <2>2 DEF Layout
  <1>10. ASSUME NEW a \in Nat, NEW k \in Nat, k < n, Stands(entries, a, k)
         PROVE  Stands(p, a, k)
    <2>1. a <= new.at
      <3>1. CASE a = Origin
        BY <1>1, <3>1
      <3>2. CASE \E e \in entries : Ends(e) = a
        BY <1>2, <3>2
      <3> QED
        BY <1>10, <3>1, <3>2 DEF Stands
    <2>2. ASSUME NEW e \in p
          PROVE  (e.blob.node < k => Ends(e) <= a) /\ (e.blob.node > k => e.at >= a)
      <3>1. CASE e \in lower
        BY <1>4, <1>10, <3>1 DEF Stands
      <3>2. CASE e = new
        BY <1>1, <1>10, <2>1, <3>2
      <3> QED
        BY <1>3, <3>1, <3>2
    <2>3. a = Origin \/ \E e \in p : e.blob.node < k /\ Ends(e) = a
      <3>1. ASSUME NEW e \in entries, e.blob.node < k, Ends(e) = a
            PROVE  a = Origin \/ \E d \in p : d.blob.node < k /\ Ends(d) = a
        <4>1. CASE e \in lower
          BY <1>3, <3>1, <4>1
        <4>2. CASE e \notin lower
          <5>1. a = new.at
            BY <1>5, <3>1, <4>2
          <5>2. ASSUME NEW d \in lower, Ends(d) = new.at, d.blob.node <= e.blob.node
                PROVE  d \in p /\ d.blob.node < k /\ Ends(d) = a
            <6>1. d.blob.node \in Nat /\ e.blob.node \in Nat
              BY <1>2, <1>4
            <6> QED
              BY <1>3, <3>1, <5>1, <5>2, <6>1
          <5> QED
            BY <1>6, <3>1, <5>1, <5>2
        <4> QED
          BY <4>1, <4>2
      <3> QED
        BY <1>10, <3>1 DEF Stands
    <2> QED
      BY <2>2, <2>3 DEF Stands
  <1>11. Stands(p, Ends(new), n + 1)
    <2>1. ASSUME NEW e \in p
          PROVE  Ends(e) <= Ends(new) /\ ~(e.blob.node > n + 1)
      <3>1. CASE e \in lower
        <4>1. e \in entries
          BY <1>4, <3>1
        <4>2. Ends(e) <= new.at /\ Ends(e) \in Nat /\ e.blob.node \in Nat /\ e.blob.node < n
          BY <1>2, <4>1
        <4> QED
          BY <1>1, <4>2
      <3>2. CASE e = new
        BY <1>1, <3>2
      <3> QED
        BY <1>3, <3>1, <3>2
    <2>2. new \in p /\ new.blob.node < n + 1
      BY <1>3
    <2> QED
      BY <2>1, <2>2 DEF Stands
  <1> QED
    BY <1>9, <1>10, <1>11 DEF p

-----------------------------------------------------------------------------
(* The operations on the Map.                                              *)

LEMMA InMap ==
  ASSUME NEW map \in Seq(MapEntries)
  PROVE  /\ \A i \in DOMAIN map : map[i] \in ToSet(map) /\ map[i] \in MapEntries
         /\ \A e \in ToSet(map) : e \in MapEntries /\ \E i \in DOMAIN map : map[i] = e
  BY DEF ToSet

\* Setting a present key puts the new entry in the place of the old one.
LEMMA SetPresent ==
  ASSUME NEW map \in Seq(MapEntries), IsOnce(map),
         \A d, e \in ToSet(map) : d.at = e.at => d = e,
         NEW i \in DOMAIN map, NEW addr, map[i].at = addr, NEW blob \in Blobs
  PROVE  LET new == [at |-> addr, blob |-> blob]
             m   == MapSet(map, addr, blob) IN
         /\ new \in MapEntries /\ m \in Seq(MapEntries) /\ IsOnce(m)
         /\ DOMAIN m = DOMAIN map /\ \A j \in DOMAIN map : m[j].at = map[j].at
         /\ ToSet(m) = (ToSet(map) \ {map[i]}) \cup {new}
  <1> DEFINE new == [at |-> addr, blob |-> blob]
             m   == MapSet(map, addr, blob)
  <1>1. \A j \in DOMAIN map : map[j].at = addr => j = i
    BY InMap DEF IsOnce
  <1>2. m = [j \in DOMAIN map |-> IF map[j].at = addr THEN new ELSE map[j]]
    <2>1. At(map, addr) # {}
      BY DEF At
    <2> QED
      BY <2>1 DEF MapSet
  <1>3. new \in MapEntries /\ new.at = addr
    <2>1. addr \in Nat
      BY InMap DEF MapEntries
    <2> QED
      BY <2>1 DEF MapEntries
  <1> HIDE DEF new, m
  <1>4. /\ DOMAIN m = DOMAIN map
        /\ \A j \in DOMAIN map : m[j] = IF j = i THEN new ELSE map[j]
    BY <1>1, <1>2
  <1>5. m \in Seq(MapEntries)
    <2>1. \A j \in DOMAIN map : m[j] \in MapEntries
      BY <1>3, <1>4, InMap
    <2>2. DOMAIN map = 1 .. Len(map) /\ Len(map) \in Nat
      OBVIOUS
    <2>3. m \in [1 .. Len(map) -> MapEntries]
      BY <1>2, <2>1, <2>2
    <2> QED
      BY <2>2, <2>3, IsASeq
  <1>6. \A j \in DOMAIN map : m[j].at = map[j].at
    BY <1>3, <1>4
  <1>7. IsOnce(m)
    <2> SUFFICES ASSUME NEW j \in DOMAIN map, NEW k \in DOMAIN map, m[j] = m[k] PROVE j = k
      BY <1>4 DEF IsOnce
    <2>1. map[j].at = map[k].at
      BY <1>6
    <2>2. map[j] = map[k]
      BY <2>1, InMap
    <2> QED
      BY <2>2 DEF IsOnce
  <1>8. ToSet(m) = (ToSet(map) \ {map[i]}) \cup {new}
    <2>1. ASSUME NEW j \in DOMAIN map, j # i PROVE map[j] # map[i]
      BY <2>1 DEF IsOnce
    <2> QED
      BY <1>4, <2>1 DEF ToSet
  <1> QED
    BY <1>3, <1>4, <1>5, <1>6, <1>7, <1>8 DEF new, m

\* The EQUs at an entry, of the names that have been defined.
Named(b, names) == ToSet(EqusAt(b)) \subseteq names

LEMMA ChainFacts ==
  ASSUME NEW s \in Seq(Names), NEW name \in Names
  PROVE  Append(s, name) \in Seq(Names) /\ ToSet(Append(s, name)) = ToSet(s) \cup {name}
  BY Appended

LEMMA NamedFacts ==
  ASSUME NEW b \in Blobs, NEW names, Named(b, names)
  PROVE  /\ ToSet(b.slaves) \subseteq names /\ b.slaves \in Seq(Names)
         /\ b.ast.kind = "EQU" => b.ast.name \in names /\ b.ast.name \in Names
         /\ EqusAt(b) \in Seq(Names)
  <1>1. b.slaves \in Seq(Names) /\ b.ast \in Asts
    BY DEF Blobs
  <1>2. b.ast.kind = "EQU" => b.ast.name \in Names
    BY <1>1 DEF Asts, EquNodes, ByteNodes, TimesNodes
  <1>3. CASE b.ast.kind = "EQU"
    <2>1. EqusAt(b) = Append(b.slaves, b.ast.name)
      BY <1>3 DEF EqusAt
    <2>2. /\ Append(b.slaves, b.ast.name) \in Seq(Names)
          /\ ToSet(Append(b.slaves, b.ast.name)) = ToSet(b.slaves) \cup {b.ast.name}
      BY <1>1, <1>2, <1>3, ChainFacts
    <2> QED
      BY <1>1, <1>2, <2>1, <2>2 DEF Named
  <1>4. CASE b.ast.kind # "EQU"
    BY <1>1, <1>4 DEF Named, EqusAt
  <1> QED
    BY <1>3, <1>4

\* What emitBlob leaves.
Emitted(map, m, addr, n, size, names) ==
  /\ m \in Seq(MapEntries) /\ IsOnce(m) /\ Layout(ToSet(m))
  /\ \A a \in Nat : \A k \in Nat :
       k < n /\ Stands(ToSet(map), a, k) => Stands(ToSet(m), a, k)
  /\ Stands(ToSet(m), addr + size, n + 1)
  /\ \A e \in ToSet(m) : Named(e.blob, names)
  /\ \A e \in ToSet(m) : e.blob.node = n \/ \E d \in ToSet(map) : e.blob.node = d.blob.node

LEMMA EmitBlobFacts ==
  ASSUME NEW map \in Seq(MapEntries), IsOnce(map), Layout(ToSet(map)),
         NEW addr \in Nat, addr >= Origin, NEW n \in Nat, Stands(ToSet(map), addr, n),
         \A e \in ToSet(map) : e.blob.node < n,
         NEW ast \in Asts, NEW size \in Nat, Sized(Blob(n, ast, size)),
         NEW names, \A e \in ToSet(map) : Named(e.blob, names),
         ast.kind = "EQU" => ast.name \in names
  PROVE  Emitted(map, EmitBlob(map, addr, Blob(n, ast, size)), addr, n, size, names)
  <1> DEFINE blob == Blob(n, ast, size)
             new  == [at |-> addr, blob |-> blob]
             prev == At(map, addr)
             m    == EmitBlob(map, addr, blob)
  <1> SUFFICES Emitted(map, m, addr, n, size, names)
    OBVIOUS
  <1>1. /\ blob \in Blobs /\ blob.node = n /\ blob.ast = ast /\ blob.size = size
        /\ blob.slaves = << >> /\ Sized(blob)
    <2>1. << >> \in Seq(Names)
      OBVIOUS
    <2> QED
      BY <2>1 DEF Blob, Blobs
  <1>2. Sized(blob) => (size = 0 <=> ast.kind = "EQU")
    BY <1>1 DEF Sized
  <1>3. ast.kind = "EQU" => ast.name \in Names
    BY DEF Asts, EquNodes, ByteNodes, TimesNodes
  <1> HIDE DEF blob
  <1>4. new \in MapEntries /\ new.at = addr /\ new.blob = blob /\ Ends(new) = addr + size
    BY <1>1 DEF MapEntries, Ends
  <1>5. Named(blob, names)
    <2>1. ToSet(<< >>) = {} /\ << >> \in Seq(Names)
      BY DEF ToSet
    <2>2. ast.kind = "EQU" => ToSet(Append(<< >>, ast.name)) = {ast.name}
      BY <1>3, <2>1, ChainFacts
    <2> QED
      BY <1>1, <2>1, <2>2 DEF Named, EqusAt
  <1> HIDE DEF new
  <1>6. CASE prev = {}
    <2>1. m = Append(map, new)
      BY <1>6 DEF EmitBlob, MapSet, new
    <2>2. \A e \in ToSet(map) : e.at # addr
      <3>1. \A i \in DOMAIN map : map[i].at # addr
        BY <1>6 DEF At
      <3> QED
        BY <3>1 DEF ToSet
    <2>3. /\ m \in Seq(MapEntries) /\ ToSet(m) = ToSet(map) \cup {new}
          /\ IsOnce(m)
      <3>1. new \notin ToSet(map)
        BY <1>4, <2>2
      <3> QED
        BY <1>4, <2>1, <3>1, Appended
    <2>4. ToSet(m) = Placed(ToSet(map), new)
      <3>1. ASSUME NEW e \in ToSet(map) PROVE e.at < addr
        <4>1. Ends(e) <= addr /\ e \in MapEntries
          BY DEF Stands, Layout
        <4>2. e.at \in Nat /\ e.blob.size \in Nat /\ Ends(e) = e.at + e.blob.size
          BY <4>1, Numbers
        <4> QED
          BY <2>2, <4>1, <4>2
      <3> QED
        BY <1>4, <2>3, <3>1 DEF Placed, Below
    <2>5. /\ Layout(Placed(ToSet(map), new))
          /\ \A a \in Nat : \A k \in Nat :
               k < n /\ Stands(ToSet(map), a, k) => Stands(Placed(ToSet(map), new), a, k)
          /\ Stands(Placed(ToSet(map), new), Ends(new), n + 1)
      <3>1. new.blob.node = n /\ Sized(new.blob) /\ new.at >= Origin
            /\ Stands(ToSet(map), new.at, n)
        BY <1>1, <1>4
      <3>2. \A e \in ToSet(map) : e.at # new.at
        BY <1>4, <2>2
      <3> QED
        BY <1>4, <3>1, <3>2, PlacedLayout
    <2>6. \A e \in ToSet(m) : e = new \/ e \in ToSet(map)
      BY <2>3
    <2>7. \A e \in ToSet(m) : Named(e.blob, names)
      BY <1>4, <1>5, <2>6
    <2>8. \A e \in ToSet(m) : e.blob.node = n \/ \E d \in ToSet(map) : e.blob.node = d.blob.node
      BY <1>1, <1>4, <2>6
    <2> HIDE DEF m
    <2> QED
      BY <1>4, <2>3, <2>4, <2>5, <2>7, <2>8 DEF Emitted
  <1>7. CASE prev # {}
    <2> DEFINE i   == CHOOSE j \in prev : TRUE
               old == map[i].blob
    <2>1. i \in DOMAIN map /\ map[i].at = addr
      BY <1>7 DEF At
    <2>2. m = IF size = 0
                THEN MapSet(map, addr, [old EXCEPT !.slaves = Append(@, ast.name)])
                ELSE MapSet(map, addr, [blob EXCEPT !.slaves = Append(old.slaves, old.ast.name)])
      BY <1>1, <1>7 DEF EmitBlob
    <2> HIDE DEF i, m, prev
    <2>3. /\ map[i] \in ToSet(map) /\ map[i] \in MapEntries /\ old \in Blobs
          /\ old.node < n /\ Named(old, names)
      <3>1. map[i] \in ToSet(map) /\ map[i] \in MapEntries
        BY <2>1, InMap
      <3> QED
        BY <3>1 DEF MapEntries
    <2>4. old.size = 0 /\ old.ast.kind = "EQU"
      <3>1. Ends(map[i]) <= addr
        BY <2>3 DEF Stands
      <3>2. old.size \in Nat /\ Ends(map[i]) = addr + old.size
        BY <2>1, <2>3, Numbers
      <3>3. Sized(old)
        BY <2>3 DEF Layout
      <3> QED
        BY <3>1, <3>2, <3>3 DEF Sized
    <2>5. /\ ToSet(old.slaves) \subseteq names /\ old.slaves \in Seq(Names)
          /\ old.ast.name \in names /\ old.ast.name \in Names
      BY <2>3, <2>4, NamedFacts
    <2>6. \A d, e \in ToSet(map) : d.at = e.at => d = e
      BY DEF Layout
    <2>7. CASE size = 0
      <3> DEFINE blob2 == [old EXCEPT !.slaves = Append(@, ast.name)]
                 new2  == [at |-> addr, blob |-> blob2]
      <3>1. ast.kind = "EQU" /\ ast.name \in Names /\ ast.name \in names
        BY <1>1, <1>2, <1>3, <2>7
      <3>2. /\ Append(old.slaves, ast.name) \in Seq(Names)
            /\ ToSet(Append(old.slaves, ast.name)) = ToSet(old.slaves) \cup {ast.name}
        BY <2>5, <3>1, ChainFacts
      <3>3. /\ blob2 \in Blobs /\ blob2.node = old.node /\ blob2.size = old.size
            /\ blob2.ast = old.ast /\ blob2.slaves = Append(old.slaves, ast.name)
        BY <2>3, <3>2 DEF Blobs
      <3>4. m = MapSet(map, addr, blob2)
        BY <2>2, <2>7
      <3>5. Sized(blob2)
        <4>1. Sized(old)
          BY <2>3 DEF Layout
        <4> QED
          BY <3>3, <4>1 DEF Sized
      <3> HIDE DEF blob2
      <3>6. Named(blob2, names)
        <4>1. blob2.slaves \in Seq(Names) /\ ToSet(blob2.slaves) \subseteq names
          BY <2>5, <3>1, <3>2, <3>3
        <4>2. EqusAt(blob2) = Append(blob2.slaves, old.ast.name)
          BY <2>4, <3>3 DEF EqusAt
        <4>3. ToSet(Append(blob2.slaves, old.ast.name)) = ToSet(blob2.slaves) \cup {old.ast.name}
          BY <2>5, <4>1, ChainFacts
        <4> QED
          BY <2>5, <4>1, <4>2, <4>3 DEF Named
      <3>7. /\ new2 \in MapEntries /\ m \in Seq(MapEntries) /\ IsOnce(m)
            /\ ToSet(m) = (ToSet(map) \ {map[i]}) \cup {new2}
        BY <2>1, <2>6, <3>3, <3>4, SetPresent
      <3>8. new2.at = map[i].at /\ new2.blob = blob2 /\ Alike(map[i], new2)
        BY <2>1, <3>3 DEF Alike
      <3> HIDE DEF new2
      <3>9. \A e \in ToSet(m) : e = new2 \/ (e \in ToSet(map) /\ e # map[i])
        BY <3>7
      <3>10. \A e : Alike(e, e)
        BY DEF Alike
      <3>11. \A e \in ToSet(m) : e \in MapEntries /\ Sized(e.blob)
        BY <3>5, <3>7, <3>8, <3>9 DEF Layout
      <3>12. \A d, e \in ToSet(m) : d.at = e.at => d = e
        BY <2>3, <2>6, <3>8, <3>9
      <3>13. \A e \in ToSet(m) : \E d \in ToSet(map) : Alike(d, e)
        BY <2>3, <3>8, <3>9, <3>10
      <3>14. \A d \in ToSet(map) : \E e \in ToSet(m) : Alike(d, e)
        BY <3>7, <3>8, <3>10
      <3>15. /\ Layout(ToSet(m))
             /\ \A a \in Nat : \A k \in Nat : Stands(ToSet(map), a, k) => Stands(ToSet(m), a, k)
        BY <3>11, <3>12, <3>13, <3>14, AlikeLayout
      <3>16. \A e \in ToSet(m) : \E d \in ToSet(map) : e.blob.node = d.blob.node
        BY <3>13 DEF Alike
      <3>17. Stands(ToSet(m), addr + size, n + 1)
        <4>1. Stands(ToSet(m), addr, n) /\ addr + size = addr
          BY <2>7, <3>15
        <4>2. \A e \in ToSet(m) : e.blob.node < n /\ e.blob.node \in Nat
          BY <3>11, <3>16, Numbers
        <4>3. \A e \in ToSet(m) : Ends(e) <= addr /\ e.blob.node < n + 1 /\ ~(e.blob.node > n + 1)
          BY <4>1, <4>2 DEF Stands
        <4> QED
          BY <4>1, <4>3 DEF Stands
      <3>18. \A e \in ToSet(m) : Named(e.blob, names)
        BY <3>6, <3>8, <3>9
      <3> QED
        BY <3>7, <3>15, <3>16, <3>17, <3>18 DEF Emitted
    <2>8. CASE size # 0
      <3> DEFINE blob2 == [blob EXCEPT !.slaves = Append(old.slaves, old.ast.name)]
                 new2  == [at |-> addr, blob |-> blob2]
      <3>1. /\ Append(old.slaves, old.ast.name) \in Seq(Names)
            /\ ToSet(Append(old.slaves, old.ast.name)) = ToSet(old.slaves) \cup {old.ast.name}
        BY <2>5, ChainFacts
      <3>2. /\ blob2 \in Blobs /\ blob2.node = n /\ blob2.size = size
            /\ blob2.ast = ast /\ blob2.slaves = Append(old.slaves, old.ast.name)
        BY <1>1, <3>1 DEF Blobs
      <3>3. m = MapSet(map, addr, blob2)
        BY <2>2, <2>8
      <3>4. Sized(blob2) /\ ast.kind # "EQU"
        BY <1>1, <2>8, <3>2 DEF Sized
      <3>5. Named(blob2, names)
        BY <2>5, <3>1, <3>2, <3>4 DEF Named, EqusAt
      <3> HIDE DEF blob2
      <3>6. /\ new2 \in MapEntries /\ m \in Seq(MapEntries) /\ IsOnce(m)
            /\ ToSet(m) = (ToSet(map) \ {map[i]}) \cup {new2}
        BY <2>1, <2>6, <3>2, <3>3, SetPresent
      <3>7. new2.at = addr /\ new2.blob = blob2 /\ Ends(new2) = addr + size
        BY <3>2 DEF Ends
      <3> HIDE DEF new2
      <3>8. ToSet(m) = Placed(ToSet(map), new2)
        <4>1. ASSUME NEW e \in ToSet(map) PROVE e # map[i] <=> e.at < addr
          <5>1. Ends(e) <= addr /\ e \in MapEntries
            BY DEF Stands, Layout
          <5>2. e.at \in Nat /\ e.blob.size \in Nat /\ Ends(e) = e.at + e.blob.size
            BY <5>1, Numbers
          <5>3. e.at = addr => e = map[i]
            BY <2>1, <2>3, <2>6
          <5> QED
            BY <2>1, <5>1, <5>2, <5>3
        <4> QED
          BY <3>6, <3>7, <4>1 DEF Placed, Below
      <3>9. /\ Layout(Placed(ToSet(map), new2))
            /\ \A a \in Nat : \A k \in Nat :
                 k < n /\ Stands(ToSet(map), a, k) => Stands(Placed(ToSet(map), new2), a, k)
            /\ Stands(Placed(ToSet(map), new2), Ends(new2), n + 1)
        <4>1. /\ new2.blob.node = n /\ Sized(new2.blob) /\ new2.at >= Origin
              /\ Stands(ToSet(map), new2.at, n) /\ new2.blob.size # 0
          BY <2>8, <3>2, <3>4, <3>7
        <4> QED
          BY <3>6, <4>1, PlacedLayout
      <3>10. \A e \in ToSet(m) : e = new2 \/ e \in ToSet(map)
        BY <3>6
      <3>11. \A e \in ToSet(m) : Named(e.blob, names)
        BY <3>5, <3>7, <3>10
      <3>12. \A e \in ToSet(m) : e.blob.node = n \/ \E d \in ToSet(map) : e.blob.node = d.blob.node
        BY <3>2, <3>7, <3>10
      <3> QED
        BY <3>6, <3>7, <3>8, <3>9, <3>11, <3>12 DEF Emitted
    <2> QED
      BY <2>7, <2>8
  <1> QED
    BY <1>6, <1>7

\* Giving the blob of an entry a value leaves the layout as it is.
LEMMA SetValue ==
  ASSUME NEW map \in Seq(MapEntries), IsOnce(map), Layout(ToSet(map)),
         NEW i \in DOMAIN map, NEW v \in Int
  PROVE  LET m == [map EXCEPT ![i].blob.val = v] IN
         /\ m \in Seq(MapEntries) /\ IsOnce(m) /\ Len(m) = Len(map) /\ Layout(ToSet(m))
         /\ \A a \in Nat : \A k \in Nat : Stands(ToSet(map), a, k) => Stands(ToSet(m), a, k)
         /\ \A e \in ToSet(m) : \E d \in ToSet(map) :
              e.blob.node = d.blob.node /\ EqusAt(e.blob) = EqusAt(d.blob)
  <1> DEFINE m == [map EXCEPT ![i].blob.val = v]
  <1>1. /\ m \in Seq(MapEntries) /\ Len(m) = Len(map) /\ DOMAIN m = DOMAIN map
        /\ \A j \in DOMAIN map :
             /\ m[j].at = map[j].at /\ m[j].blob.node = map[j].blob.node
             /\ m[j].blob.size = map[j].blob.size /\ m[j].blob.ast = map[j].blob.ast
             /\ m[j].blob.slaves = map[j].blob.slaves
    <2>1. DOMAIN map = 1 .. Len(map) /\ Len(map) \in Nat
      OBVIOUS
    <2>2. ASSUME NEW j \in DOMAIN map
          PROVE  /\ m[j] \in MapEntries
                 /\ m[j].at = map[j].at /\ m[j].blob.node = map[j].blob.node
                 /\ m[j].blob.size = map[j].blob.size /\ m[j].blob.ast = map[j].blob.ast
                 /\ m[j].blob.slaves = map[j].blob.slaves
      <3>1. map[j] \in MapEntries
        OBVIOUS
      <3>2. m[j] = IF j = i THEN [map[j] EXCEPT !.blob.val = v] ELSE map[j]
        OBVIOUS
      <3> DEFINE e == map[j]
                 f == [e EXCEPT !.blob.val = v]
      <3>3. /\ f \in MapEntries /\ f.at = e.at /\ f.blob.node = e.blob.node
            /\ f.blob.size = e.blob.size /\ f.blob.ast = e.blob.ast
            /\ f.blob.slaves = e.blob.slaves
        BY <3>1 DEF MapEntries, Blobs
      <3> HIDE DEF f
      <3>4. m[j] = IF j = i THEN f ELSE map[j]
        BY <3>2 DEF f
      <3> QED
        BY <3>1, <3>3, <3>4
    <2>3. DOMAIN m = DOMAIN map
      OBVIOUS
    <2>4. m = [j \in DOMAIN map |-> m[j]]
      OBVIOUS
    <2> HIDE DEF m
    <2>5. m \in [1 .. Len(map) -> MapEntries]
      BY <2>1, <2>2, <2>4
    <2> QED
      BY <2>1, <2>2, <2>3, <2>5, IsASeq
  <1> HIDE DEF m
  <1>2. \A d, e \in ToSet(map) : d.at = e.at => d = e
    BY DEF Layout
  <1>3. ASSUME NEW j \in DOMAIN map, NEW k \in DOMAIN map, m[j].at = m[k].at
        PROVE  j = k
    <2>1. map[j].at = map[k].at /\ map[j] \in ToSet(map) /\ map[k] \in ToSet(map)
      BY <1>1, <1>3, InMap
    <2> QED
      BY <1>2, <2>1 DEF IsOnce
  <1>4. IsOnce(m)
    BY <1>1, <1>3 DEF IsOnce
  <1>5. \A j \in DOMAIN map : Alike(map[j], m[j])
    BY <1>1 DEF Alike
  <1>6. \A e \in ToSet(m) : \E d \in ToSet(map) : Alike(d, e)
    BY <1>1, <1>5 DEF ToSet
  <1>7. \A d \in ToSet(map) : \E e \in ToSet(m) : Alike(d, e)
    BY <1>1, <1>5 DEF ToSet
  <1>8. \A d, e \in ToSet(m) : d.at = e.at => d = e
    BY <1>1, <1>3 DEF ToSet
  <1>9. \A e \in ToSet(m) : e \in MapEntries /\ Sized(e.blob)
    <2>1. \A j \in DOMAIN map : Sized(map[j].blob)
      BY InMap DEF Layout
    <2>2. \A j \in DOMAIN map : Sized(m[j].blob)
      BY <1>1, <2>1 DEF Sized
    <2> QED
      BY <1>1, <2>2 DEF ToSet
  <1>10. /\ Layout(ToSet(m))
         /\ \A a \in Nat : \A k \in Nat : Stands(ToSet(map), a, k) => Stands(ToSet(m), a, k)
    BY <1>6, <1>7, <1>8, <1>9, AlikeLayout
  <1>11. \A j \in DOMAIN map : EqusAt(m[j].blob) = EqusAt(map[j].blob)
    BY <1>1 DEF EqusAt
  <1>12. \A e \in ToSet(m) : \E d \in ToSet(map) :
           e.blob.node = d.blob.node /\ EqusAt(e.blob) = EqusAt(d.blob)
    BY <1>1, <1>11 DEF ToSet
  <1> QED
    BY <1>1, <1>4, <1>10, <1>12 DEF m

LEMMA UptoFacts ==
  ASSUME NEW n \in Nat
  PROVE  IsFiniteSet(1 .. n) /\ Cardinality(1 .. n) = n
  <1>1. IsFiniteSet(1 .. n) /\ Cardinality(1 .. n) = IF 1 > n THEN 0 ELSE n - 1 + 1
    BY FS_Interval
  <1> QED
    BY <1>1

\* The iterator is not behind the end of the resized map: what it has passed and
\* what is not behind addr is still there.
LEMMA SeenFacts ==
  ASSUME NEW map \in Seq(MapEntries), IsOnce(map),
         \A d, e \in ToSet(map) : d.at = e.at => d = e,
         NEW i \in DOMAIN map, NEW addr, NEW gone, NEW r \in Seq(MapEntries),
         \A e \in ToSet(map) : e.at <= addr /\ e.at \notin gone
                                 => \E f \in ToSet(r) : f.at = e.at
  PROVE  SeenAfter(map, i, addr, gone) \in 0 .. Len(r)
  <1> DEFINE S == {j \in 1 .. i : map[j].at <= addr /\ map[j].at \notin gone}
             T == 1 .. Len(r)
             f == [j \in S |-> CHOOSE k \in T : r[k].at = map[j].at]
  <1>1. ASSUME NEW j \in S
        PROVE  /\ j \in DOMAIN map /\ f[j] \in T /\ r[f[j]].at = map[j].at
    <2>1. j \in DOMAIN map
      <3>1. DOMAIN map = 1 .. Len(map) /\ Len(map) \in Nat /\ j \in 1 .. i
        OBVIOUS
      <3> QED
        BY <3>1
    <2>2. map[j] \in ToSet(map)
      BY <2>1, InMap
    <2>3. \E e \in ToSet(r) : e.at = map[j].at
      BY <2>2
    <2>4. \E k \in T : r[k].at = map[j].at
      BY <2>3 DEF ToSet
    <2> QED
      BY <2>1, <2>4
  <1>2. ASSUME NEW j \in S, NEW k \in S, f[j] = f[k] PROVE j = k
    <2>1. map[j].at = map[k].at /\ j \in DOMAIN map /\ k \in DOMAIN map
      BY <1>1, <1>2
    <2>2. map[j] = map[k]
      BY <2>1, InMap
    <2> QED
      BY <2>1, <2>2 DEF IsOnce
  <1>3. f \in [S -> T]
    BY <1>1
  <1> HIDE DEF f
  <1>4. f \in Injection(S, T)
    BY <1>2, <1>3 DEF Injection, IsInjective
  <1>5. IsFiniteSet(T) /\ Cardinality(T) = Len(r) /\ Len(r) \in Nat
    BY UptoFacts
  <1>6. IsFiniteSet(S) /\ Cardinality(S) <= Cardinality(T)
    BY <1>4, <1>5, FS_Injection
  <1>7. Cardinality(S) \in Nat
    BY <1>6, FS_CardinalityType
  <1>8. SeenAfter(map, i, addr, gone) = Cardinality(S)
    BY DEF SeenAfter
  <1> QED
    BY <1>5, <1>6, <1>7, <1>8
-----------------------------------------------------------------------------
(* EQUs.                                                                   *)

EquEntries == [val : Int \cup {NIL}, labeled : BOOLEAN]

\* The tables with other values.
Tables(e) ==
  {t \in [DOMAIN e -> EquEntries] : \A name \in DOMAIN e : t[name].labeled = e[name].labeled}

\* The table of the EQUs before the n-th node.
EqusGood(e, n) ==
  /\ e \in [DOMAIN e -> EquEntries]
  /\ \A name \in DOMAIN e :
       \E k \in DOMAIN prog : k < n /\ prog[k].kind = "EQU" /\ prog[k].name = name
  /\ \A k \in DOMAIN prog :
       k < n /\ prog[k].kind = "EQU" =>
         /\ prog[k].name \in DOMAIN e
         /\ e[prog[k].name].labeled = (prog[k].ref # NoRef)

LEMMA NodeFacts ==
  ASSUME prog \in Programs
  PROVE  /\ Len(prog) \in Nat /\ DOMAIN prog = 1 .. Len(prog)
         /\ \A k \in DOMAIN prog :
              /\ prog[k] \in LabelNodes \cup Asts
              /\ prog[k].kind = "LABEL" => prog[k] \in LabelNodes
              /\ prog[k].kind # "LABEL" => prog[k] \in Asts
              /\ prog[k].kind = "EQU" => prog[k] \in EquNodes
              /\ prog[k].kind \in {"INSTRUCTION", "DEFINE"} => prog[k] \in ByteNodes
              /\ prog[k].kind = "TIMES" => prog[k] \in TimesNodes
  <1>1. prog \in Seq(LabelNodes \cup EquNodes \cup ByteNodes \cup TimesNodes)
    BY ProgramsAssumption
  <1>2. \A k \in DOMAIN prog : prog[k] \in LabelNodes \cup EquNodes \cup ByteNodes \cup TimesNodes
    BY <1>1
  <1>3. /\ \A a \in LabelNodes : a.kind = "LABEL"
        /\ \A a \in EquNodes : a.kind = "EQU"
        /\ \A a \in ByteNodes : a.kind = "INSTRUCTION" \/ a.kind = "DEFINE"
        /\ \A a \in TimesNodes : a.kind = "TIMES"
    BY DEF LabelNodes, EquNodes, ByteNodes, TimesNodes
  <1> QED
    BY <1>1, <1>2, <1>3 DEF Asts

\* The node that a name of the table stands for.
LEMMA EquAstFacts ==
  ASSUME prog \in Programs, EqusGood(equ, Len(prog) + 1), NEW name \in DOMAIN equ
  PROVE  /\ EquAst(name) \in EquNodes
         /\ equ[name].labeled = (EquAst(name).ref # NoRef)
  <1> DEFINE k == CHOOSE i \in DOMAIN prog : prog[i].kind = "EQU" /\ prog[i].name = name
  <1>1. \E i \in DOMAIN prog : prog[i].kind = "EQU" /\ prog[i].name = name
    BY DEF EqusGood
  <1>2. k \in DOMAIN prog /\ prog[k].kind = "EQU" /\ prog[k].name = name
    BY <1>1
  <1>3. EquAst(name) = prog[k]
    BY DEF EquAst
  <1> HIDE DEF k
  <1>4. k < Len(prog) + 1
    BY <1>2, NodeFacts
  <1> QED
    BY <1>2, <1>3, <1>4, NodeFacts DEF EqusGood

\* What a known name stands for is a number.
LEMMA Resolved ==
  ASSUME NEW t \in Tables(equ), NEW name \in Defined,
         \A l \in DOMAIN labels : labels[l] \in Nat
  PROVE  Resolve(t, name) \in Int
  <1>1. DOMAIN t = DOMAIN equ /\ \A x \in DOMAIN equ : t[x] \in EquEntries
    BY DEF Tables
  <1>2. CASE name \in DOMAIN equ
    <2>1. t[name].val \in Int \cup {NIL}
      BY <1>1, <1>2 DEF EquEntries
    <2> QED
      BY <1>1, <1>2, <2>1 DEF Resolve
  <1>3. CASE name \notin DOMAIN equ
    BY <1>1, <1>3 DEF Resolve, Defined
  <1> QED
    BY <1>2, <1>3

LEMMA PassEquFacts ==
  ASSUME prog \in Programs, EqusGood(equ, Len(prog) + 1),
         \A l \in DOMAIN labels : labels[l] \in Nat,
         NEW name \in DOMAIN equ, EquAst(name).ref \in Defined \cup {NoRef},
         NEW t \in Tables(equ)
  PROVE  PassEqu(t, name) \in Tables(equ)
  <1> DEFINE ast == EquAst(name)
  <1>1. /\ ast.add \in Int /\ (ast.sign = 1 \/ ast.sign = -1)
        /\ equ[name].labeled = (ast.ref # NoRef)
    BY EquAstFacts DEF EquNodes
  <1>2. /\ t \in [DOMAIN equ -> EquEntries]
        /\ \A x \in DOMAIN equ : t[x].labeled = equ[x].labeled
    BY DEF Tables
  <1>3. CASE t[name].labeled
    <2>1. ast.ref \in Defined
      BY <1>1, <1>2, <1>3
    <2> DEFINE v == Resolve(t, ast.ref)
               w == ast.add + ast.sign * v
               u == [t EXCEPT ![name].val = w]
    <2>2. v \in Int
      BY <2>1, Resolved
    <2>3. w \in Int
      <3> HIDE DEF v, ast
      <3>1. CASE ast.sign = 1
        BY <1>1, <2>2, <3>1
      <3>2. CASE ast.sign = -1
        <4>1. ast.sign * v = 0 - v
          BY <2>2, <3>2
        <4> QED
          BY <1>1, <2>2, <4>1
      <3> QED
        BY <1>1, <3>1, <3>2
    <2>4. PassEqu(t, name) = u
      BY <1>3 DEF PassEqu
    <2> HIDE DEF w
    <2>5. u \in [DOMAIN equ -> EquEntries]
      BY <1>2, <2>3 DEF EquEntries
    <2>6. \A x \in DOMAIN equ : u[x].labeled = equ[x].labeled
      <3>1. \A x \in DOMAIN equ : u[x].labeled = t[x].labeled
        BY <1>2 DEF EquEntries
      <3> QED
        BY <1>2, <3>1
    <2> QED
      BY <2>4, <2>5, <2>6 DEF Tables
  <1>4. CASE ~t[name].labeled
    BY <1>4 DEF PassEqu
  <1> QED
    BY <1>3, <1>4

\* How PassEqus runs over the names, one by one.
PassRuns(eqs, names) ==
  /\ eqs[0] = equ /\ PassEqus(names) = eqs[Len(names)]
  /\ \A i \in 0 .. Len(names) : eqs[i] \in Tables(equ)
  /\ \A i \in 1 .. Len(names) : eqs[i] = PassEqu(eqs[i - 1], names[i])

LEMMA PassEqusRuns ==
  ASSUME prog \in Programs, EqusGood(equ, Len(prog) + 1),
         \A l \in DOMAIN labels : labels[l] \in Nat,
         NEW names \in Seq(Names), ToSet(names) \subseteq DOMAIN equ,
         \A x \in ToSet(names) : EquAst(x).ref \in Defined \cup {NoRef}
  PROVE  \E eqs : PassRuns(eqs, names)
  <1> DEFINE S == Tables(equ)
             m == Len(names)
             F == [n \in Nat |-> [u \in S |-> IF n \in DOMAIN names THEN PassEqu(u, names[n]) ELSE u]]
             Q(f) == f = [i \in 0 .. m |-> IF i = 0 THEN equ ELSE PassEqu(f[i - 1], names[i])]
             eqs == CHOOSE f : Q(f)
  <1>1. m \in Nat /\ DOMAIN names = 1 .. m /\ \A n \in 1 .. m : names[n] \in ToSet(names)
    BY DEF ToSet
  <1>2. ASSUME NEW n \in 1 .. m, NEW u \in S PROVE PassEqu(u, names[n]) \in S
    <2> DEFINE x == names[n]
    <2>1. x \in ToSet(names)
      BY <1>1
    <2> HIDE DEF x
    <2>2. x \in DOMAIN equ /\ EquAst(x).ref \in Defined \cup {NoRef}
      BY <2>1
    <2>3. PassEqu(u, x) \in Tables(equ)
      BY <2>2, PassEquFacts
    <2> QED
      BY <2>3 DEF x
  <1>3. equ \in S
    BY DEF Tables, EqusGood
  <1> HIDE DEF S
  <1>4. F \in [Nat -> [S -> S]]
    <2>1. ASSUME NEW n \in Nat, NEW u \in S
          PROVE  (IF n \in DOMAIN names THEN PassEqu(u, names[n]) ELSE u) \in S
      BY <1>1, <1>2
    <2> QED
      BY <2>1
  <1>5. \A n \in 1 .. m : \A u \in S : F[n][u] = PassEqu(u, names[n])
    BY <1>1
  <1> HIDE DEF F
  <1>6. PICK f \in [0 .. m -> S] : Follows(f, m, equ, F)
    BY <1>1, <1>3, <1>4, Recursion
  <1>7. Q(f)
    <2>1. ASSUME NEW i \in 0 .. m
          PROVE  f[i] = IF i = 0 THEN equ ELSE PassEqu(f[i - 1], names[i])
      <3>1. f[i] = IF i = 0 THEN equ ELSE F[i][f[i - 1]]
        BY <1>6, Zenon DEF Follows
      <3>2. i # 0 => i \in 1 .. m /\ f[i - 1] \in S
        BY <1>1
      <3> QED
        BY <1>5, <3>1, <3>2
    <2> QED
      BY <2>1
  <1> HIDE DEF Q
  <1>8. Q(eqs)
    BY <1>7
  <1> HIDE DEF eqs
  <1>9. \A i \in 0 .. m : eqs[i] = IF i = 0 THEN equ ELSE PassEqu(eqs[i - 1], names[i])
    BY <1>8, Zenon DEF Q
  <1> DEFINE P == {i \in Nat : i <= m => eqs[i] \in S}
  <1>10. 0 \in P
    <2>1. eqs[0] = equ
      BY <1>1, <1>9
    <2> QED
      BY <1>3, <2>1
  <1>11. ASSUME NEW i \in Nat, i \in P PROVE i + 1 \in P
    <2> SUFFICES ASSUME i + 1 <= m PROVE eqs[i + 1] \in S
      OBVIOUS
    <2>1. eqs[i] \in S
      BY <1>1, <1>11
    <2>2. i + 1 \in 1 .. m /\ i + 1 \in 0 .. m /\ i + 1 # 0 /\ (i + 1) - 1 = i
      BY <1>1
    <2>3. eqs[i + 1] = PassEqu(eqs[i], names[i + 1])
      BY <1>9, <2>2
    <2> QED
      BY <1>2, <2>1, <2>2, <2>3
  <1> HIDE DEF P
  <1>12. \A i \in Nat : i \in P
    BY <1>10, <1>11, Counting
  <1>13. \A i \in 0 .. m : eqs[i] \in S
    BY <1>1, <1>12 DEF P
  <1>14. PassEqus(names) = eqs[m]
    BY DEF PassEqus, eqs, Q
  <1>15. eqs[0] = equ
    BY <1>1, <1>9
  <1>16. \A i \in 1 .. m : eqs[i] = PassEqu(eqs[i - 1], names[i])
    BY <1>1, <1>9
  <1> HIDE DEF m
  <1>17. PassRuns(eqs, names)
    BY <1>13, <1>14, <1>15, <1>16 DEF PassRuns, S, m
  <1> QED
    BY <1>17

\* The EQUs that a visit evaluates keep their places in the table.
LEMMA PassEqusFacts ==
  ASSUME prog \in Programs, EqusGood(equ, Len(prog) + 1),
         \A l \in DOMAIN labels : labels[l] \in Nat,
         NEW names \in Seq(Names), ToSet(names) \subseteq DOMAIN equ,
         \A x \in ToSet(names) : EquAst(x).ref \in Defined \cup {NoRef}
  PROVE  PassEqus(names) \in Tables(equ)
  <1>1. PICK eqs : PassRuns(eqs, names)
    BY PassEqusRuns
  <1>2. Len(names) \in 0 .. Len(names)
    OBVIOUS
  <1> QED
    BY <1>1, <1>2 DEF PassRuns

-----------------------------------------------------------------------------
(* The invariant.                                                          *)

\* An entry belongs to a node before the n-th one, and its EQUs are known.
Owned(b, n, names) ==
  /\ b.node \in DOMAIN prog /\ b.node < n /\ prog[b.node].kind # "LABEL"
  /\ Named(b, names)

MapGood(map, n, names) ==
  /\ map \in Seq(MapEntries) /\ IsOnce(map) /\ Layout(ToSet(map))
  /\ \A e \in ToSet(map) : Owned(e.blob, n, names)

\* The labels before the n-th node.
LabelsGood(lbs, entries, n) ==
  /\ \A l \in DOMAIN lbs :
       \E k \in DOMAIN prog : k < n /\ prog[k].kind = "LABEL" /\ prog[k].name = l
  /\ \A k \in DOMAIN prog :
       k < n /\ prog[k].kind = "LABEL" =>
         /\ prog[k].name \in DOMAIN lbs
         /\ lbs[prog[k].name] \in Nat /\ lbs[prog[k].name] >= Origin
         /\ Stands(entries, lbs[prog[k].name], k)

\* Where the passes are: the first one lays out the node after those it has
\* laid out, the second one starts when it has come to the end.
Position ==
  /\ phase \in {"first", "second", "done", "error"}
  /\ (phase = "error") = (error # "none")
  /\ next \in 1 .. Len(prog) + 1 /\ offset \in Nat
  /\ pass \in 0 .. MaxPasses
  /\ phase = "first" => Stands(Entries, Origin + offset, next) /\ seen = 0 /\ pass = 0
  /\ phase = "second" =>
       next = Len(prog) + 1 /\ pass < MaxPasses /\ seen \in 0 .. Len(nodesOffsets)

IInv ==
  /\ prog \in Programs
  /\ Position
  /\ MapGood(nodesOffsets, next, DOMAIN equ)
  /\ EqusGood(equ, next)
  /\ LabelsGood(labels, Entries, next)

LEMMA LabelsAreNat ==
  ASSUME NEW lbs, NEW entries, NEW n, LabelsGood(lbs, entries, n)
  PROVE  \A l \in DOMAIN lbs : lbs[l] \in Nat /\ lbs[l] >= Origin
  BY DEF LabelsGood

\* A map in which an entry has been replaced is as good as before, and so are
\* the labels that have been moved.
LEMMA RebuiltMap ==
  ASSUME NEW map, NEW p, NEW names, MapGood(map, p, names),
         NEW x \in ToSet(map), x.blob.size > 0, NEW c, NEW n \in Nat, Fills(c, x, n),
         \A e \in c : Owned(e.blob, p, names),
         NEW r \in Seq(MapEntries), IsOnce(r), ToSet(r) = Replaced(ToSet(map), x, c, n)
  PROVE  MapGood(r, p, names)
  <1> DEFINE E == ToSet(map)
  <1>1. Layout(E) /\ \A e \in E : Owned(e.blob, p, names) /\ e \in MapEntries
    BY InMap DEF MapGood
  <1>2. Layout(ToSet(r)) /\ Regions(E, x, c, n)
    BY <1>1, ReplacedLayout, RegionsHold
  <1> HIDE DEF E
  <1>3. ASSUME NEW e \in ToSet(r) PROVE Owned(e.blob, p, names)
    <2>1. CASE e \in Below(E, x.at)
      BY <1>1, <2>1 DEF Below
    <2>2. CASE e \in c
      BY <2>2
    <2>3. ASSUME NEW d \in Behind(E, x.at), e = Shifted(d, n - x.blob.size)
          PROVE  Owned(e.blob, p, names)
      <3>1. e.blob = d.blob /\ d \in E
        BY <1>2, <2>3 DEF Regions
      <3> QED
        BY <1>1, <3>1
    <2> QED
      BY <2>1, <2>2, <2>3 DEF Replaced, E
  <1> QED
    BY <1>2, <1>3 DEF MapGood

LEMMA RebuiltLabels ==
  ASSUME NEW map, NEW p, NEW names, prog \in Programs, MapGood(map, p, names),
         NEW x \in ToSet(map), x.blob.size > 0, NEW c, NEW n \in Nat, Fills(c, x, n),
         LabelsGood(labels, ToSet(map), p)
  PROVE  LabelsGood(ResizedLabels(x.at, n - x.blob.size), Replaced(ToSet(map), x, c, n), p)
  <1> DEFINE E == ToSet(map)
             d == n - x.blob.size
             lbs == ResizedLabels(x.at, d)
  <1>1. DOMAIN lbs = DOMAIN labels /\ \A l \in DOMAIN labels : lbs[l] = Moved(labels[l], x.at, d)
    BY DEF ResizedLabels
  <1>2. ASSUME NEW k \in DOMAIN prog, k < p, prog[k].kind = "LABEL"
        PROVE  /\ prog[k].name \in DOMAIN lbs
               /\ lbs[prog[k].name] \in Nat /\ lbs[prog[k].name] >= Origin
               /\ Stands(Replaced(E, x, c, n), lbs[prog[k].name], k)
    <2> DEFINE a == labels[prog[k].name]
    <2>1. prog[k].name \in DOMAIN labels /\ a \in Nat /\ a >= Origin /\ Stands(E, a, k)
      BY <1>2 DEF LabelsGood
    <2>2. k \in Nat
      BY NodeFacts
    <2>3. x.blob.node # k /\ Layout(E)
      BY <1>2 DEF MapGood, Owned
    <2>4. lbs[prog[k].name] = Moved(a, x.at, d)
      BY <1>1, <2>1
    <2> HIDE DEF a, E, lbs
    <2>5. /\ Moved(a, x.at, d) \in Nat /\ Moved(a, x.at, d) >= Origin
          /\ Stands(Replaced(E, x, c, n), Moved(a, x.at, d), k)
      BY <2>1, <2>2, <2>3, ReplacedStands DEF E
    <2> QED
      BY <1>1, <2>1, <2>4, <2>5
  <1>3. \A l \in DOMAIN lbs :
          \E k \in DOMAIN prog : k < p /\ prog[k].kind = "LABEL" /\ prog[k].name = l
    BY <1>1 DEF LabelsGood
  <1> HIDE DEF lbs
  <1>4. LabelsGood(lbs, Replaced(E, x, c, n), p)
    BY <1>2, <1>3 DEF LabelsGood
  <1> QED
    BY <1>4 DEF lbs

LEMMA InvariantImplies == IInv => LaidOut
  <1> SUFFICES ASSUME IInv PROVE LaidOut
    OBVIOUS
  <1>1. /\ MapGood(nodesOffsets, next, DOMAIN equ) /\ nodesOffsets \in Seq(MapEntries)
        /\ IsOnce(nodesOffsets) /\ Layout(Entries)
    BY DEF IInv, MapGood, Entries
  <1>2. ASSUME NEW i \in DOMAIN nodesOffsets
        PROVE  /\ nodesOffsets[i].at \in Nat /\ nodesOffsets[i].at >= Origin
               /\ At(nodesOffsets, nodesOffsets[i].at) = {i}
               /\ nodesOffsets[i].blob.node \in DOMAIN prog
               /\ nodesOffsets[i].blob.ast.kind \in AstKinds
               /\ ToSet(nodesOffsets[i].blob.slaves) \subseteq DOMAIN equ
    <2> DEFINE e == nodesOffsets[i]
    <2>1. e \in Entries /\ e \in MapEntries
      BY <1>1, InMap DEF Entries
    <2>2. e.at \in Nat /\ e.at >= Origin /\ e.blob \in Blobs /\ e.blob.ast \in Asts
      BY <1>1, <2>1 DEF Layout, MapEntries, Blobs
    <2>3. \A j \in DOMAIN nodesOffsets : nodesOffsets[j].at = e.at => j = i
      <3>1. \A j \in DOMAIN nodesOffsets : nodesOffsets[j] \in Entries
        BY <1>1, InMap DEF Entries
      <3> QED
        BY <1>1, <2>1, <3>1 DEF Layout, IsOnce
    <2>4. e.blob.node \in DOMAIN prog /\ Named(e.blob, DOMAIN equ)
      BY <1>1, <2>1 DEF MapGood, Owned, Entries
    <2>5. ToSet(e.blob.slaves) \subseteq DOMAIN equ
      BY <2>2, <2>4, NamedFacts
    <2>6. e.blob.ast.kind \in AstKinds
      BY <2>2 DEF Asts, EquNodes, ByteNodes, TimesNodes, AstKinds
    <2> QED
      BY <2>2, <2>3, <2>4, <2>5, <2>6 DEF At
  <1>3. \A l \in DOMAIN labels : labels[l] \in Nat /\ labels[l] >= Origin
    BY LabelsAreNat DEF IInv
  <1>4. \A n \in DOMAIN equ : equ[n].val \in Int \cup {NIL}
    BY DEF IInv, EqusGood, EquEntries
  <1>5. TypeOK
    BY <1>2, <1>3, <1>4 DEF TypeOK, IInv, Position
  <1>6. Tiled(Entries)
    BY <1>1 DEF Layout
  <1>7. LabelsTrackLayout
    BY DEF LabelsTrackLayout, IInv, LabelsGood
  <1> QED
    BY <1>5, <1>6, <1>7 DEF LaidOut

LEMMA InvariantStarts == Init => IInv
  <1> SUFFICES ASSUME Init PROVE IInv
    OBVIOUS
  <1>1. /\ prog \in Programs /\ Len(prog) \in Nat /\ DOMAIN prog = 1 .. Len(prog)
        /\ next = 1 /\ offset = 0
        /\ Origin \in Nat /\ MaxPasses \in Nat \ {0}
    BY NodeFacts, BoundsAssumption DEF Init
  <1>2. nodesOffsets = << >> /\ labels = << >> /\ equ = << >>
    BY DEF Init
  <1>3. ToSet(nodesOffsets) = {} /\ DOMAIN labels = {} /\ DOMAIN equ = {}
    BY <1>2 DEF ToSet
  <1>4. MapGood(nodesOffsets, next, DOMAIN equ)
    <2>1. nodesOffsets \in Seq(MapEntries) /\ DOMAIN nodesOffsets = {}
      BY <1>2
    <2> QED
      BY <1>3, <2>1 DEF MapGood, IsOnce, Layout, Tiled, InOrder
  <1>5. EqusGood(equ, next)
    <2>1. equ \in [DOMAIN equ -> EquEntries]
      BY <1>2
    <2>2. \A k \in DOMAIN prog : ~(k < next)
      BY <1>1
    <2> QED
      BY <1>3, <2>1, <2>2 DEF EqusGood
  <1>6. LabelsGood(labels, Entries, next)
    <2>1. \A k \in DOMAIN prog : ~(k < next)
      BY <1>1
    <2> QED
      BY <1>3, <2>1 DEF LabelsGood
  <1>7. Stands(Entries, Origin + offset, next)
    <2>1. Origin + offset = Origin
      BY <1>1
    <2> QED
      BY <1>3, <2>1 DEF Stands, Entries
  <1>8. Position
    BY <1>1, <1>7 DEF Init, Position
  <1> QED
    BY <1>1, <1>4, <1>5, <1>6, <1>8 DEF IInv

\* What the invariant says in the next state, in terms of this one.
LEMMA Primed ==
  ASSUME prog' = prog, prog \in Programs, Position',
         MapGood(nodesOffsets', next', DOMAIN equ'), EqusGood(equ', next'),
         LabelsGood(labels', ToSet(nodesOffsets'), next')
  PROVE  IInv'
  BY DEF IInv, MapGood, EqusGood, LabelsGood, Owned, Entries

\* A step that leaves the tables, or gives the EQUs other values.
LEMMA SameMap ==
  ASSUME IInv, prog' = prog, next' = next, nodesOffsets' = nodesOffsets, labels' = labels,
         equ' \in Tables(equ), Position'
  PROVE  IInv'
  <1>1. DOMAIN equ' = DOMAIN equ /\ EqusGood(equ', next)
    <2>1. /\ equ' \in [DOMAIN equ -> EquEntries]
          /\ \A name \in DOMAIN equ : equ'[name].labeled = equ[name].labeled
      BY DEF Tables
    <2> QED
      BY <2>1 DEF EqusGood, IInv
  <1>2. /\ MapGood(nodesOffsets', next', DOMAIN equ') /\ EqusGood(equ', next')
        /\ LabelsGood(labels', ToSet(nodesOffsets'), next')
    BY <1>1 DEF IInv, Entries
  <1> QED
    BY <1>2, Primed DEF IInv

LEMMA SameTable == ASSUME IInv PROVE equ \in Tables(equ)
  BY DEF IInv, EqusGood, Tables

-----------------------------------------------------------------------------
(* The first pass.                                                         *)

LEMMA AtNext ==
  ASSUME IInv, phase = "first", next <= Len(prog)
  PROVE  /\ next \in Nat /\ next \in DOMAIN prog /\ next + 1 \in 1 .. Len(prog) + 1
         /\ Origin + offset \in Nat /\ Origin + offset >= Origin
         /\ Stands(Entries, Origin + offset, next)
         /\ \A k \in DOMAIN prog : k < next + 1 <=> k < next \/ k = next
         /\ \A k \in DOMAIN prog : k < next => k # next
  <1>1. next \in 1 .. Len(prog) + 1 /\ offset \in Nat /\ prog \in Programs
    BY DEF IInv, Position
  <1>2. Len(prog) \in Nat /\ DOMAIN prog = 1 .. Len(prog) /\ Origin \in Nat
    BY <1>1, NodeFacts, OriginIsNat
  <1>3. Stands(Entries, Origin + offset, next)
    BY DEF IInv, Position
  <1> QED
    BY <1>1, <1>2, <1>3

\* The blob of the node that the first pass has come to is emitted.
LEMMA EmitNext ==
  ASSUME IInv, phase = "first", next <= Len(prog), prog[next].kind # "LABEL",
         NEW size \in Nat, Sized(Blob(next, prog[next], size)),
         NEW names, DOMAIN equ \subseteq names,
         prog[next].kind = "EQU" => prog[next].name \in names
  PROVE  LET m == EmitBlob(nodesOffsets, Origin + offset, Blob(next, prog[next], size)) IN
         /\ MapGood(m, next + 1, names)
         /\ Stands(ToSet(m), Origin + (offset + size), next + 1)
         /\ LabelsGood(labels, ToSet(m), next + 1)
  <1> DEFINE m    == EmitBlob(nodesOffsets, Origin + offset, Blob(next, prog[next], size))
             ast  == prog[next]
             addr == Origin + offset
  <1>1. /\ next \in Nat /\ next \in DOMAIN prog /\ addr \in Nat /\ addr >= Origin
        /\ Stands(Entries, addr, next)
        /\ \A k \in DOMAIN prog : k < next + 1 <=> k < next \/ k = next
        /\ \A k \in DOMAIN prog : k < next => k # next
    BY AtNext
  <1>2. ast \in Asts
    BY <1>1, NodeFacts DEF IInv
  <1>3. /\ nodesOffsets \in Seq(MapEntries) /\ IsOnce(nodesOffsets) /\ Layout(Entries)
        /\ \A e \in Entries : /\ e.blob.node \in DOMAIN prog /\ e.blob.node < next
                              /\ prog[e.blob.node].kind # "LABEL" /\ Named(e.blob, DOMAIN equ)
    BY DEF IInv, MapGood, Owned, Entries
  <1>4. \A e \in Entries : Named(e.blob, names)
    BY <1>3 DEF Named
  <1>5. addr + size = Origin + (offset + size)
    BY OriginIsNat DEF IInv, Position
  <1>6. Emitted(nodesOffsets, m, addr, next, size, names)
    <2> HIDE DEF addr
    <2>1. Emitted(nodesOffsets, EmitBlob(nodesOffsets, addr, Blob(next, ast, size)),
                  addr, next, size, names)
      <3> HIDE DEF ast
      <3>1. Sized(Blob(next, ast, size)) /\ (ast.kind = "EQU" => ast.name \in names)
        BY DEF ast
      <3> QED
        BY <1>1, <1>2, <1>3, <1>4, <3>1, EmitBlobFacts DEF Entries
    <2> QED
      BY <2>1 DEF addr
  <1> HIDE DEF m, addr
  <1>7. MapGood(m, next + 1, names)
    <2>1. ASSUME NEW e \in ToSet(m) PROVE Owned(e.blob, next + 1, names)
      <3>1. Named(e.blob, names)
        BY <1>6 DEF Emitted
      <3>2. CASE e.blob.node = next
        BY <1>1, <3>1, <3>2 DEF Owned
      <3>3. ASSUME NEW d \in Entries, e.blob.node = d.blob.node
            PROVE  Owned(e.blob, next + 1, names)
        BY <1>1, <1>3, <3>1, <3>3 DEF Owned
      <3> QED
        BY <1>6, <3>2, <3>3 DEF Emitted, Entries
    <2> QED
      BY <1>6, <2>1 DEF Emitted, MapGood
  <1>8. Stands(ToSet(m), Origin + (offset + size), next + 1)
    BY <1>5, <1>6 DEF Emitted
  <1>9. LabelsGood(labels, ToSet(m), next + 1)
    <2>1. \A l \in DOMAIN labels :
            \E k \in DOMAIN prog : k < next + 1 /\ prog[k].kind = "LABEL" /\ prog[k].name = l
      BY <1>1 DEF IInv, LabelsGood
    <2>2. ASSUME NEW k \in DOMAIN prog, k < next + 1, prog[k].kind = "LABEL"
          PROVE  /\ prog[k].name \in DOMAIN labels
                 /\ labels[prog[k].name] \in Nat /\ labels[prog[k].name] >= Origin
                 /\ Stands(ToSet(m), labels[prog[k].name], k)
      <3>1. k < next /\ k \in Nat
        BY <1>1, <2>2, NodeFacts DEF IInv
      <3>2. /\ prog[k].name \in DOMAIN labels
            /\ labels[prog[k].name] \in Nat /\ labels[prog[k].name] >= Origin
            /\ Stands(Entries, labels[prog[k].name], k)
        BY <2>2, <3>1 DEF IInv, LabelsGood
      <3> QED
        BY <1>6, <3>1, <3>2 DEF Emitted, Entries
    <2> QED
      BY <2>1, <2>2 DEF LabelsGood
  <1> QED
    BY <1>7, <1>8, <1>9 DEF m

LEMMA SizedStep == IInv /\ FirstPassSized => IInv'
  <1> SUFFICES ASSUME IInv, FirstPassSized PROVE IInv'
    OBVIOUS
  <1> DEFINE ast  == prog[next]
             size == IF ast.kind = "TIMES" THEN 1 ELSE ast.size
  <1>1. /\ phase = "first" /\ next <= Len(prog)
        /\ ast.kind \in {"INSTRUCTION", "DEFINE", "TIMES"} /\ prog \in Programs
    BY DEF FirstPassSized, FirstPassNode, IInv
  <1>2. /\ next \in DOMAIN prog /\ next + 1 \in 1 .. Len(prog) + 1
        /\ \A k \in DOMAIN prog : k < next + 1 <=> k < next \/ k = next
    BY <1>1, AtNext
  <1>3. size \in Nat /\ size > 0 /\ Sized(Blob(next, ast, size))
    <2>1. ast.kind # "TIMES" => ast.size \in Nat \ {0}
      <3>1. ast.kind # "TIMES" => ast \in ByteNodes
        BY <1>1, <1>2, NodeFacts
      <3> QED
        BY <3>1 DEF ByteNodes
    <2> QED
      BY <1>1, <2>1 DEF Sized, Blob
  <1>4. /\ nodesOffsets' = EmitBlob(nodesOffsets, Origin + offset, Blob(next, ast, size))
        /\ offset' = offset + size /\ next' = next + 1
        /\ prog' = prog /\ phase' = phase /\ error' = error /\ labels' = labels /\ equ' = equ
        /\ pass' = pass /\ seen' = seen
    BY DEF FirstPassSized, passVars
  <1> HIDE DEF size
  <1>5. /\ MapGood(nodesOffsets', next', DOMAIN equ')
        /\ Stands(ToSet(nodesOffsets'), Origin + offset', next')
        /\ LabelsGood(labels', ToSet(nodesOffsets'), next')
    BY <1>1, <1>3, <1>4, EmitNext
  <1>6. EqusGood(equ', next')
    BY <1>1, <1>2, <1>4 DEF IInv, EqusGood
  <1>7. offset' \in Nat
    BY <1>3, <1>4 DEF IInv, Position
  <1>8. Position'
    BY <1>1, <1>2, <1>4, <1>5, <1>7 DEF IInv, Position, Entries
  <1> QED
    BY <1>1, <1>4, <1>5, <1>6, <1>8, Primed

LEMMA FailStep ==
  ASSUME IInv, NEW code, code # "none", Fail(code) PROVE IInv'
  <1>1. Position'
    BY DEF IInv, Position, Fail, passVars, firstVars
  <1> QED
    BY <1>1, SameMap, SameTable DEF Fail, firstVars

LEMMA EquStep == IInv /\ FirstPassEqu => IInv'
  <1> SUFFICES ASSUME IInv, FirstPassEqu PROVE IInv'
    OBVIOUS
  <1> DEFINE ast == prog[next]
             new == [val |-> IF ast.ref = NoRef THEN ast.add ELSE NIL, labeled |-> ast.ref # NoRef]
  <1>1. phase = "first" /\ next <= Len(prog) /\ ast.kind = "EQU" /\ prog \in Programs
    BY DEF FirstPassEqu, FirstPassNode, IInv
  <1>2. /\ next \in DOMAIN prog /\ next + 1 \in 1 .. Len(prog) + 1
        /\ \A k \in DOMAIN prog : k < next + 1 <=> k < next \/ k = next
        /\ \A k \in DOMAIN prog : k < next => k # next
    BY <1>1, AtNext
  <1>3. ast \in EquNodes
    BY <1>1, <1>2, NodeFacts
  <1>4. CASE ast.name \in Defined
    BY <1>4, FailStep DEF FirstPassEqu
  <1>5. CASE ast.name \notin Defined
    <2>1. /\ nodesOffsets' = EmitBlob(nodesOffsets, Origin + offset, Blob(next, ast, 0))
          /\ equ' = With(equ, ast.name, new) /\ next' = next + 1
          /\ prog' = prog /\ phase' = phase /\ error' = error /\ labels' = labels
          /\ offset' = offset /\ pass' = pass /\ seen' = seen
      BY <1>5 DEF FirstPassEqu, passVars
    <2>2. new \in EquEntries
      BY <1>3 DEF EquNodes, EquEntries
    <2>3. new.labeled = (ast.ref # NoRef)
      OBVIOUS
    <2> HIDE DEF new
    <2>4. /\ equ \in [DOMAIN equ -> EquEntries] /\ ast.name \notin DOMAIN equ
          /\ \A name \in DOMAIN equ :
               \E k \in DOMAIN prog : k < next /\ prog[k].kind = "EQU" /\ prog[k].name = name
          /\ \A k \in DOMAIN prog :
               k < next /\ prog[k].kind = "EQU" =>
                 /\ prog[k].name \in DOMAIN equ
                 /\ equ[prog[k].name].labeled = (prog[k].ref # NoRef)
      BY <1>5 DEF IInv, EqusGood, Defined
    <2>5. /\ DOMAIN equ' = DOMAIN equ \cup {ast.name} /\ equ'[ast.name] = new
          /\ \A name \in DOMAIN equ : equ'[name] = equ[name]
          /\ equ' \in [DOMAIN equ' -> EquEntries]
      BY <2>1, <2>2, <2>4 DEF With
    <2>6. EqusGood(equ', next')
      <3>1. \A name \in DOMAIN equ' :
              \E k \in DOMAIN prog : k < next + 1 /\ prog[k].kind = "EQU" /\ prog[k].name = name
        <4>1. next < next + 1
          BY <1>2
        <4> QED
          BY <1>1, <1>2, <2>4, <2>5, <4>1
      <3>2. ASSUME NEW k \in DOMAIN prog, k < next + 1, prog[k].kind = "EQU"
            PROVE  /\ prog[k].name \in DOMAIN equ'
                   /\ equ'[prog[k].name].labeled = (prog[k].ref # NoRef)
        <4>1. CASE k = next
          BY <2>3, <2>5, <4>1
        <4>2. CASE k < next
          BY <2>4, <2>5, <3>2, <4>2
        <4> QED
          BY <1>2, <3>2, <4>1, <4>2
      <3> QED
        BY <2>1, <2>5, <3>1, <3>2 DEF EqusGood
    <2>7. Sized(Blob(next, ast, 0))
      BY <1>1 DEF Sized, Blob
    <2>8. /\ MapGood(nodesOffsets', next', DOMAIN equ')
          /\ Stands(ToSet(nodesOffsets'), Origin + (offset + 0), next')
          /\ LabelsGood(labels', ToSet(nodesOffsets'), next')
      BY <1>1, <2>1, <2>5, <2>7, EmitNext
    <2>9. offset + 0 = offset'
      BY <2>1 DEF IInv, Position
    <2>10. Position'
      BY <1>1, <1>2, <2>1, <2>8, <2>9 DEF IInv, Position, Entries
    <2> QED
      BY <1>1, <2>1, <2>6, <2>8, <2>10, Primed
  <1> QED
    BY <1>4, <1>5

LEMMA LabelStep == IInv /\ FirstPassLabel => IInv'
  <1> SUFFICES ASSUME IInv, FirstPassLabel PROVE IInv'
    OBVIOUS
  <1> DEFINE name == prog[next].name
             addr == Origin + offset
  <1>1. /\ phase = "first" /\ next <= Len(prog) /\ prog[next].kind = "LABEL" /\ prog \in Programs
    BY DEF FirstPassLabel, FirstPassNode, IInv
  <1>2. /\ next \in DOMAIN prog /\ next \in Nat /\ next + 1 \in 1 .. Len(prog) + 1
        /\ addr \in Nat /\ addr >= Origin /\ Stands(Entries, addr, next)
        /\ \A k \in DOMAIN prog : k < next + 1 <=> k < next \/ k = next
        /\ \A k \in DOMAIN prog : k < next => k # next
    BY <1>1, AtNext
  <1>3. CASE name \in Defined
    BY <1>3, FailStep DEF FirstPassLabel
  <1>4. CASE name \notin Defined
    <2>1. /\ labels' = With(labels, name, addr) /\ next' = next + 1
          /\ nodesOffsets' = nodesOffsets /\ equ' = equ /\ offset' = offset
          /\ prog' = prog /\ phase' = phase /\ error' = error /\ pass' = pass /\ seen' = seen
      BY <1>4 DEF FirstPassLabel, passVars
    <2>2. /\ DOMAIN labels' = DOMAIN labels \cup {name} /\ labels'[name] = addr
          /\ name \notin DOMAIN labels /\ \A l \in DOMAIN labels : labels'[l] = labels[l]
      BY <1>4, <2>1 DEF With, Defined
    <2> HIDE DEF addr
    <2>3. LabelsGood(labels', Entries, next + 1)
      <3>1. \A l \in DOMAIN labels' :
              \E k \in DOMAIN prog : k < next + 1 /\ prog[k].kind = "LABEL" /\ prog[k].name = l
        BY <1>1, <1>2, <2>2 DEF IInv, LabelsGood
      <3>2. ASSUME NEW k \in DOMAIN prog, k < next + 1, prog[k].kind = "LABEL"
            PROVE  /\ prog[k].name \in DOMAIN labels'
                   /\ labels'[prog[k].name] \in Nat /\ labels'[prog[k].name] >= Origin
                   /\ Stands(Entries, labels'[prog[k].name], k)
        <4>1. CASE k = next
          BY <1>2, <2>2, <4>1
        <4>2. CASE k < next
          <5>1. /\ prog[k].name \in DOMAIN labels
                /\ labels[prog[k].name] \in Nat /\ labels[prog[k].name] >= Origin
                /\ Stands(Entries, labels[prog[k].name], k)
            BY <3>2, <4>2 DEF IInv, LabelsGood
          <5> QED
            BY <2>2, <5>1
        <4> QED
          BY <1>2, <3>2, <4>1, <4>2
      <3> QED
        BY <3>1, <3>2 DEF LabelsGood
    <2>4. \A e \in Entries : e.blob.node \in Nat /\ e.blob.node < next
      BY <1>1, NodeFacts DEF IInv, MapGood, Owned, Entries
    <2>5. Stands(Entries, addr, next + 1)
      <3>1. \A e \in Entries : e.blob.node < next + 1 /\ ~(e.blob.node > next + 1)
        BY <1>2, <2>4
      <3> QED
        BY <1>2, <2>4, <3>1 DEF Stands
    <2>6. MapGood(nodesOffsets', next', DOMAIN equ')
      BY <1>2, <2>1 DEF IInv, MapGood, Owned
    <2>7. EqusGood(equ', next')
      BY <1>1, <1>2, <2>1 DEF IInv, EqusGood
    <2>8. Position'
      BY <1>1, <1>2, <2>1, <2>5 DEF IInv, Position, Entries, addr
    <2> QED
      BY <1>1, <2>1, <2>3, <2>6, <2>7, <2>8, Primed DEF Entries
  <1> QED
    BY <1>3, <1>4

LEMMA BeginStep == IInv /\ BeginSecondPass => IInv'
  <1> SUFFICES ASSUME IInv, BeginSecondPass PROVE IInv'
    OBVIOUS
  <1>1. /\ phase = "first" /\ next > Len(prog) /\ phase' = "second"
        /\ prog' = prog /\ error' = error /\ next' = next /\ offset' = offset
        /\ labels' = labels /\ equ' = equ /\ nodesOffsets' = nodesOffsets
        /\ pass' = pass /\ seen' = seen
    BY DEF BeginSecondPass, firstVars, passVars
  <1>2. next = Len(prog) + 1 /\ pass < MaxPasses /\ seen \in 0 .. Len(nodesOffsets)
    <2>1. prog \in Programs /\ next \in 1 .. Len(prog) + 1 /\ seen = 0 /\ pass = 0
      BY <1>1 DEF IInv, Position
    <2>2. Len(prog) \in Nat /\ MaxPasses \in Nat \ {0}
      BY <2>1, NodeFacts, BoundsAssumption
    <2>3. Len(nodesOffsets) \in Nat
      BY DEF IInv, MapGood
    <2> QED
      BY <1>1, <2>1, <2>2, <2>3
  <1>3. Position'
    BY <1>1, <1>2 DEF IInv, Position
  <1> QED
    BY <1>1, <1>3, SameMap, SameTable

-----------------------------------------------------------------------------
(* The second pass.                                                        *)

LEMMA VisitFacts ==
  ASSUME IInv, Visiting
  PROVE  /\ phase = "second" /\ next = Len(prog) + 1 /\ prog \in Programs
         /\ seen + 1 \in DOMAIN nodesOffsets /\ seen + 1 \in 0 .. Len(nodesOffsets)
         /\ nodesOffsets \in Seq(MapEntries) /\ IsOnce(nodesOffsets) /\ Layout(Entries)
         /\ Current = nodesOffsets[seen + 1] /\ Current \in Entries /\ Current \in MapEntries
         /\ Current.at \in Nat /\ Current.at >= Origin /\ Current.blob \in Blobs
         /\ Current.blob.ast \in Asts /\ Current.blob.size \in Nat /\ Sized(Current.blob)
         /\ Owned(Current.blob, next, DOMAIN equ)
         /\ \A l \in DOMAIN labels : labels[l] \in Nat
  <1>1. /\ phase = "second" /\ next = Len(prog) + 1 /\ prog \in Programs
        /\ seen \in 0 .. Len(nodesOffsets) /\ seen < Len(nodesOffsets)
    BY DEF IInv, Position, Visiting
  <1>2. /\ nodesOffsets \in Seq(MapEntries) /\ IsOnce(nodesOffsets) /\ Layout(Entries)
        /\ \A e \in Entries : Owned(e.blob, next, DOMAIN equ)
    BY DEF IInv, MapGood, Entries
  <1>3. seen + 1 \in DOMAIN nodesOffsets /\ seen + 1 \in 0 .. Len(nodesOffsets)
    BY <1>1, <1>2
  <1>4. Current = nodesOffsets[seen + 1] /\ Current \in Entries /\ Current \in MapEntries
    BY <1>2, <1>3, InMap DEF Current, Entries
  <1>5. /\ Current.at \in Nat /\ Current.blob \in Blobs
        /\ Current.blob.ast \in Asts /\ Current.blob.size \in Nat
    BY <1>4 DEF MapEntries, Blobs
  <1>6. Current.at >= Origin /\ Sized(Current.blob)
    BY <1>2, <1>4 DEF Layout
  <1>7. \A l \in DOMAIN labels : labels[l] \in Nat
    BY LabelsAreNat DEF IInv
  <1> QED
    BY <1>1, <1>2, <1>3, <1>4, <1>5, <1>6, <1>7

\* The EQUs of a visit get values of numbers.
LEMMA VisitPass ==
  ASSUME IInv, NEW kind, Visit(kind)
  PROVE  /\ PassEqus(EqusAt(Current.blob)) \in Tables(equ)
         /\ PassEqus(Current.blob.slaves) \in Tables(equ)
         /\ kind \in {"INSTRUCTION", "DEFINE"} => Current.blob.ast.ref \in Defined \cup {NoRef}
  <1> DEFINE b == Current.blob
  <1>1. Visiting /\ b.ast.kind = kind /\ RefsOf(b) \subseteq Defined \cup {NoRef}
    BY DEF Visit
  <1>2. /\ prog \in Programs /\ b \in Blobs /\ Named(b, DOMAIN equ)
        /\ \A l \in DOMAIN labels : labels[l] \in Nat
    BY <1>1, VisitFacts DEF Owned
  <1>3. EqusGood(equ, Len(prog) + 1)
    BY <1>1, VisitFacts DEF IInv
  <1> HIDE DEF b
  <1>4. \A x \in ToSet(EqusAt(b)) : EquAst(x).ref \in Defined \cup {NoRef}
    BY <1>1 DEF RefsOf
  <1>5. kind \in {"INSTRUCTION", "DEFINE"} => b.ast.ref \in Defined \cup {NoRef}
    BY <1>1 DEF RefsOf
  <1>6. /\ EqusAt(b) \in Seq(Names) /\ ToSet(EqusAt(b)) \subseteq DOMAIN equ
        /\ b.slaves \in Seq(Names) /\ ToSet(b.slaves) \subseteq DOMAIN equ
    BY <1>2, NamedFacts DEF Named
  <1>7. ToSet(b.slaves) \subseteq ToSet(EqusAt(b))
    <2>1. CASE b.ast.kind = "EQU"
      <3>1. b.ast.name \in Names
        BY <1>2, <2>1, NamedFacts
      <3> QED
        BY <1>6, <2>1, <3>1, ChainFacts DEF EqusAt
    <2>2. CASE b.ast.kind # "EQU"
      BY <2>2 DEF EqusAt
    <2> QED
      BY <2>1, <2>2
  <1>8. PassEqus(EqusAt(b)) \in Tables(equ)
    BY <1>2, <1>3, <1>4, <1>6, PassEqusFacts
  <1>9. PassEqus(b.slaves) \in Tables(equ)
    BY <1>2, <1>3, <1>4, <1>6, <1>7, PassEqusFacts
  <1> QED
    BY <1>5, <1>8, <1>9 DEF b

LEMMA UnknownStep == IInv /\ UnknownKeyword => IInv'
  BY FailStep DEF UnknownKeyword

LEMMA VisitEquStep == IInv /\ VisitEqu => IInv'
  <1> SUFFICES ASSUME IInv, VisitEqu PROVE IInv'
    OBVIOUS
  <1>1. /\ Visit("EQU") /\ equ' = PassEqus(EqusAt(Current.blob))
        /\ nodesOffsets' = nodesOffsets /\ seen' = seen + 1
        /\ prog' = prog /\ phase' = phase /\ error' = error /\ next' = next /\ offset' = offset
        /\ labels' = labels /\ pass' = pass
    BY DEF VisitEqu, SameLayout, firstVars
  <1>2. phase = "second" /\ seen + 1 \in 0 .. Len(nodesOffsets)
    BY <1>1, VisitFacts DEF Visit
  <1>3. equ' \in Tables(equ)
    BY <1>1, VisitPass
  <1>4. Position'
    BY <1>1, <1>2 DEF IInv, Position
  <1> QED
    BY <1>1, <1>3, <1>4, SameMap

\* A visit that gives its entry a value, at most.
LEMMA ValueStep ==
  ASSUME IInv, Visiting, equ' \in Tables(equ), NEW v \in Int,
         \/ nodesOffsets' = nodesOffsets
         \/ nodesOffsets' = [nodesOffsets EXCEPT ![seen + 1].blob.val = v],
         SameLayout
  PROVE  IInv'
  <1>1. /\ seen' = seen + 1 /\ prog' = prog /\ phase' = phase /\ error' = error
        /\ next' = next /\ offset' = offset /\ labels' = labels /\ pass' = pass
    BY DEF SameLayout, firstVars
  <1>2. /\ phase = "second" /\ seen + 1 \in 0 .. Len(nodesOffsets) /\ next = Len(prog) + 1
        /\ seen + 1 \in DOMAIN nodesOffsets /\ prog \in Programs
        /\ nodesOffsets \in Seq(MapEntries) /\ IsOnce(nodesOffsets) /\ Layout(Entries)
    BY VisitFacts
  <1>3. CASE nodesOffsets' = nodesOffsets
    <2>1. Position'
      BY <1>1, <1>2, <1>3 DEF IInv, Position
    <2> QED
      BY <1>1, <1>3, <2>1, SameMap
  <1>4. CASE nodesOffsets' = [nodesOffsets EXCEPT ![seen + 1].blob.val = v]
    <2> DEFINE i == seen + 1
               m == [nodesOffsets EXCEPT ![i].blob.val = v]
    <2>1. /\ m \in Seq(MapEntries) /\ IsOnce(m) /\ Len(m) = Len(nodesOffsets) /\ Layout(ToSet(m))
          /\ \A a \in Nat : \A k \in Nat : Stands(Entries, a, k) => Stands(ToSet(m), a, k)
          /\ \A e \in ToSet(m) : \E d \in Entries :
               e.blob.node = d.blob.node /\ EqusAt(e.blob) = EqusAt(d.blob)
      <3> HIDE DEF i
      <3>1. i \in DOMAIN nodesOffsets
        BY <1>2 DEF i
      <3> QED
        BY <1>2, <3>1, SetValue DEF Entries
    <2>2. nodesOffsets' = m
      BY <1>4
    <2> HIDE DEF m
    <2>3. DOMAIN equ' = DOMAIN equ /\ EqusGood(equ', next)
      <3>1. /\ equ' \in [DOMAIN equ -> EquEntries]
            /\ \A name \in DOMAIN equ : equ'[name].labeled = equ[name].labeled
        BY DEF Tables
      <3> QED
        BY <3>1 DEF EqusGood, IInv
    <2>4. MapGood(m, next, DOMAIN equ)
      <3>1. \A d \in Entries : Owned(d.blob, next, DOMAIN equ)
        BY DEF IInv, MapGood, Entries
      <3>2. \A e \in ToSet(m) : Owned(e.blob, next, DOMAIN equ)
        BY <2>1, <3>1 DEF Owned, Named
      <3> QED
        BY <2>1, <3>2 DEF MapGood
    <2>5. LabelsGood(labels, ToSet(m), next)
      <3>1. \A k \in DOMAIN prog : k \in Nat
        BY <1>2, NodeFacts
      <3> QED
        BY <2>1, <3>1 DEF IInv, LabelsGood
    <2>6. Position'
      BY <1>1, <1>2, <2>1, <2>2 DEF IInv, Position
    <2> QED
      BY <1>1, <1>2, <2>2, <2>3, <2>4, <2>5, <2>6, Primed
  <1> QED
    BY <1>3, <1>4

LEMMA DefinitionStep == IInv /\ VisitDefinition => IInv'
  <1> SUFFICES ASSUME IInv, VisitDefinition PROVE IInv'
    OBVIOUS
  <1> DEFINE b == Current.blob
             v == IF b.ast.ref = NoRef THEN 0 ELSE Resolve(equ', b.ast.ref)
  <1>1. /\ Visit("DEFINE") /\ Visiting /\ equ' = PassEqus(b.slaves) /\ SameLayout
    BY DEF VisitDefinition, Visit
  <1>2. equ' \in Tables(equ) /\ b.ast.ref \in Defined \cup {NoRef}
    BY <1>1, VisitPass
  <1>3. v \in Int
    <2>1. CASE b.ast.ref \in Defined
      <3>1. \A l \in DOMAIN labels : labels[l] \in Nat
        BY <1>1, VisitFacts
      <3>2. Resolve(equ', b.ast.ref) \in Int
        BY <1>2, <2>1, <3>1, Resolved
      <3> QED
        BY <3>2
    <2> QED
      BY <1>2, <2>1
  <1>4. \/ nodesOffsets' = nodesOffsets
        \/ nodesOffsets' = [nodesOffsets EXCEPT ![seen + 1].blob.val = v]
    BY DEF VisitDefinition
  <1> HIDE DEF v
  <1> QED
    BY <1>1, <1>2, <1>3, <1>4, ValueStep

LEMMA ShortestFacts ==
  ASSUME NEW sizes, sizes \subseteq {2, 3, 4}, sizes # {}
  PROVE  Shortest(sizes) \in {2, 3, 4}
  <1>1. \E s \in sizes : \A t \in sizes : s <= t
    <2>1. CASE 2 \in sizes
      BY <2>1
    <2>2. CASE 2 \notin sizes /\ 3 \in sizes
      BY <2>2
    <2>3. CASE 2 \notin sizes /\ 3 \notin sizes
      <3>1. 4 \in sizes /\ \A t \in sizes : t = 4
        BY <2>3
      <3> QED
        BY <3>1
    <2> QED
      BY <2>1, <2>2, <2>3
  <1>2. Shortest(sizes) \in sizes
    BY <1>1 DEF Shortest
  <1> QED
    BY <1>2

LEMMA SchemasAreFew ==
  ASSUME NEW mn, NEW val, NEW addr
  PROVE  SchemaSizes(mn, val, addr) \subseteq {2, 3, 4}
  BY DEF SchemaSizes

\* One entry takes the place of another.
LEMMA OneFills ==
  ASSUME NEW x \in MapEntries, NEW new \in MapEntries, new.at = x.at,
         new.blob.node = x.blob.node, Sized(new.blob), new.blob.size > 0
  PROVE  Fills({new}, x, new.blob.size)
  <1>1. /\ x.at \in Nat /\ new.blob.size \in Nat /\ Ends(new) = x.at + new.blob.size
    BY Numbers
  <1> QED
    BY <1>1 DEF Fills

\* An instruction is set again in another size, and what is behind it shifted.
LEMMA ResizedEntry ==
  ASSUME NEW map \in Seq(MapEntries), IsOnce(map), Layout(ToSet(map)),
         NEW i \in DOMAIN map, map[i].blob.size > 0,
         NEW blob \in Blobs, blob.node = map[i].blob.node, Sized(blob), blob.size > 0
  PROVE  LET x   == map[i]
             new == [at |-> x.at, blob |-> blob]
             r   == Resized(MapSet(map, x.at, blob), x.at, blob.size - x.blob.size) IN
         /\ r \in Seq(MapEntries) /\ IsOnce(r)
         /\ ToSet(r) = Replaced(ToSet(map), x, {new}, blob.size)
         /\ Fills({new}, x, blob.size)
         /\ SeenAfter(map, i, x.at, {}) \in 0 .. Len(r)
  <1> DEFINE x    == map[i]
             E    == ToSet(map)
             addr == x.at
             new  == [at |-> addr, blob |-> blob]
             m    == MapSet(map, addr, blob)
             d    == blob.size - x.blob.size
             r    == Resized(m, addr, d)
  <1>1. /\ x \in E /\ x \in MapEntries /\ addr \in Nat /\ x.blob.size \in Nat
        /\ blob.size \in Nat /\ d \in Int /\ \A e \in E : e \in MapEntries
    BY InMap, Numbers DEF Blobs
  <1>2. \A e, f \in E : e.at = f.at => e = f
    BY DEF Layout
  <1>3. /\ new \in MapEntries /\ m \in Seq(MapEntries) /\ IsOnce(m)
        /\ ToSet(m) = (E \ {x}) \cup {new}
    BY <1>1, <1>2, SetPresent
  <1>4. new.at = addr /\ new.blob = blob
    OBVIOUS
  <1>5. Fills({new}, x, blob.size)
    <2> HIDE DEF x, new
    <2>1. Fills({new}, x, new.blob.size)
      BY <1>1, <1>3, <1>4, OneFills DEF x
    <2> QED
      BY <1>4, <2>1
  <1> HIDE DEF x, E, m, new
  <1>6. Regions(E, x, {new}, blob.size)
    BY <1>1, <1>5, RegionsHold DEF E, x
  <1>7. \A e \in ToSet(m) : e = new \/ (e \in E /\ e # x)
    BY <1>3
  <1>8. \A e \in E : /\ e \in MapEntries /\ e.at \in Nat
                     /\ e.at > addr => e.at >= addr + x.blob.size /\ e.at + d \in Nat /\ e.at + d > addr
    <2>1. ASSUME NEW e \in E
          PROVE  /\ e \in MapEntries /\ e.at \in Nat
                 /\ e.at > addr => e.at >= addr + x.blob.size /\ e.at + d \in Nat /\ e.at + d > addr
      <3>1. e \in MapEntries /\ e.at \in Nat
        BY <1>1, Numbers
      <3>2. ASSUME e.at > addr PROVE e.at >= addr + x.blob.size
        <4>1. e.at >= Ends(x)
          BY <1>6, <3>2 DEF Regions, Behind
        <4> QED
          BY <1>1, <4>1, Numbers
      <3> QED
        BY <1>1, <3>1, <3>2
    <2> QED
      BY <2>1
  <1>9. \A e \in ToSet(m) : e.at > addr =>
          /\ e.at + d \in Nat
          /\ \A f \in ToSet(m) : f.at <= addr => f.at < e.at + d
    <2>1. ASSUME NEW e \in ToSet(m), e.at > addr, NEW f \in ToSet(m), f.at <= addr
          PROVE  e.at + d \in Nat /\ f.at < e.at + d
      <3>1. e \in E /\ e.at + d \in Nat /\ e.at + d > addr
        BY <1>1, <1>4, <1>7, <1>8, <2>1
      <3>2. f.at \in Nat
        BY <1>1, <1>4, <1>7, <1>8
      <3> HIDE DEF d, addr
      <3> QED
        BY <1>1, <2>1, <3>1, <3>2
    <2>2. new \in ToSet(m) /\ new.at <= addr
      BY <1>1, <1>3, <1>4
    <2> QED
      BY <2>1, <2>2
  <1>10. /\ r \in Seq(MapEntries) /\ IsOnce(r)
         /\ ToSet(r) = Upto(ToSet(m), addr) \cup {Shifted(e, d) : e \in Behind(ToSet(m), addr)}
    <2> HIDE DEF addr, d
    <2> QED
      BY <1>1, <1>3, <1>9, ResizedFacts, ZenonT(40)
  <1>11. Upto(ToSet(m), addr) = Below(E, addr) \cup {new}
    <2>1. \A e \in E : e.at <= addr /\ e # x <=> e.at < addr
      BY <1>1, <1>2, <1>8
    <2>2. new.at <= addr
      BY <1>1, <1>4
    <2> HIDE DEF addr
    <2> QED
      BY <1>3, <1>7, <2>1, <2>2 DEF Upto, Below
  <1>12. Behind(ToSet(m), addr) = Behind(E, addr)
    <2>1. ~(new.at > addr) /\ ~(x.at > addr)
      BY <1>1, <1>4
    <2> HIDE DEF addr
    <2> QED
      BY <1>3, <1>7, <2>1 DEF Behind
  <1>13. ToSet(r) = Replaced(E, x, {new}, blob.size)
    BY <1>10, <1>11, <1>12 DEF Replaced
  <1> HIDE DEF r
  <1>14. \A e \in E : e.at <= addr /\ e.at \notin {} => \E f \in ToSet(r) : f.at = e.at
    <2>1. new \in ToSet(r) /\ \A e \in E : e.at < addr => e \in ToSet(r)
      BY <1>13 DEF Replaced, Below
    <2>2. \A e \in E : e.at <= addr => e.at < addr \/ e.at = addr
      BY <1>1, <1>8
    <2> QED
      BY <1>4, <2>1, <2>2
  <1>15. SeenAfter(map, i, addr, {}) \in 0 .. Len(r)
    <2> HIDE DEF addr
    <2> QED
      BY <1>2, <1>10, <1>14, SeenFacts DEF E
  <1> QED
    BY <1>5, <1>10, <1>13, <1>15 DEF r, m, new, E, x

LEMMA ValuedBlob ==
  ASSUME NEW node \in Nat, NEW ast \in Asts, NEW size \in Nat, NEW v \in Int
  PROVE  LET b == [Blob(node, ast, size) EXCEPT !.val = v] IN
         /\ b \in Blobs /\ b.node = node /\ b.size = size /\ b.slaves = << >> /\ b.ast = ast
         /\ Blob(node, ast, size) \in Blobs
  <1>1. << >> \in Seq(Names) /\ v \in Int \cup {NIL} /\ NIL \in Int \cup {NIL}
    OBVIOUS
  <1> QED
    BY <1>1 DEF Blob, Blobs

LEMMA InstructionStep == IInv /\ VisitInstruction => IInv'
  <1> SUFFICES ASSUME IInv, VisitInstruction PROVE IInv'
    OBVIOUS
  <1> DEFINE addr  == Current.at
             b     == Current.blob
             eqs   == PassEqus(b.slaves)
             val   == Resolve(eqs, b.ast.ref)
             sizes == SchemaSizes(b.ast.mn, val, addr)
             size  == Shortest(sizes)
             grow  == size - b.size
             blob  == [Blob(b.node, b.ast, size) EXCEPT !.val = val]
             r     == Resized(MapSet(nodesOffsets, addr, blob), addr, grow)
  <1>1. Visit("INSTRUCTION") /\ Visiting /\ b.ast.kind = "INSTRUCTION"
    BY DEF VisitInstruction, Visit
  <1>2. /\ phase = "second" /\ next = Len(prog) + 1 /\ prog \in Programs
        /\ seen + 1 \in DOMAIN nodesOffsets /\ seen + 1 \in 0 .. Len(nodesOffsets)
        /\ nodesOffsets \in Seq(MapEntries) /\ IsOnce(nodesOffsets) /\ Layout(Entries)
        /\ Current = nodesOffsets[seen + 1] /\ Current \in Entries /\ Current \in MapEntries
        /\ addr \in Nat /\ addr >= Origin /\ b \in Blobs
        /\ b.ast \in Asts /\ b.size \in Nat /\ Sized(b) /\ Owned(b, next, DOMAIN equ)
        /\ \A l \in DOMAIN labels : labels[l] \in Nat
    BY <1>1, VisitFacts
  <1>3. eqs \in Tables(equ) /\ b.ast.ref \in Defined \cup {NoRef}
    BY <1>1, VisitPass
  <1>4. b.ast.mn # "fixed" => val \in Int
    <2>1. b.ast \in ByteNodes /\ (b.ast.mn # "fixed" => b.ast.ref # NoRef)
      BY <1>1, <1>2 DEF Asts, EquNodes, ByteNodes, TimesNodes
    <2> HIDE DEF eqs
    <2> QED
      BY <1>2, <1>3, <2>1, Resolved
  <1>5. b.size > 0
    BY <1>1, <1>2 DEF Sized
  <1> HIDE DEF eqs, val
  <1>6. sizes # {} => size \in {2, 3, 4}
    BY SchemasAreFew, ShortestFacts
  <1>7. \/ b.ast.mn = "fixed" /\ equ' = eqs /\ nodesOffsets' = nodesOffsets /\ SameLayout
        \/ /\ phase' = "error" /\ error' = "UNKNOWN_COMPILER_INSTRUCTION" /\ equ' = eqs
           /\ UNCHANGED <<prog, firstVars, labels, nodesOffsets, passVars, blobs>>
        \/ /\ b.ast.mn # "fixed" /\ equ' = eqs /\ SameLayout
           /\ nodesOffsets' = [nodesOffsets EXCEPT ![seen + 1].blob.val = val]
        \/ /\ b.ast.mn # "fixed" /\ sizes # {} /\ equ' = eqs
           /\ nodesOffsets' = r /\ labels' = ResizedLabels(addr, grow)
           /\ seen' = SeenAfter(nodesOffsets, seen + 1, addr, {})
           /\ UNCHANGED <<prog, phase, error, firstVars, pass>>
    BY DEF VisitInstruction, eqs, val
  <1> HIDE DEF sizes, r, grow
  <1>8. CASE b.ast.mn = "fixed" /\ equ' = eqs /\ nodesOffsets' = nodesOffsets /\ SameLayout
    <2>1. 0 \in Int /\ equ' \in Tables(equ)
      BY <1>3, <1>8
    <2> QED
      BY <1>1, <1>8, <2>1, ValueStep
  <1>9. CASE /\ phase' = "error" /\ error' = "UNKNOWN_COMPILER_INSTRUCTION" /\ equ' = eqs
             /\ UNCHANGED <<prog, firstVars, labels, nodesOffsets, passVars, blobs>>
    <2>1. Position'
      BY <1>9 DEF IInv, Position, firstVars, passVars
    <2> QED
      BY <1>3, <1>9, <2>1, SameMap DEF firstVars
  <1>10. CASE /\ b.ast.mn # "fixed" /\ equ' = eqs /\ SameLayout
              /\ nodesOffsets' = [nodesOffsets EXCEPT ![seen + 1].blob.val = val]
    BY <1>1, <1>3, <1>4, <1>10, ValueStep
  <1>11. CASE /\ b.ast.mn # "fixed" /\ sizes # {} /\ equ' = eqs
              /\ nodesOffsets' = r /\ labels' = ResizedLabels(addr, grow)
              /\ seen' = SeenAfter(nodesOffsets, seen + 1, addr, {})
              /\ UNCHANGED <<prog, phase, error, firstVars, pass>>
    <2> DEFINE new == [at |-> addr, blob |-> blob]
               c   == {new}
               i   == seen + 1
    <2>1. size \in Nat /\ size > 0 /\ val \in Int
      BY <1>4, <1>6, <1>11
    <2> HIDE DEF size
    <2>2. /\ blob \in Blobs /\ blob.node = b.node /\ blob.size = size /\ blob.slaves = << >>
          /\ blob.ast = b.ast
      <3>1. b.node \in Nat
        BY <1>2 DEF Blobs
      <3> QED
        BY <1>2, <2>1, <3>1, ValuedBlob
    <2>3. EqusAt(blob) = << >> /\ Sized(blob)
      BY <1>1, <2>1, <2>2 DEF EqusAt, Sized
    <2> HIDE DEF blob
    <2>4. /\ r \in Seq(MapEntries) /\ IsOnce(r)
          /\ ToSet(r) = Replaced(Entries, Current, c, size)
          /\ Fills(c, Current, size)
          /\ SeenAfter(nodesOffsets, i, addr, {}) \in 0 .. Len(r)
      <3> HIDE DEF i
      <3>1. i \in DOMAIN nodesOffsets /\ nodesOffsets[i] = Current
        BY <1>2 DEF i
      <3> QED
        BY <1>2, <1>5, <2>1, <2>2, <2>3, <3>1, ResizedEntry DEF Entries, r, grow
    <2>5. \A e \in c : Owned(e.blob, next, DOMAIN equ)
      <3>1. ToSet(EqusAt(blob)) = {}
        BY <2>3 DEF ToSet
      <3> QED
        BY <1>2, <2>2, <3>1 DEF Owned, Named
    <2> HIDE DEF c
    <2>6. MapGood(r, next, DOMAIN equ)
      BY <1>2, <1>5, <2>1, <2>4, <2>5, RebuiltMap DEF Entries, IInv
    <2>7. LabelsGood(labels', ToSet(r), next)
      <3>1. LabelsGood(ResizedLabels(addr, size - b.size), Replaced(Entries, Current, c, size), next)
        BY <1>2, <1>5, <2>1, <2>4, RebuiltLabels DEF Entries, IInv
      <3> QED
        BY <1>11, <2>4, <3>1 DEF grow
    <2>8. DOMAIN equ' = DOMAIN equ /\ EqusGood(equ', next)
      <3>1. /\ equ' \in [DOMAIN equ -> EquEntries]
            /\ \A name \in DOMAIN equ : equ'[name].labeled = equ[name].labeled
        BY <1>3, <1>11 DEF Tables
      <3> QED
        BY <3>1 DEF EqusGood, IInv
    <2>9. prog' = prog /\ next' = next /\ phase' = phase /\ error' = error
          /\ offset' = offset /\ pass' = pass
      BY <1>11 DEF firstVars
    <2>10. seen' \in 0 .. Len(nodesOffsets')
      BY <1>11, <2>4
    <2>11. Position'
      BY <1>2, <2>9, <2>10 DEF IInv, Position
    <2> QED
      BY <1>2, <1>11, <2>6, <2>7, <2>8, <2>9, <2>11, Primed
  <1> QED
    BY <1>7, <1>8, <1>9, <1>10, <1>11

LEMMA Multiples ==
  ASSUME NEW s \in Nat, s > 0, NEW j \in Nat, NEW k \in Nat
  PROVE  /\ j * s \in Nat
         /\ j < k => j * s + s <= k * s /\ j * s < k * s
  <1>1. \A a, b \in Nat : a * b \in Nat
    OBVIOUS
  <1>2. ASSUME j < k PROVE j * s + s <= k * s
    <2> DEFINE d == k - j - 1
    <2>1. d \in Nat /\ k = (j + 1) + d
      BY <1>2
    <2> HIDE DEF d
    <2>2. k * s = j * s + s + d * s
      BY <2>1
    <2>3. d * s \in Nat /\ j * s \in Nat /\ k * s \in Nat
      BY <1>1, <2>1
    <2> HIDE <1>1
    <2> DEFINE u == j * s
               v == d * s
               w == k * s
    <2>4. u \in Nat /\ v \in Nat /\ w = u + s + v
      BY <2>2, <2>3
    <2> HIDE DEF u, v, w
    <2>5. u + s <= w
      BY <2>4
    <2> QED
      BY <2>5 DEF u, w
  <1>3. j * s \in Nat /\ k * s \in Nat
    BY <1>1
  <1> DEFINE u == j * s
             w == k * s
  <1>4. u \in Nat /\ w \in Nat /\ (j < k => u + s <= w)
    BY <1>2, <1>3
  <1> HIDE DEF u, w
  <1>5. j < k => u < w
    BY <1>4
  <1> QED
    BY <1>4, <1>5 DEF u, w

\* The copies of the body of a TIMES.
CopiesOf(x, body, n) ==
  [k \in 1 .. n |-> [at   |-> x.at + (k - 1) * body.size,
                     blob |-> Blob(x.blob.node, body, body.size)]]

\* They take the place of the TIMES, one behind the other.
LEMMA CopiesFacts ==
  ASSUME NEW x \in MapEntries, NEW body \in ByteNodes, NEW n \in Nat, n > 0
  PROVE  LET q == CopiesOf(x, body, n) IN
         /\ q \in Seq(MapEntries) /\ IsOnce(q)
         /\ n * body.size \in Nat
         /\ Fills(ToSet(q), x, n * body.size)
         /\ \A e \in ToSet(q) : e.at >= x.at /\ e.at < x.at + n * body.size
         /\ \A e \in ToSet(q) : e.blob = Blob(x.blob.node, body, body.size)
  <1> DEFINE q    == CopiesOf(x, body, n)
             s    == body.size
             g(k) == (k - 1) * s
             N    == n * s
             blob == Blob(x.blob.node, body, s)
  <1>1. /\ s \in Nat /\ s > 0 /\ body \in Asts /\ body.kind \in {"INSTRUCTION", "DEFINE"}
        /\ x.at \in Nat /\ x.blob.node \in Nat
    BY Numbers DEF ByteNodes, Asts
  <1>2. blob \in Blobs /\ blob.node = x.blob.node /\ blob.size = s /\ Sized(blob)
    <2>1. 0 \in Int
      OBVIOUS
    <2>2. blob \in Blobs
      BY <1>1, <2>1, ValuedBlob
    <2>3. blob.ast = body /\ blob.size = s /\ blob.node = x.blob.node
      BY DEF Blob
    <2>4. Sized(blob)
      <3> HIDE DEF blob
      <3> QED
        BY <1>1, <2>3 DEF Sized
    <2> QED
      BY <2>2, <2>3, <2>4
  <1>3. ASSUME NEW k \in 1 .. n
        PROVE  /\ g(k) \in Nat /\ g(k) + s <= N
               /\ \A j \in 1 .. n : j < k => g(j) \in Nat /\ g(j) + s <= g(k)
               /\ k = n => g(k) + s = N
               /\ k # 1 => k - 1 \in 1 .. n /\ g(k - 1) + s = g(k)
    <2>1. k - 1 \in Nat /\ k - 1 < n
      OBVIOUS
    <2>2. g(k) \in Nat /\ g(k) + s <= N
      BY <1>1, <2>1, Multiples
    <2>3. \A j \in 1 .. n : j < k => g(j) \in Nat /\ g(j) + s <= g(k)
      <3>1. ASSUME NEW j \in 1 .. n, j < k PROVE g(j) \in Nat /\ g(j) + s <= g(k)
        <4>1. j - 1 \in Nat /\ j - 1 < k - 1
          BY <3>1
        <4> QED
          BY <1>1, <2>1, <4>1, Multiples
      <3> QED
        BY <3>1
    <2>4. k = n => g(k) + s = N
      <3>1. (n - 1) * s + s = n * s
        BY <1>1
      <3> QED
        BY <3>1
    <2>5. k # 1 => k - 1 \in 1 .. n /\ g(k - 1) + s = g(k)
      <3>1. ((k - 1) - 1) * s + s = (k - 1) * s
        BY <1>1
      <3> QED
        BY <3>1
    <2> QED
      BY <2>2, <2>3, <2>4, <2>5
  <1>4. N \in Nat
    BY <1>1, Multiples
  <1> DEFINE c(k) == [at |-> x.at + g(k), blob |-> blob]
  <1>5. q = [k \in 1 .. n |-> c(k)]
    BY DEF CopiesOf
  <1> HIDE DEF g, N, s, blob, q
  <1>6. ASSUME NEW k \in 1 .. n
        PROVE  /\ c(k) \in MapEntries /\ c(k).at = x.at + g(k) /\ c(k).blob = blob
               /\ Ends(c(k)) = x.at + g(k) + s
    BY <1>1, <1>2, <1>3 DEF MapEntries, Ends
  <1> HIDE DEF c
  <1>7. /\ q \in Seq(MapEntries) /\ DOMAIN q = 1 .. n /\ \A k \in 1 .. n : q[k] = c(k)
    BY <1>5, <1>6
  <1>8. /\ \A e \in ToSet(q) : \E k \in 1 .. n : e = c(k)
        /\ \A k \in 1 .. n : c(k) \in ToSet(q)
    BY <1>7 DEF ToSet
  <1>9. ASSUME NEW j \in 1 .. n, NEW k \in 1 .. n
        PROVE  /\ j < k => c(j).at < c(k).at /\ Ends(c(j)) <= c(k).at
               /\ c(j).at < c(k).at => j < k
               /\ c(j).at = c(k).at => j = k
    <2>1. /\ g(j) \in Nat /\ g(k) \in Nat
          /\ j < k => g(j) + s <= g(k)
          /\ k < j => g(k) + s <= g(j)
      BY <1>3
    <2>2. /\ c(j).at = x.at + g(j) /\ c(k).at = x.at + g(k) /\ Ends(c(j)) = x.at + g(j) + s
      BY <1>6
    <2>3. j < k \/ j = k \/ k < j
      OBVIOUS
    <2> HIDE <1>3
    <2>4. j < k => c(j).at < c(k).at /\ Ends(c(j)) <= c(k).at
      BY <1>1, <2>1, <2>2
    <2>5. k < j => c(k).at < c(j).at
      BY <1>1, <2>1, <2>2
    <2>6. c(j).at \in Nat /\ c(k).at \in Nat
      BY <1>1, <2>1, <2>2
    <2> QED
      BY <2>3, <2>4, <2>5, <2>6
  <1>10. IsOnce(q)
    BY <1>7, <1>9 DEF IsOnce
  <1>11. \A e \in ToSet(q) :
           /\ e \in MapEntries /\ Sized(e.blob) /\ e.blob.size > 0 /\ e.blob = blob
           /\ e.blob.node = x.blob.node /\ x.at <= e.at /\ Ends(e) <= x.at + N
           /\ e.at < x.at + N
    <2>1. ASSUME NEW k \in 1 .. n
          PROVE  /\ c(k) \in MapEntries /\ c(k).blob = blob
                 /\ x.at <= c(k).at /\ Ends(c(k)) <= x.at + N /\ c(k).at < x.at + N
      <3>1. g(k) \in Nat /\ g(k) + s <= N
        BY <1>3
      <3>2. c(k) \in MapEntries /\ c(k).at = x.at + g(k) /\ c(k).blob = blob
            /\ Ends(c(k)) = x.at + g(k) + s
        BY <1>6
      <3> QED
        BY <1>1, <1>4, <3>1, <3>2
    <2> QED
      BY <1>1, <1>2, <1>8, <2>1
  <1>12. \A e \in ToSet(q) : e.at = x.at \/ \E d \in ToSet(q) : d.at < e.at /\ Ends(d) = e.at
    <2>1. ASSUME NEW k \in 1 .. n
          PROVE  c(k).at = x.at \/ \E d \in ToSet(q) : d.at < c(k).at /\ Ends(d) = c(k).at
      <3>1. CASE k = 1
        <4>1. g(1) = 0
          BY <1>1 DEF g
        <4> QED
          BY <1>1, <1>6, <3>1, <4>1
      <3>2. CASE k # 1
        <4>1. k - 1 \in 1 .. n /\ k - 1 < k /\ g(k - 1) + s = g(k) /\ g(k - 1) \in Nat
          BY <1>3, <3>2
        <4>2. c(k - 1) \in ToSet(q) /\ c(k - 1).at < c(k).at
          BY <1>8, <1>9, <4>1
        <4>3. Ends(c(k - 1)) = x.at + g(k - 1) + s /\ c(k).at = x.at + g(k)
          BY <1>6, <4>1
        <4>4. Ends(c(k - 1)) = c(k).at
          BY <1>1, <4>1, <4>3
        <4> QED
          BY <4>2, <4>4
      <3> QED
        BY <3>1, <3>2
    <2> QED
      BY <1>8, <2>1
  <1>13. /\ \A d, e \in ToSet(q) : d.at < e.at => Ends(d) <= e.at
         /\ \A d, e \in ToSet(q) : d.at = e.at => d = e
    BY <1>8, <1>9
  <1>14. \E e \in ToSet(q) : Ends(e) = x.at + N
    <2>1. n \in 1 .. n /\ g(n) + s = N /\ g(n) \in Nat
      BY <1>3
    <2>2. c(n) \in ToSet(q) /\ Ends(c(n)) = x.at + g(n) + s
      BY <1>6, <1>8, <2>1
    <2> QED
      BY <1>1, <2>1, <2>2
  <1>15. Fills(ToSet(q), x, N)
    BY <1>11, <1>12, <1>13, <1>14 DEF Fills
  <1> QED
    BY <1>4, <1>7, <1>10, <1>11, <1>15 DEF q, s, N, blob

\* A TIMES is deleted, what is behind it makes room, and the copies of its body
\* are set there: they take its place.
Expanded(map, i, x, body, n) ==
  LET E    == ToSet(map)
      N    == n * body.size
      q    == CopiesOf(x, body, n)
      rest == Only(map, {e \in E : e.at # x.at})
      room == Resized(rest, x.at, N - 1) IN
  /\ N \in Nat
  /\ n = 0 =>
       /\ room \in Seq(MapEntries) /\ IsOnce(room)
       /\ Fills({}, x, N) /\ ToSet(room) = Replaced(E, x, {}, N)
       /\ SeenAfter(map, i, x.at, {x.at}) \in 0 .. Len(room)
  /\ n > 0 =>
       /\ room \o q \in Seq(MapEntries) /\ IsOnce(room \o q)
       /\ Fills(ToSet(q), x, N) /\ ToSet(room \o q) = Replaced(E, x, ToSet(q), N)
       /\ \A e \in ToSet(q) : e.blob = Blob(x.blob.node, body, body.size)

LEMMA ExpandedEntry ==
  ASSUME NEW map \in Seq(MapEntries), IsOnce(map), Layout(ToSet(map)),
         NEW i \in DOMAIN map, NEW x, x = map[i], x.blob.size = 1,
         NEW body \in ByteNodes, NEW n \in Nat
  PROVE  Expanded(map, i, x, body, n)
  <1> DEFINE E    == ToSet(map)
             addr == x.at
             N    == n * body.size
             d    == N - 1
             q    == CopiesOf(x, body, n)
             T    == {e \in E : e.at # addr}
             rest == Only(map, T)
             room == Resized(rest, addr, d)
  <1>1. /\ x \in E /\ x \in MapEntries /\ addr \in Nat /\ x.blob.size = 1
        /\ \A e \in E : e \in MapEntries /\ e.at \in Nat
    BY InMap, Numbers
  <1>2. \A e, f \in E : e.at = f.at => e = f
    BY DEF Layout
  <1>3. N \in Nat /\ (n = 0 => N = 0) /\ body.size \in Nat
    <2>1. body.size \in Nat /\ body.size > 0
      BY DEF ByteNodes
    <2> QED
      BY <2>1, Multiples
  <1>4. d \in Int /\ d >= -1 /\ d = N - x.blob.size
    BY <1>1, <1>3
  <1>5. rest \in Seq(MapEntries) /\ ToSet(rest) = E \cap T /\ IsOnce(rest)
    BY OnlyFacts
  <1>6. ToSet(rest) = T
    BY <1>5
  <1> HIDE DEF rest
  <1>7. \A e \in ToSet(rest) : e.at > addr =>
          /\ e.at + d \in Nat
          /\ \A f \in ToSet(rest) : f.at <= addr => f.at < e.at + d
    <2>1. ASSUME NEW e \in ToSet(rest), e.at > addr
          PROVE  /\ e.at + d \in Nat
                 /\ \A f \in ToSet(rest) : f.at <= addr => f.at < e.at + d
      <3>1. e.at \in Nat
        BY <1>1, <1>6
      <3>2. e.at + d \in Nat /\ e.at + d >= addr
        <4> HIDE DEF d, addr
        <4> QED
          BY <1>1, <1>4, <2>1, <3>1
      <3>3. ASSUME NEW f \in ToSet(rest), f.at <= addr PROVE f.at < e.at + d
        <4>1. f.at \in Nat /\ f.at # addr
          BY <1>1, <1>6
        <4> HIDE DEF d, addr
        <4> QED
          BY <1>1, <3>2, <3>3, <4>1
      <3> QED
        BY <3>2, <3>3
    <2> QED
      BY <2>1
  <1>8. /\ room \in Seq(MapEntries) /\ IsOnce(room)
        /\ ToSet(room) = Upto(ToSet(rest), addr) \cup {Shifted(e, d) : e \in Behind(ToSet(rest), addr)}
    <2> HIDE DEF addr, d
    <2> QED
      BY <1>1, <1>4, <1>5, <1>7, ResizedFacts, ZenonT(40)
  <1>9. Upto(ToSet(rest), addr) = Below(E, addr)
    <2>1. \A e \in E : e.at <= addr /\ e.at # addr <=> e.at < addr
      BY <1>1
    <2> HIDE DEF addr, E
    <2> QED
      BY <1>6, <2>1 DEF Upto, Below
  <1>10. Behind(ToSet(rest), addr) = Behind(E, addr)
    <2>1. \A e \in E : e.at > addr => e.at # addr
      BY <1>1
    <2> HIDE DEF addr, E
    <2> QED
      BY <1>6, <2>1 DEF Behind
  <1> HIDE DEF room
  <1>11. ToSet(room) = Below(E, addr) \cup {Shifted(e, d) : e \in Behind(E, addr)}
    BY <1>8, <1>9, <1>10
  <1>12. ASSUME NEW c PROVE ToSet(room) \cup c = Replaced(E, x, c, N)
    BY <1>1, <1>11 DEF Replaced
  <1>13. ASSUME n = 0
         PROVE  /\ Fills({}, x, N) /\ ToSet(room) = Replaced(E, x, {}, N)
                /\ SeenAfter(map, i, addr, {addr}) \in 0 .. Len(room)
    <2>1. Fills({}, x, N)
      BY <1>3, <1>13 DEF Fills
    <2>2. ToSet(room) = Replaced(E, x, {}, N)
      BY <1>12
    <2>3. \A e \in E : e.at <= addr /\ e.at \notin {addr} => \E f \in ToSet(room) : f.at = e.at
      <3>1. \A e \in E : e.at <= addr /\ e.at # addr => e \in Below(E, addr)
        BY <1>1 DEF Below
      <3> QED
        BY <1>11, <3>1
    <2>4. SeenAfter(map, i, addr, {addr}) \in 0 .. Len(room)
      <3> HIDE DEF addr
      <3> QED
        BY <1>2, <1>8, <2>3, SeenFacts
    <2> QED
      BY <2>1, <2>2, <2>4
  <1>14. ASSUME n > 0
         PROVE  /\ room \o q \in Seq(MapEntries) /\ IsOnce(room \o q)
                /\ Fills(ToSet(q), x, N) /\ ToSet(room \o q) = Replaced(E, x, ToSet(q), N)
                /\ \A e \in ToSet(q) : e.blob = Blob(x.blob.node, body, body.size)
    <2>1. /\ q \in Seq(MapEntries) /\ IsOnce(q) /\ Fills(ToSet(q), x, N)
          /\ \A e \in ToSet(q) : e.at >= addr /\ e.at < addr + N
          /\ \A e \in ToSet(q) : e.blob = Blob(x.blob.node, body, body.size)
      BY <1>1, <1>14, CopiesFacts
    <2> HIDE DEF q
    <2>2. Regions(E, x, ToSet(q), N)
      <3> HIDE DEF N
      <3> QED
        BY <1>1, <1>3, <2>1, RegionsHold
    <2>3. ToSet(room) \cap ToSet(q) = {}
      <3>1. ASSUME NEW e \in ToSet(room), NEW f \in ToSet(q) PROVE e # f
        <4>1. f.at >= addr /\ f.at < addr + N
          BY <2>1
        <4>2. CASE e \in Below(E, addr)
          <5>1. e.at < addr /\ e.at \in Nat
            BY <1>1, <4>2 DEF Below
          <5> HIDE DEF addr
          <5> QED
            BY <1>1, <4>1, <5>1
        <4>3. ASSUME NEW g \in Behind(E, addr), e = Shifted(g, d) PROVE e # f
          <5>1. e.at >= addr + N /\ e \in MapEntries
            BY <1>4, <2>2, <4>3 DEF Regions
          <5>2. e.at \in Nat
            BY <5>1, Numbers
          <5> HIDE DEF addr, N
          <5> QED
            BY <1>1, <1>3, <4>1, <5>1, <5>2
        <4> QED
          BY <1>11, <4>2, <4>3
      <3> QED
        BY <3>1
    <2>4. /\ room \o q \in Seq(MapEntries) /\ IsOnce(room \o q)
          /\ ToSet(room \o q) = ToSet(room) \cup ToSet(q)
      BY <1>8, <2>1, <2>3, Concatenated
    <2>5. ToSet(room) \cup ToSet(q) = Replaced(E, x, ToSet(q), N)
      BY <1>12
    <2> QED
      BY <2>1, <2>4, <2>5
  <1> QED
    BY <1>3, <1>8, <1>13, <1>14 DEF Expanded, room, rest

LEMMA TimesStep == IInv /\ VisitTimes => IInv'
  <1> SUFFICES ASSUME IInv, VisitTimes PROVE IInv'
    OBVIOUS
  <1> DEFINE addr == Current.at
             b    == Current.blob
             eqs  == PassEqus(b.slaves)
             n    == Repetitions(b.ast, addr)
             body == b.ast.body
             N    == n * body.size
             i    == seen + 1
             rest == Only(nodesOffsets, {e \in ToSet(nodesOffsets) : e.at # addr})
             room == Resized(rest, addr, N - 1)
             q    == CopiesOf(Current, body, n)
  <1>1. Visit("TIMES") /\ Visiting /\ b.ast.kind = "TIMES"
    BY DEF VisitTimes, Visit
  <1>2. /\ phase = "second" /\ next = Len(prog) + 1 /\ prog \in Programs
        /\ i \in DOMAIN nodesOffsets
        /\ nodesOffsets \in Seq(MapEntries) /\ IsOnce(nodesOffsets) /\ Layout(Entries)
        /\ Current = nodesOffsets[i] /\ Current \in Entries /\ Current \in MapEntries
        /\ addr \in Nat /\ b \in Blobs
        /\ b.ast \in Asts /\ b.size \in Nat /\ Sized(b) /\ Owned(b, next, DOMAIN equ)
    BY <1>1, VisitFacts
  <1>3. eqs \in Tables(equ)
    BY <1>1, VisitPass
  <1>4. b.size = 1
    BY <1>1, <1>2 DEF Sized
  <1>5. b.ast.count \in Int /\ body \in ByteNodes
    BY <1>1, <1>2 DEF Asts, EquNodes, ByteNodes, TimesNodes
  <1>6. n \in Int
    BY <1>2, <1>5, OriginIsNat DEF Repetitions
  <1>7. /\ prog' = prog /\ next' = next /\ offset' = offset /\ pass' = pass /\ equ' = eqs
        /\ \/ /\ phase' = "error" /\ error' = "INCORRECT_TIMES_VALUE"
              /\ labels' = labels /\ nodesOffsets' = nodesOffsets /\ seen' = seen
           \/ /\ n >= 0 /\ phase' = phase /\ error' = error
              /\ labels' = ResizedLabels(addr, N - 1)
              /\ \/ /\ n = 0 /\ nodesOffsets' = room
                    /\ seen' = SeenAfter(nodesOffsets, i, addr, {addr})
                 \/ n > 0 /\ nodesOffsets' = room \o q /\ seen' = Len(nodesOffsets')
    BY DEF VisitTimes, firstVars, passVars, CopiesOf
  <1>8. DOMAIN equ' = DOMAIN equ /\ EqusGood(equ', next)
    <2>1. /\ equ' \in [DOMAIN equ -> EquEntries]
          /\ \A name \in DOMAIN equ : equ'[name].labeled = equ[name].labeled
      BY <1>3, <1>7 DEF Tables
    <2> QED
      BY <2>1 DEF EqusGood, IInv
  <1> HIDE DEF eqs, n, i
  <1>9. CASE /\ phase' = "error" /\ error' = "INCORRECT_TIMES_VALUE"
             /\ labels' = labels /\ nodesOffsets' = nodesOffsets /\ seen' = seen
    <2>1. Position'
      BY <1>7, <1>9 DEF IInv, Position
    <2> QED
      BY <1>3, <1>7, <1>9, <2>1, SameMap
  <1>10. CASE /\ n >= 0 /\ phase' = phase /\ error' = error
              /\ labels' = ResizedLabels(addr, N - 1)
              /\ \/ /\ n = 0 /\ nodesOffsets' = room
                    /\ seen' = SeenAfter(nodesOffsets, i, addr, {addr})
                 \/ n > 0 /\ nodesOffsets' = room \o q /\ seen' = Len(nodesOffsets')
    <2> DEFINE c == IF n = 0 THEN {} ELSE ToSet(q)
               r == IF n = 0 THEN room ELSE room \o q
               E == Entries
    <2>1. n \in Nat /\ (n = 0 \/ n > 0) /\ ~(n = 0 /\ n > 0)
      BY <1>6, <1>10
    <2>2. /\ N \in Nat
          /\ n = 0 =>
               /\ room \in Seq(MapEntries) /\ IsOnce(room)
               /\ Fills({}, Current, N) /\ ToSet(room) = Replaced(E, Current, {}, N)
               /\ SeenAfter(nodesOffsets, i, addr, {addr}) \in 0 .. Len(room)
          /\ n > 0 =>
               /\ room \o q \in Seq(MapEntries) /\ IsOnce(room \o q)
               /\ Fills(ToSet(q), Current, N)
               /\ ToSet(room \o q) = Replaced(E, Current, ToSet(q), N)
               /\ \A e \in ToSet(q) : e.blob = Blob(b.node, body, body.size)
      <3>1. /\ nodesOffsets \in Seq(MapEntries) /\ IsOnce(nodesOffsets)
            /\ Layout(ToSet(nodesOffsets))
            /\ i \in DOMAIN nodesOffsets /\ Current = nodesOffsets[i] /\ b.size = 1
        BY <1>2, <1>4 DEF Entries
      <3>2. Expanded(nodesOffsets, i, Current, body, n)
        BY <1>2, <1>5, <2>1, <3>1, ExpandedEntry
      <3> QED
        BY <3>2, Zenon DEF Expanded, Entries
    <2> HIDE DEF q, room, N
    <2>3. /\ r \in Seq(MapEntries) /\ IsOnce(r) /\ Fills(c, Current, N)
          /\ ToSet(r) = Replaced(E, Current, c, N)
          /\ \A e \in c : e.blob = Blob(b.node, body, body.size)
      BY <2>1, <2>2
    <2>4. nodesOffsets' = r /\ seen' \in 0 .. Len(nodesOffsets')
      <3>1. CASE n = 0
        BY <1>10, <2>1, <2>2, <3>1
      <3>2. CASE n > 0
        <4>1. nodesOffsets' = r /\ seen' = Len(r)
          BY <1>10, <2>1, <3>2
        <4>2. Len(r) \in 0 .. Len(r)
          BY <2>3
        <4> QED
          BY <4>1, <4>2
      <3> QED
        BY <2>1, <3>1, <3>2
    <2> HIDE DEF c, r
    <2>5. \A e \in c : Owned(e.blob, next, DOMAIN equ)
      <3> DEFINE nb == Blob(b.node, body, body.size)
      <3>1. nb.node = b.node /\ nb.slaves = << >> /\ nb.ast.kind # "EQU"
        <4>1. body.kind # "EQU"
          BY <1>5 DEF ByteNodes
        <4> QED
          BY <4>1 DEF Blob
      <3> HIDE DEF nb
      <3>2. ToSet(EqusAt(nb)) = {}
        BY <3>1 DEF EqusAt, ToSet
      <3>3. Owned(nb, next, DOMAIN equ)
        BY <1>2, <3>1, <3>2 DEF Owned, Named
      <3> QED
        BY <2>3, <3>3 DEF nb
    <2>6. MapGood(r, next, DOMAIN equ)
      BY <1>2, <1>4, <2>2, <2>3, <2>5, RebuiltMap DEF Entries, IInv
    <2>7. LabelsGood(labels', ToSet(r), next)
      <3>1. LabelsGood(ResizedLabels(addr, N - b.size), Replaced(E, Current, c, N), next)
        BY <1>2, <1>4, <2>2, <2>3, RebuiltLabels DEF Entries, IInv
      <3> QED
        BY <1>4, <1>10, <2>3, <3>1
    <2>8. Position'
      BY <1>2, <1>7, <1>10, <2>4 DEF IInv, Position
    <2> QED
      BY <1>2, <1>7, <1>8, <2>4, <2>6, <2>7, <2>8, Primed
  <1> QED
    BY <1>7, <1>9, <1>10

LEMMA NextPassStep == IInv /\ NextPass => IInv'
  <1> SUFFICES ASSUME IInv, NextPass PROVE IInv'
    OBVIOUS
  <1>1. /\ phase = "second" /\ prog' = prog /\ next' = next /\ offset' = offset
        /\ labels' = labels /\ equ' = equ /\ nodesOffsets' = nodesOffsets
        /\ pass' = pass + 1 /\ seen' = 0
        /\ IF pass + 1 < MaxPasses THEN phase' = phase /\ error' = error
           ELSE phase' = "error" /\ error' = "UNABLE_TO_COMPILE_FILE"
    BY DEF NextPass, firstVars
  <1>2. pass \in Nat /\ pass < MaxPasses /\ MaxPasses \in Nat /\ Len(nodesOffsets) \in Nat
    <2>1. MaxPasses \in Nat /\ Len(nodesOffsets) \in Nat
      BY BoundsAssumption DEF IInv, MapGood
    <2>2. pass \in 0 .. MaxPasses /\ pass < MaxPasses
      BY <1>1 DEF IInv, Position
    <2> QED
      BY <2>1, <2>2
  <1>3. pass + 1 \in 0 .. MaxPasses /\ 0 \in 0 .. Len(nodesOffsets)
    BY <1>2
  <1>4. Position'
    BY <1>1, <1>3 DEF IInv, Position
  <1> QED
    BY <1>1, <1>4, SameMap, SameTable

LEMMA EmitStep == IInv /\ Emit => IInv'
  <1> SUFFICES ASSUME IInv, Emit PROVE IInv'
    OBVIOUS
  <1>1. /\ phase = "second" /\ phase' = "done"
        /\ prog' = prog /\ next' = next /\ offset' = offset /\ error' = error
        /\ labels' = labels /\ equ' = equ /\ nodesOffsets' = nodesOffsets
        /\ pass' = pass /\ seen' = seen
    BY DEF Emit, firstVars, passVars
  <1>2. Position'
    BY <1>1 DEF IInv, Position
  <1> QED
    BY <1>1, <1>2, SameMap, SameTable

LEMMA StutterStep == IInv /\ UNCHANGED vars => IInv'
  <1> SUFFICES ASSUME IInv, UNCHANGED vars PROVE IInv'
    OBVIOUS
  <1>1. /\ prog' = prog /\ next' = next /\ offset' = offset /\ error' = error /\ phase' = phase
        /\ labels' = labels /\ equ' = equ /\ nodesOffsets' = nodesOffsets
        /\ pass' = pass /\ seen' = seen
    BY DEF vars, firstVars, passVars
  <1>2. Position'
    BY <1>1 DEF IInv, Position, Entries
  <1> QED
    BY <1>1, <1>2, SameMap, SameTable

LEMMA InvariantStep == IInv /\ [Next]_vars => IInv'
  <1> SUFFICES ASSUME IInv, [Next]_vars PROVE IInv'
    OBVIOUS
  <1>1. CASE FirstPassSized
    BY <1>1, SizedStep
  <1>2. CASE FirstPassEqu
    BY <1>2, EquStep
  <1>3. CASE FirstPassLabel
    BY <1>3, LabelStep
  <1>4. CASE BeginSecondPass
    BY <1>4, BeginStep
  <1>5. CASE UnknownKeyword
    BY <1>5, UnknownStep
  <1>6. CASE VisitEqu
    BY <1>6, VisitEquStep
  <1>7. CASE VisitDefinition
    BY <1>7, DefinitionStep
  <1>8. CASE VisitInstruction
    BY <1>8, InstructionStep
  <1>9. CASE VisitTimes
    BY <1>9, TimesStep
  <1>10. CASE NextPass
    BY <1>10, NextPassStep
  <1>11. CASE Emit
    BY <1>11, EmitStep
  <1>12. CASE UNCHANGED vars
    BY <1>12, StutterStep
  <1>13. CASE Ended
    BY <1>13, StutterStep DEF Ended
  <1> QED
    BY <1>1, <1>2, <1>3, <1>4, <1>5, <1>6, <1>7, <1>8, <1>9, <1>10, <1>11, <1>12, <1>13
       DEF Next

\* Whatever the passes of X86Compiler do to the Map of blobs (emitBlob,
\* resizeBlockAtOffset, appendBlobsAtOffset, the deletion of a TIMES), for every
\* program: its entries are well formed, each starts where the bytes below it
\* end, and every label has the address where the bytes of the nodes before it
\* end and those behind it start.
THEOREM OutputIsLaidOut == Spec => []LaidOut
  BY InvariantStarts, InvariantStep, InvariantImplies, PTL DEF Spec

-----------------------------------------------------------------------------
(* The order of the entries.                                               *)

IsAscending(s) == \A i, j \in DOMAIN s : i < j => s[i].at < s[j].at

\* The entries of s, and then those of t.
LEMMA AscendingConcatenated ==
  ASSUME NEW p \in Seq(MapEntries), NEW q \in Seq(MapEntries), IsAscending(p), IsAscending(q),
         \A d \in ToSet(p) : \A e \in ToSet(q) : d.at < e.at
  PROVE  IsAscending(p \o q)
  <1> DEFINE r == p \o q
             l == Len(p)
  <1>1. /\ r \in Seq(MapEntries) /\ Len(r) = l + Len(q)
        /\ \A i \in 1 .. l : r[i] = p[i]
        /\ \A i \in 1 .. Len(q) : r[l + i] = q[i]
    BY ConcatProperties
  <1>2. /\ DOMAIN p = 1 .. l /\ DOMAIN q = 1 .. Len(q) /\ DOMAIN r = 1 .. l + Len(q)
        /\ l \in Nat /\ Len(q) \in Nat
    BY <1>1
  <1> HIDE DEF r, l
  <1>3. \A i \in DOMAIN r : i \in DOMAIN p \/ (i - l \in DOMAIN q /\ r[i] = q[i - l])
    <2> SUFFICES ASSUME NEW i \in DOMAIN r, i \notin DOMAIN p
                 PROVE  i - l \in DOMAIN q /\ r[i] = q[i - l]
      OBVIOUS
    <2> DEFINE j == i - l
    <2>1. j \in 1 .. Len(q) /\ i = l + j
      BY <1>2
    <2> QED
      BY <1>1, <1>2, <2>1
  <1>4. ASSUME NEW i \in DOMAIN r, NEW j \in DOMAIN r, i < j PROVE r[i].at < r[j].at
    <2>1. i \in Int /\ j \in Int
      BY <1>2
    <2>2. CASE j \in DOMAIN p
      <3>1. i \in DOMAIN p
        BY <1>2, <1>4, <2>2
      <3> QED
        BY <1>1, <1>2, <1>4, <2>2, <3>1 DEF IsAscending
    <2>3. CASE i \in DOMAIN p /\ j \notin DOMAIN p
      <3>1. p[i] \in ToSet(p) /\ q[j - l] \in ToSet(q)
        BY <1>3, <2>3 DEF ToSet
      <3> QED
        BY <1>1, <1>2, <1>3, <2>3, <3>1
    <2>4. CASE i \notin DOMAIN p /\ j \notin DOMAIN p
      <3>1. i - l < j - l
        BY <1>2, <1>4, <2>1
      <3> QED
        BY <1>3, <2>4, <3>1 DEF IsAscending
    <2> QED
      BY <2>2, <2>3, <2>4
  <1> QED
    BY <1>4 DEF IsAscending, r

LEMMA AscendingAppended ==
  ASSUME NEW p \in Seq(MapEntries), IsAscending(p), NEW x \in MapEntries,
         \A d \in ToSet(p) : d.at < x.at
  PROVE  IsAscending(Append(p, x))
  <1> DEFINE r == Append(p, x)
             l == Len(p)
  <1>1. /\ r \in Seq(MapEntries) /\ Len(r) = l + 1
        /\ \A i \in 1 .. l : r[i] = p[i] /\ p[i] \in ToSet(p)
        /\ r[l + 1] = x
    BY DEF ToSet
  <1>2. DOMAIN p = 1 .. l /\ DOMAIN r = 1 .. l + 1 /\ l \in Nat
    BY <1>1
  <1> HIDE DEF r, l
  <1>3. ASSUME NEW i \in DOMAIN r, NEW j \in DOMAIN r, i < j PROVE r[i].at < r[j].at
    <2>1. i \in 1 .. l /\ (j \in 1 .. l \/ j = l + 1)
      BY <1>2, <1>3
    <2> QED
      BY <1>1, <1>2, <1>3, <2>1 DEF IsAscending
  <1> QED
    BY <1>3 DEF IsAscending, r

\* The first i entries.
First(s, i) == {s[j] : j \in 1 .. i}

\* The entries that are left come in the order they had; those of the first i
\* are the first ones.
LEMMA OnlyOrder ==
  ASSUME NEW map \in Seq(MapEntries), NEW T, IsOnce(map)
  PROVE  /\ IsAscending(map) => IsAscending(Only(map, T))
         /\ \A i \in 0 .. Len(map) :
              /\ Cardinality(First(map, i) \cap T) \in 0 .. Len(Only(map, T))
              /\ First(Only(map, T), Cardinality(First(map, i) \cap T)) = First(map, i) \cap T
  <1> DEFINE m == Len(map)
  <1>1. PICK only : Runs(only, MapEntries, map, T)
    BY OnlyRuns
  <1>2. m \in Nat /\ DOMAIN map = 1 .. m /\ \A i \in 1 .. m : map[i] \in MapEntries
    OBVIOUS
  <1>3. /\ \A i \in 0 .. m : only[i] \in Seq(MapEntries)
        /\ only[0] = << >> /\ Only(map, T) = only[m]
        /\ \A i \in 1 .. m :
             only[i] = IF map[i] \in T THEN Append(only[i - 1], map[i]) ELSE only[i - 1]
    BY <1>1 DEF Runs
  <1> DEFINE R(i) == /\ ToSet(only[i]) = First(map, i) \cap T
                     /\ IsOnce(only[i])
                     /\ IsAscending(map) => IsAscending(only[i])
             P == {i \in Nat : i <= m => R(i)}
  <1>4. 0 \in P
    BY <1>3 DEF First, ToSet, IsOnce, IsAscending
  <1>5. ASSUME NEW i \in Nat, i \in P PROVE i + 1 \in P
    <2> SUFFICES ASSUME i + 1 <= m PROVE R(i + 1)
      OBVIOUS
    <2> DEFINE q == only[i]
               x == map[i + 1]
    <2>1. R(i)
      BY <1>2, <1>5
    <2>2. i \in 0 .. m /\ i + 1 \in 1 .. m /\ i + 1 \in 0 .. m /\ (i + 1) - 1 = i
      BY <1>2
    <2>3. only[i + 1] = IF x \in T THEN Append(q, x) ELSE q
      BY <1>3, <2>2
    <2>4. x \in MapEntries /\ q \in Seq(MapEntries)
      BY <1>2, <1>3, <2>2
    <2>5. First(map, i + 1) = First(map, i) \cup {x}
      <3>1. \A j : j \in 1 .. i + 1 <=> (j \in 1 .. i \/ j = i + 1)
        OBVIOUS
      <3> QED
        BY <3>1 DEF First
    <2>6. x \notin First(map, i)
      <3>1. \A j \in 1 .. i : j \in DOMAIN map /\ j # i + 1
        BY <1>2, <2>2
      <3> QED
        BY <1>2, <2>2, <3>1 DEF First, IsOnce
    <2>7. IsAscending(map) => \A d \in ToSet(q) : d.at < x.at
      <3> SUFFICES ASSUME IsAscending(map), NEW d \in First(map, i) PROVE d.at < x.at
        BY <2>1
      <3>1. PICK j \in 1 .. i : d = map[j]
        BY DEF First
      <3>2. j \in DOMAIN map /\ i + 1 \in DOMAIN map /\ j < i + 1
        BY <1>2, <2>2
      <3> QED
        BY <3>1, <3>2 DEF IsAscending
    <2> HIDE DEF q, x
    <2>8. CASE x \in T
      <3>1. /\ ToSet(Append(q, x)) = ToSet(q) \cup {x}
            /\ IsOnce(q) /\ x \notin ToSet(q) => IsOnce(Append(q, x))
        BY <2>4, Appended
      <3>2. IsAscending(map) => IsAscending(Append(q, x))
        BY <2>1, <2>4, <2>7, AscendingAppended DEF q
      <3>3. only[i + 1] = Append(q, x)
        BY <2>3, <2>8
      <3> QED
        BY <2>1, <2>5, <2>6, <2>8, <3>1, <3>2, <3>3 DEF q
    <2>9. CASE x \notin T
      BY <2>1, <2>3, <2>5, <2>9 DEF q
    <2> QED
      BY <2>8, <2>9
  <1> HIDE DEF P
  <1>6. \A i \in Nat : i \in P
    BY <1>4, <1>5, Counting
  <1>7. \A i \in 0 .. m : R(i)
    BY <1>2, <1>6 DEF P
  <1>8. ASSUME NEW i \in 0 .. m
        PROVE  /\ Cardinality(First(map, i) \cap T) \in 0 .. Len(only[m])
               /\ First(only[m], Cardinality(First(map, i) \cap T)) = First(map, i) \cap T
    <2> DEFINE c == Len(only[i])
               Grown(k) == /\ c <= Len(only[k])
                           /\ \A j \in 1 .. c : only[k][j] = only[i][j]
               G == {k \in Nat : k \in i .. m => Grown(k)}
    <2>1. c \in Nat /\ DOMAIN only[i] = 1 .. c /\ i \in Nat /\ i <= m
      BY <1>2, <1>3
    <2>2. 0 \in G
      BY <2>1
    <2>3. ASSUME NEW k \in Nat, k \in G PROVE k + 1 \in G
      <3> SUFFICES ASSUME k + 1 \in i .. m PROVE Grown(k + 1)
        OBVIOUS
      <3>1. CASE k + 1 = i
        BY <2>1, <3>1
      <3>2. CASE k + 1 # i
        <4>1. k \in i .. m /\ k \in 0 .. m /\ k + 1 \in 1 .. m /\ (k + 1) - 1 = k
          BY <1>2, <2>1, <3>2
        <4>2. Grown(k)
          BY <2>3, <4>1
        <4> DEFINE q == only[k]
                   x == map[k + 1]
        <4>3. q \in Seq(MapEntries) /\ x \in MapEntries
          BY <1>2, <1>3, <4>1
        <4>4. only[k + 1] = IF x \in T THEN Append(q, x) ELSE q
          BY <1>3, <4>1
        <4>5. c <= Len(q) /\ \A j \in 1 .. c : q[j] = only[i][j]
          BY <4>2
        <4> HIDE DEF q, x, c
        <4>6. /\ Len(q) \in Nat /\ Len(Append(q, x)) = Len(q) + 1
              /\ \A j \in 1 .. Len(q) : Append(q, x)[j] = q[j]
          BY <4>3
        <4>7. \A j \in 1 .. c : j \in 1 .. Len(q)
          BY <2>1, <4>5, <4>6
        <4>8. c <= Len(q) + 1
          BY <2>1, <4>5, <4>6
        <4> QED
          BY <4>4, <4>5, <4>6, <4>7, <4>8
      <3> QED
        BY <3>1, <3>2
    <2> HIDE DEF G
    <2>4. \A k \in Nat : k \in G
      BY <2>2, <2>3, Counting
    <2>5. Grown(m)
      <3>1. m \in i .. m
        BY <1>2, <2>1
      <3> QED
        BY <1>2, <2>4, <3>1 DEF G
    <2>6. ToSet(only[i]) = First(map, i) \cap T /\ IsOnce(only[i])
      BY <1>7
    <2>7. c = Cardinality(First(map, i) \cap T)
      <3> DEFINE D == 1 .. c
                 q == only[i]
      <3>1. q \in Bijection(D, ToSet(q))
        <4>1. q \in [D -> ToSet(q)] /\ \A y \in ToSet(q) : \E j \in D : q[j] = y
          BY <1>3, <2>1 DEF ToSet
        <4>2. \A j, k \in D : q[j] = q[k] => j = k
          BY <2>1, <2>6 DEF IsOnce
        <4> HIDE DEF q, D
        <4> QED
          BY <4>1, <4>2 DEF Bijection, Injection, Surjection, IsInjective
      <3>2. IsFiniteSet(D) /\ Cardinality(D) = c
        BY <2>1, UptoFacts
      <3> HIDE DEF q, D
      <3>3. ExistsBijection(D, ToSet(q))
        BY <3>1 DEF ExistsBijection
      <3>4. Cardinality(ToSet(q)) = Cardinality(D)
        BY <3>2, <3>3, FS_Bijection
      <3> QED
        BY <2>6, <3>2, <3>4 DEF q
    <2>8. First(only[m], c) = ToSet(only[i])
      BY <2>1, <2>5 DEF First, ToSet
    <2>9. Len(only[m]) \in Nat
      BY <1>2, <1>3
    <2>10. c \in 0 .. Len(only[m])
      BY <2>1, <2>5, <2>9
    <2> HIDE DEF c
    <2> QED
      BY <2>6, <2>7, <2>8, <2>10
  <1>9. R(m)
    BY <1>2, <1>7
  <1> HIDE DEF m
  <1>10. IsAscending(map) => IsAscending(only[m])
    BY <1>9
  <1> HIDE DEF R
  <1> QED
    BY <1>3, <1>8, <1>10 DEF m

\* A resize leaves the entries up to addr in their order, and those behind it.
LEMMA ResizedOrder ==
  ASSUME NEW map \in Seq(MapEntries), IsOnce(map), NEW addr \in Nat, NEW d \in Int,
         \A e \in ToSet(map) : e.at > addr =>
           /\ e.at + d \in Nat
           /\ \A f \in ToSet(map) : f.at <= addr => f.at < e.at + d
  PROVE  LET r == Resized(map, addr, d)
             T == Upto(ToSet(map), addr) IN
         /\ IsAscending(map) => IsAscending(r)
         /\ \A i \in 0 .. Len(map) :
              /\ Cardinality(First(map, i) \cap T) \in 0 .. Len(r)
              /\ First(r, Cardinality(First(map, i) \cap T)) = First(map, i) \cap T
  <1> DEFINE T     == Upto(ToSet(map), addr)
             kept  == Only(map, T)
             moved == Only(map, Behind(ToSet(map), addr))
             shift == [i \in DOMAIN moved |-> [moved[i] EXCEPT !.at = Moved(@, addr, d)]]
             r     == Resized(map, addr, d)
  <1>1. /\ kept \in Seq(MapEntries) /\ ToSet(kept) = ToSet(map) \cap T
        /\ IsAscending(map) => IsAscending(kept)
    BY OnlyFacts, OnlyOrder
  <1>2. \A i \in 0 .. Len(map) :
          /\ Cardinality(First(map, i) \cap T) \in 0 .. Len(kept)
          /\ First(kept, Cardinality(First(map, i) \cap T)) = First(map, i) \cap T
    BY OnlyOrder
  <1>3. /\ moved \in Seq(MapEntries) /\ ToSet(moved) = ToSet(map) \cap Behind(ToSet(map), addr)
        /\ IsAscending(map) => IsAscending(moved)
    BY OnlyFacts, OnlyOrder
  <1>4. r = kept \o shift
    BY DEF Resized, Upto, Behind
  <1> HIDE DEF kept, moved, r
  <1>5. ASSUME NEW i \in DOMAIN moved
        PROVE  /\ moved[i] \in MapEntries /\ moved[i] \in ToSet(map) /\ moved[i].at > addr
               /\ moved[i].at \in Nat /\ moved[i].at + d \in Nat
               /\ shift[i] = Shifted(moved[i], d)
    <2>1. moved[i] \in ToSet(moved)
      BY DEF ToSet
    <2>2. moved[i] \in ToSet(map) /\ moved[i].at > addr
      BY <1>3, <2>1 DEF Behind
    <2>3. moved[i] \in MapEntries
      BY <1>3
    <2>4. shift[i] = Shifted(moved[i], d)
      BY <2>2 DEF Shifted, Moved
    <2> QED
      BY <2>2, <2>3, <2>4, Numbers
  <1>6. ASSUME NEW i \in DOMAIN moved
        PROVE  shift[i] \in MapEntries /\ shift[i].at = moved[i].at + d
    <2> DEFINE e == moved[i]
    <2>1. e \in MapEntries /\ e.at + d \in Nat /\ shift[i] = Shifted(e, d)
      BY <1>5
    <2> HIDE DEF e, shift
    <2>2. Shifted(e, d) \in MapEntries /\ Shifted(e, d).at = e.at + d
      BY <2>1, ShiftedFacts
    <2> QED
      BY <2>1, <2>2 DEF e
  <1>7. shift \in Seq(MapEntries) /\ DOMAIN shift = DOMAIN moved
    <2>1. DOMAIN moved = 1 .. Len(moved) /\ Len(moved) \in Nat
      BY <1>3
    <2>2. shift \in [1 .. Len(moved) -> MapEntries]
      BY <1>6, <2>1
    <2> QED
      BY <2>1, <2>2, IsASeq
  <1> HIDE DEF shift
  <1>8. ASSUME IsAscending(map) PROVE IsAscending(r)
    <2>1. IsAscending(shift)
      <3> SUFFICES ASSUME NEW i \in DOMAIN moved, NEW j \in DOMAIN moved, i < j
                   PROVE  shift[i].at < shift[j].at
        BY <1>7 DEF IsAscending
      <3>1. moved[i].at < moved[j].at
        BY <1>3, <1>8 DEF IsAscending
      <3> QED
        BY <1>5, <1>6, <3>1
    <2>2. ASSUME NEW f \in ToSet(kept), NEW e \in ToSet(shift) PROVE f.at < e.at
      <3>1. PICK i \in DOMAIN moved : e = shift[i]
        BY <1>7 DEF ToSet
      <3>2. f \in ToSet(map) /\ f.at <= addr
        BY <1>1 DEF T, Upto
      <3> QED
        BY <1>5, <1>6, <3>1, <3>2
    <2> QED
      BY <1>1, <1>4, <1>7, <1>8, <2>1, <2>2, AscendingConcatenated
  <1>9. ASSUME NEW i \in 0 .. Len(map)
        PROVE  /\ Cardinality(First(map, i) \cap T) \in 0 .. Len(r)
               /\ First(r, Cardinality(First(map, i) \cap T)) = First(map, i) \cap T
    <2> DEFINE c == Cardinality(First(map, i) \cap T)
    <2>1. c \in 0 .. Len(kept) /\ First(kept, c) = First(map, i) \cap T
      BY <1>2
    <2> HIDE DEF c
    <2>2. /\ Len(r) = Len(kept) + Len(shift) /\ Len(kept) \in Nat /\ Len(shift) \in Nat
          /\ \A j \in 1 .. Len(kept) : r[j] = kept[j]
      BY <1>1, <1>4, <1>7, ConcatProperties
    <2>3. \A j \in 1 .. c : j \in 1 .. Len(kept)
      BY <2>1, <2>2
    <2>4. First(r, c) = First(kept, c)
      BY <2>2, <2>3 DEF First
    <2>5. c \in 0 .. Len(r)
      BY <2>1, <2>2
    <2> QED
      BY <2>1, <2>4, <2>5 DEF c
  <1> HIDE DEF T
  <1> QED
    BY <1>8, <1>9 DEF r, T

\* Setting a present key keeps the order.
LEMMA SetOrder ==
  ASSUME NEW map \in Seq(MapEntries), NEW m, DOMAIN m = DOMAIN map,
         \A j \in DOMAIN map : m[j].at = map[j].at, IsAscending(map)
  PROVE  IsAscending(m)
  BY DEF IsAscending

\* The entries that a resize leaves in front of the iterator.
LEMMA SeenCounts ==
  ASSUME NEW map \in Seq(MapEntries), IsOnce(map), NEW i \in 0 .. Len(map), NEW addr, NEW gone
  PROVE  SeenAfter(map, i, addr, gone) =
           Cardinality(First(map, i) \cap {e \in ToSet(map) : e.at <= addr /\ e.at \notin gone})
  <1> DEFINE S == {j \in 1 .. i : map[j].at <= addr /\ map[j].at \notin gone}
             T == First(map, i) \cap {e \in ToSet(map) : e.at <= addr /\ e.at \notin gone}
             f == [j \in S |-> map[j]]
  <1>1. /\ i \in Nat /\ \A j \in 1 .. i : j \in DOMAIN map /\ map[j] \in ToSet(map)
    BY DEF ToSet
  <1>2. f \in [S -> T]
    BY <1>1 DEF First
  <1>3. \A j, k \in S : f[j] = f[k] => j = k
    BY <1>1 DEF IsOnce
  <1>4. \A e \in T : \E j \in S : f[j] = e
    BY <1>1 DEF First
  <1>5. IsFiniteSet(S)
    <2>1. IsFiniteSet(1 .. i) /\ S \subseteq 1 .. i
      BY <1>1, UptoFacts
    <2> HIDE DEF S
    <2> QED
      BY <2>1, FS_Subset
  <1> HIDE DEF S, T, f
  <1>6. f \in Bijection(S, T)
    BY <1>2, <1>3, <1>4 DEF Bijection, Injection, Surjection, IsInjective
  <1>7. ExistsBijection(S, T)
    BY <1>6 DEF ExistsBijection
  <1>8. Cardinality(T) = Cardinality(S)
    BY <1>5, <1>7, FS_Bijection
  <1> QED
    BY <1>8 DEF SeenAfter, S, T

\* A sequence without repetitions has as many places as entries.
LEMMA PlacesCount ==
  ASSUME NEW S, NEW s \in Seq(S), IsOnce(s), NEW T
  PROVE  /\ Cardinality({i \in DOMAIN s : s[i] \in T}) = Cardinality(ToSet(s) \cap T)
         /\ IsFiniteSet(ToSet(s)) /\ Cardinality(ToSet(s)) = Len(s)
  <1>1. ASSUME NEW U
        PROVE  /\ Cardinality({i \in DOMAIN s : s[i] \in U}) = Cardinality(ToSet(s) \cap U)
               /\ IsFiniteSet(ToSet(s) \cap U)
    <2> DEFINE A == {i \in DOMAIN s : s[i] \in U}
               B == ToSet(s) \cap U
               f == [i \in A |-> s[i]]
    <2>1. f \in [A -> B] /\ \A e \in B : \E j \in A : f[j] = e
      BY DEF ToSet
    <2>2. \A j, k \in A : f[j] = f[k] => j = k
      BY DEF IsOnce
    <2>3. IsFiniteSet(A)
      <3>1. IsFiniteSet(DOMAIN s) /\ A \subseteq DOMAIN s
        <4>1. DOMAIN s = 1 .. Len(s) /\ Len(s) \in Nat
          OBVIOUS
        <4> QED
          BY <4>1, UptoFacts
      <3> HIDE DEF A
      <3> QED
        BY <3>1, FS_Subset
    <2> HIDE DEF A, B, f
    <2>4. f \in Bijection(A, B)
      BY <2>1, <2>2 DEF Bijection, Injection, Surjection, IsInjective
    <2>5. ExistsBijection(A, B)
      BY <2>4 DEF ExistsBijection
    <2>6. Cardinality(B) = Cardinality(A) /\ IsFiniteSet(B)
      BY <2>3, <2>5, FS_Bijection
    <2> QED
      BY <2>6 DEF A, B
  <1>2. /\ {i \in DOMAIN s : s[i] \in ToSet(s)} = 1 .. Len(s)
        /\ ToSet(s) \cap ToSet(s) = ToSet(s) /\ Len(s) \in Nat
    BY DEF ToSet
  <1>3. Cardinality(1 .. Len(s)) = Len(s)
    BY <1>2, UptoFacts
  <1> QED
    BY <1>1, <1>2, <1>3

LEMMA OnceCounts ==
  ASSUME NEW S, NEW s \in Seq(S), IsOnce(s)
  PROVE  IsFiniteSet(ToSet(s)) /\ Cardinality(ToSet(s)) = Len(s) /\ Len(s) \in Nat
  <1>1. Len(s) \in Nat
    OBVIOUS
  <1> QED
    BY <1>1, PlacesCount

\* Entries with a lower address have a lower rank.
LEMMA RankFacts ==
  ASSUME NEW map \in Seq(MapEntries), IsOnce(map),
         \A d, e \in ToSet(map) : d.at = e.at => d = e
  PROVE  /\ \A d \in ToSet(map) : Rank(map, d) \in 0 .. Len(map) - 1
         /\ \A d, e \in ToSet(map) : d.at < e.at => Rank(map, d) < Rank(map, e)
  <1> DEFINE T == ToSet(map)
             L(d) == {e \in T : e.at < d.at}
  <1>1. IsFiniteSet(T) /\ Cardinality(T) = Len(map) /\ Len(map) \in Nat
    BY OnceCounts
  <1>2. \A d \in T : d \in MapEntries /\ d.at \in Nat
    BY InMap, Numbers
  <1>3. \A d : Rank(map, d) = Cardinality(L(d))
    BY DEF Rank
  <1> HIDE DEF T
  <1>4. ASSUME NEW d \in T PROVE IsFiniteSet(L(d)) /\ Cardinality(L(d)) \in 0 .. Len(map) - 1
    <2>1. IsFiniteSet(T \ {d}) /\ Cardinality(T \ {d}) = Len(map) - 1
      BY <1>1, FS_RemoveElement
    <2>2. L(d) \in SUBSET (T \ {d})
      BY <1>2
    <2> DEFINE A == T \ {d}
               B == L(d)
    <2> HIDE DEF A, B
    <2>3. IsFiniteSet(B) /\ Cardinality(B) <= Cardinality(A)
      BY <2>1, <2>2, FS_Subset DEF A, B
    <2>4. Cardinality(B) \in Nat
      BY <2>3, FS_CardinalityType
    <2>5. Cardinality(B) \in 0 .. Len(map) - 1
      BY <1>1, <2>1, <2>3, <2>4 DEF A
    <2> QED
      BY <2>3, <2>5 DEF B
  <1>5. ASSUME NEW d \in T, NEW e \in T, d.at < e.at PROVE Cardinality(L(d)) < Cardinality(L(e))
    <2> DEFINE A == L(e) \ {d}
               B == L(d)
    <2>1. d \in L(e)
      BY <1>5
    <2>2. IsFiniteSet(A) /\ Cardinality(A) = Cardinality(L(e)) - 1
      BY <1>4, <2>1, FS_RemoveElement
    <2>3. B \in SUBSET A
      BY <1>2, <1>5
    <2> HIDE DEF A, B
    <2>4. IsFiniteSet(B) /\ Cardinality(B) <= Cardinality(A)
      BY <2>2, <2>3, FS_Subset
    <2>5. Cardinality(B) \in Nat /\ Cardinality(A) \in Nat /\ Cardinality(L(e)) \in Nat
      BY <1>4, <2>2, <2>4, FS_CardinalityType
    <2> HIDE DEF L
    <2>6. Cardinality(B) < Cardinality(L(e))
      BY <2>2, <2>4, <2>5
    <2> QED
      BY <2>6 DEF B
  <1> HIDE DEF L
  <1> QED
    BY <1>3, <1>4, <1>5 DEF T

\* Sorted has the same entries, by ascending address.
LEMMA SortedFacts ==
  ASSUME NEW map \in Seq(MapEntries), IsOnce(map),
         \A d, e \in ToSet(map) : d.at = e.at => d = e
  PROVE  /\ Sorted(map) \in Seq(MapEntries) /\ IsOnce(Sorted(map))
         /\ ToSet(Sorted(map)) = ToSet(map) /\ IsAscending(Sorted(map))
  <1> DEFINE T == ToSet(map)
             n == Len(map)
             r == [d \in T |-> Rank(map, d)]
             O == Sorted(map)
  <1>1. IsFiniteSet(T) /\ Cardinality(T) = n /\ n \in Nat /\ DOMAIN map = 1 .. n
    BY OnceCounts
  <1>2. \A d \in T : d \in MapEntries /\ d.at \in Nat
    BY InMap, Numbers
  <1>3. /\ \A d \in T : Rank(map, d) \in 0 .. n - 1
        /\ \A d, e \in T : d.at < e.at => Rank(map, d) < Rank(map, e)
    BY RankFacts
  <1>4. O = [i \in 1 .. n |-> CHOOSE d \in T : Rank(map, d) = i - 1]
    BY <1>1 DEF Sorted
  <1> HIDE DEF n, O
  <1>5. \A d, e \in T : Rank(map, d) = Rank(map, e) => d = e
    <2> SUFFICES ASSUME NEW d \in T, NEW e \in T, d # e PROVE Rank(map, d) # Rank(map, e)
      OBVIOUS
    <2>1. d.at < e.at \/ e.at < d.at
      BY <1>2
    <2>2. Rank(map, d) \in Int /\ Rank(map, e) \in Int
      BY <1>1, <1>3
    <2> QED
      BY <1>3, <2>1, <2>2
  <1>6. r \in Surjection(T, 0 .. n - 1)
    <2> DEFINE U == 0 .. n - 1
    <2>1. IsFiniteSet(U) /\ Cardinality(U) = n
      BY <1>1, FS_Interval
    <2> HIDE DEF T, U
    <2>2. r \in Injection(T, U)
      BY <1>3, <1>5 DEF Injection, IsInjective, U
    <2> HIDE DEF r
    <2>3. r \in Surjection(T, U)
      BY <1>1, <2>1, <2>2, FS_Injection
    <2> QED
      BY <2>3 DEF U
  <1>7. ASSUME NEW k \in 0 .. n - 1 PROVE \E d \in T : Rank(map, d) = k
    BY <1>6 DEF Surjection
  <1> HIDE DEF T, r
  <1>8. \A i \in 1 .. n : O[i] \in T /\ Rank(map, O[i]) = i - 1
    <2> SUFFICES ASSUME NEW i \in 1 .. n PROVE O[i] \in T /\ Rank(map, O[i]) = i - 1
      OBVIOUS
    <2>1. i - 1 \in 0 .. n - 1
      BY <1>1
    <2>2. \E d \in T : Rank(map, d) = i - 1
      BY <1>7, <2>1
    <2> QED
      BY <1>4, <2>2
  <1>9. O \in Seq(MapEntries) /\ DOMAIN O = 1 .. n
    <2>1. O \in [1 .. n -> MapEntries]
      BY <1>2, <1>4, <1>8
    <2> QED
      BY <1>1, <2>1, IsASeq
  <1>10. \A d \in T : \E i \in 1 .. n : O[i] = d
    <2> SUFFICES ASSUME NEW d \in T PROVE \E i \in 1 .. n : O[i] = d
      OBVIOUS
    <2> DEFINE i == Rank(map, d) + 1
    <2>1. i \in 1 .. n /\ i - 1 = Rank(map, d)
      BY <1>1, <1>3
    <2> QED
      BY <1>5, <1>8, <2>1
  <1>11. ToSet(O) = T
    BY <1>8, <1>9, <1>10 DEF ToSet
  <1>12. ASSUME NEW i \in 1 .. n, NEW j \in 1 .. n, i < j PROVE O[i].at < O[j].at
    <2>1. O[i] \in T /\ O[j] \in T /\ Rank(map, O[i]) = i - 1 /\ Rank(map, O[j]) = j - 1
      BY <1>8
    <2>2. O[i].at \in Nat /\ O[j].at \in Nat
      BY <1>2, <2>1
    <2>3. CASE O[i].at = O[j].at
      <3>1. O[i] = O[j]
        BY <2>1, <2>3 DEF T
      <3>2. i - 1 = j - 1
        BY <2>1, <3>1
      <3> QED
        BY <1>1, <1>12, <3>2
    <2>4. CASE O[j].at < O[i].at
      <3>1. j - 1 < i - 1
        BY <1>3, <2>1, <2>4
      <3> QED
        BY <1>1, <1>12, <3>1
    <2> QED
      BY <2>2, <2>3, <2>4
  <1>13. IsAscending(O)
    BY <1>9, <1>12 DEF IsAscending
  <1>14. IsOnce(O)
    <2> SUFFICES ASSUME NEW i \in 1 .. n, NEW j \in 1 .. n, O[i] = O[j] PROVE i = j
      BY <1>9 DEF IsOnce
    <2>1. i - 1 = j - 1
      BY <1>8
    <2> QED
      BY <1>1, <2>1
  <1> QED
    BY <1>9, <1>11, <1>13, <1>14 DEF O, T

\* A value is set in one place of the table.
LEMMA PassEquElsewhere ==
  ASSUME NEW t \in Tables(equ), NEW name \in DOMAIN equ
  PROVE  /\ \A x \in DOMAIN equ : x # name => PassEqu(t, name)[x] = t[x]
         /\ ~equ[name].labeled => PassEqu(t, name) = t
  BY DEF PassEqu, Tables

\* When no EQU of a visit has changed, the table is as it was, and each of the
\* EQUs has the value of its expression.
LEMMA UnchangedTable ==
  ASSUME prog \in Programs, EqusGood(equ, Len(prog) + 1),
         \A l \in DOMAIN labels : labels[l] \in Nat,
         NEW names \in Seq(Names), ToSet(names) \subseteq DOMAIN equ,
         \A x \in ToSet(names) : EquAst(x).ref \in Defined \cup {NoRef},
         IsOnce(names), ~EquChanged(PassEqus(names), names)
  PROVE  PassEqus(names) = equ /\ \A x \in ToSet(names) : EquSettled(x)
  <1> DEFINE m == Len(names)
  <1>1. /\ m \in Nat /\ DOMAIN names = 1 .. m
        /\ \A i \in 1 .. m : names[i] \in ToSet(names) /\ names[i] \in DOMAIN equ
    BY DEF ToSet
  <1>2. PICK eqs : PassRuns(eqs, names)
    BY PassEqusRuns
  <1>3. /\ eqs[0] = equ /\ PassEqus(names) = eqs[m]
        /\ \A i \in 0 .. m : eqs[i] \in Tables(equ)
        /\ \A i \in 1 .. m : eqs[i] = PassEqu(eqs[i - 1], names[i])
    BY <1>2 DEF PassRuns
  <1>4. equ \in Tables(equ)
    BY DEF Tables, EqusGood
  <1> HIDE DEF m
  <1>5. ASSUME NEW i \in 1 .. m PROVE eqs[m][names[i]] = eqs[i][names[i]]
    <2> DEFINE x == names[i]
               G == {k \in Nat : k \in i .. m => eqs[k][x] = eqs[i][x]}
    <2>1. 0 \in G
      BY <1>1
    <2>2. ASSUME NEW k \in Nat, k \in G PROVE k + 1 \in G
      <3> SUFFICES ASSUME k + 1 \in i .. m PROVE eqs[k + 1][x] = eqs[i][x]
        OBVIOUS
      <3>1. CASE k + 1 = i
        BY <3>1
      <3>2. CASE k + 1 # i
        <4>1. k \in i .. m /\ k \in 0 .. m /\ k + 1 \in 1 .. m /\ (k + 1) - 1 = k
          BY <1>1, <3>2
        <4>2. eqs[k][x] = eqs[i][x]
          BY <2>2, <4>1
        <4>3. eqs[k + 1] = PassEqu(eqs[k], names[k + 1]) /\ eqs[k] \in Tables(equ)
          BY <1>3, <4>1
        <4>4. names[k + 1] # x /\ x \in DOMAIN equ /\ names[k + 1] \in DOMAIN equ
          BY <1>1, <3>2, <4>1 DEF IsOnce
        <4> HIDE DEF x
        <4> QED
          BY <4>2, <4>3, <4>4, PassEquElsewhere
      <3> QED
        BY <3>1, <3>2
    <2> HIDE DEF G
    <2>3. m \in G
      BY <1>1, <2>1, <2>2, Counting
    <2>4. m \in i .. m
      BY <1>1
    <2> QED
      BY <2>3, <2>4 DEF G
  <1>6. ASSUME NEW i \in 1 .. m, equ[names[i]].labeled PROVE eqs[i][names[i]] = equ[names[i]]
    <2> DEFINE x == names[i]
    <2>1. eqs[m][x].val = equ[x].val
      BY <1>1, <1>3, <1>6 DEF EquChanged
    <2>2. eqs[m] \in Tables(equ) /\ x \in DOMAIN equ
      BY <1>1, <1>3
    <2>3. eqs[m][x] = eqs[i][x]
      BY <1>5
    <2> HIDE DEF x
    <2>4. /\ eqs[m][x] \in EquEntries /\ equ[x] \in EquEntries
          /\ eqs[m][x].labeled = equ[x].labeled
      BY <1>4, <2>2 DEF Tables
    <2>5. eqs[m][x] = equ[x]
      BY <2>1, <2>4 DEF EquEntries
    <2> QED
      BY <2>3, <2>5 DEF x
  <1> DEFINE P == {i \in Nat : i <= m => eqs[i] = equ}
  <1>7. 0 \in P
    BY <1>3
  <1>8. ASSUME NEW i \in Nat, i \in P PROVE i + 1 \in P
    <2> SUFFICES ASSUME i + 1 <= m PROVE eqs[i + 1] = equ
      OBVIOUS
    <2> DEFINE x == names[i + 1]
    <2>1. eqs[i] = equ
      BY <1>1, <1>8
    <2>2. i + 1 \in 1 .. m /\ (i + 1) - 1 = i /\ i + 1 \in 0 .. m
      BY <1>1
    <2>3. eqs[i + 1] = PassEqu(equ, x) /\ x \in DOMAIN equ /\ eqs[i + 1] \in Tables(equ)
      BY <1>1, <1>3, <2>1, <2>2
    <2>4. equ[x].labeled => eqs[i + 1][x] = equ[x]
      BY <1>6, <2>2
    <2> HIDE DEF x
    <2>5. CASE equ[x].labeled
      <3>1. \A y \in DOMAIN equ : eqs[i + 1][y] = equ[y]
        BY <1>4, <2>3, <2>4, <2>5, PassEquElsewhere
      <3>2. eqs[i + 1] \in [DOMAIN equ -> EquEntries] /\ equ \in [DOMAIN equ -> EquEntries]
        BY <1>4, <2>3 DEF Tables
      <3> QED
        BY <3>1, <3>2
    <2>6. CASE ~equ[x].labeled
      BY <1>4, <2>3, <2>6, PassEquElsewhere
    <2> QED
      BY <2>5, <2>6
  <1> HIDE DEF P
  <1>9. \A i \in Nat : i \in P
    BY <1>7, <1>8, Counting
  <1>10. \A i \in 0 .. m : eqs[i] = equ
    BY <1>1, <1>9 DEF P
  <1>11. ASSUME NEW i \in 1 .. m PROVE PassEqu(equ, names[i]) = equ
    <2>1. i \in 0 .. m /\ i - 1 \in 0 .. m
      BY <1>1
    <2> QED
      BY <1>3, <1>10, <2>1
  <1>12. \A x \in ToSet(names) : EquSettled(x)
    BY <1>1, <1>11 DEF ToSet, EquSettled
  <1>13. m \in 0 .. m
    BY <1>1
  <1> QED
    BY <1>3, <1>10, <1>12, <1>13

-----------------------------------------------------------------------------
(* What becomes of the nodes.                                              *)

\* The entries of a node.
Of(entries, k) == {e \in entries : e.blob.node = k}

\* Where the other entries go when one is replaced.
Carries(h, entries, x, c, new) ==
  /\ h \in [entries \ {x} -> new]
  /\ \A d, e \in entries \ {x} : h[d] = h[e] => d = e
  /\ \A e \in entries \ {x} : h[e].blob = e.blob /\ h[e] \notin c
  /\ \A f \in new : f \in c \/ \E e \in entries \ {x} : h[e] = f
  /\ c \subseteq new

LEMMA Carried ==
  ASSUME NEW entries, Layout(entries), NEW x \in entries, x.blob.size > 0,
         NEW c, NEW n \in Nat, Fills(c, x, n)
  PROVE  \E h : Carries(h, entries, x, c, Replaced(entries, x, c, n))
  <1> DEFINE lower == Below(entries, x.at)
             upper == Behind(entries, x.at)
             s(e)  == Shifted(e, n - x.blob.size)
             new   == Replaced(entries, x, c, n)
             h     == [e \in entries \ {x} |-> IF e.at < x.at THEN e ELSE s(e)]
  <1>1. Regions(entries, x, c, n)
    BY RegionsHold
  <1>2. \A e \in entries : e \in MapEntries /\ e.at \in Nat
    BY Numbers DEF Layout
  <1>3. \A e \in entries \ {x} : e.at < x.at \/ e.at > x.at
    BY <1>2 DEF Layout
  <1>4. \A e \in entries : /\ e.at < x.at => e \in lower
                           /\ e.at > x.at => e \in upper
    BY DEF Below, Behind
  <1>5. /\ \A e \in lower : e \in entries /\ e.at < x.at /\ e # x
        /\ \A e \in upper : e \in entries /\ e.at > x.at /\ e # x /\ ~(e.at < x.at)
    BY <1>2 DEF Below, Behind
  <1>6. \A f \in new : f \in lower \/ f \in c \/ \E e \in upper : f = s(e)
    BY DEF Replaced
  <1>7. lower \subseteq new /\ c \subseteq new /\ \A e \in upper : s(e) \in new
    BY DEF Replaced
  <1>8. \A e \in upper : s(e).blob = e.blob /\ s(e).at >= x.at + n /\ s(e) \in MapEntries
    BY <1>1 DEF Regions
  <1>9. \A f \in c : /\ f \in MapEntries /\ f.at \in Nat
                     /\ x.at <= f.at /\ f.at < x.at + n
    <2> SUFFICES ASSUME NEW f \in c
                 PROVE  /\ f \in MapEntries /\ f.at \in Nat
                        /\ x.at <= f.at /\ f.at < x.at + n
      OBVIOUS
    <2>1. f \in MapEntries /\ x.at <= f.at /\ f.at < Ends(f) /\ Ends(f) <= x.at + n
      BY <1>1 DEF Regions
    <2>2. f.at \in Nat /\ Ends(f) \in Nat /\ x.at + n \in Nat
      BY <1>2, <2>1, Numbers
    <2> QED
      BY <2>1, <2>2
  <1>10. \A d, e \in upper : s(d) = s(e) => d = e
    <2> SUFFICES ASSUME NEW d \in upper, NEW e \in upper, s(d) = s(e) PROVE d = e
      OBVIOUS
    <2>1. d \in MapEntries /\ e \in MapEntries /\ n - x.blob.size \in Int
      BY <1>2, <1>5, Numbers
    <2> QED
      BY <2>1, ShiftedApart
  <1>11. \A d \in lower : \A e \in upper : s(e) # d
    <2> SUFFICES ASSUME NEW d \in lower, NEW e \in upper, s(e) = d PROVE FALSE
      OBVIOUS
    <2>1. d.at >= x.at + n /\ d.at < x.at /\ d.at \in Nat /\ x.at \in Nat
      BY <1>2, <1>5, <1>8
    <2> QED
      BY <2>1
  <1>12. \A e \in lower : e \notin c
    <2> SUFFICES ASSUME NEW e \in lower, e \in c PROVE FALSE
      OBVIOUS
    <2>1. e.at < x.at /\ x.at <= e.at /\ e.at \in Nat /\ x.at \in Nat
      BY <1>2, <1>5, <1>9
    <2> QED
      BY <2>1
  <1>13. \A e \in upper : s(e) \notin c
    <2> SUFFICES ASSUME NEW e \in upper, s(e) \in c PROVE FALSE
      OBVIOUS
    <2> DEFINE f == s(e)
    <2>1. f.at >= x.at + n /\ f.at < x.at + n /\ f.at \in Nat /\ x.at \in Nat
      BY <1>2, <1>8, <1>9
    <2> HIDE DEF f
    <2> QED
      BY <2>1
  <1> HIDE DEF lower, upper, s, new
  <1>14. /\ \A e \in lower : e \in entries \ {x} /\ h[e] = e
         /\ \A e \in upper : e \in entries \ {x} /\ h[e] = s(e)
         /\ \A e \in entries \ {x} : e \in lower \/ e \in upper
    BY <1>3, <1>4, <1>5
  <1>15. h \in [entries \ {x} -> new]
    BY <1>3, <1>4, <1>7
  <1> HIDE DEF h
  <1>16. \A d, e \in entries \ {x} : h[d] = h[e] => d = e
    BY <1>10, <1>11, <1>14
  <1>17. \A e \in entries \ {x} : h[e].blob = e.blob /\ h[e] \notin c
    BY <1>8, <1>12, <1>13, <1>14
  <1>18. \A f \in new : f \in c \/ \E e \in entries \ {x} : h[e] = f
    BY <1>6, <1>14
  <1>19. Carries(h, entries, x, c, new)
    BY <1>7, <1>15, <1>16, <1>17, <1>18 DEF Carries
  <1> QED
    BY <1>19 DEF new

\* Sets that a function maps on each other, one to one.
LEMMA SameCount ==
  ASSUME NEW A, NEW B, IsFiniteSet(A), NEW f \in [A -> B],
         \A a, b \in A : f[a] = f[b] => a = b, \A b \in B : \E a \in A : f[a] = b
  PROVE  IsFiniteSet(B) /\ Cardinality(B) = Cardinality(A)
  <1>1. f \in Bijection(A, B)
    BY DEF Bijection, Injection, Surjection, IsInjective
  <1>2. ExistsBijection(A, B)
    BY <1>1 DEF ExistsBijection
  <1> QED
    BY <1>2, FS_Bijection

LEMMA OfFinite ==
  ASSUME NEW entries, IsFiniteSet(entries), NEW k
  PROVE  IsFiniteSet(Of(entries, k))
  <1>1. Of(entries, k) \in SUBSET entries
    BY DEF Of
  <1> QED
    BY <1>1, FS_Subset

\* The other nodes have as many entries as before.
LEMMA OfOthers ==
  ASSUME NEW entries, Layout(entries), IsFiniteSet(entries), NEW x \in entries, x.blob.size > 0,
         NEW c, NEW n \in Nat, Fills(c, x, n), NEW k, k # x.blob.node
  PROVE  LET new == Replaced(entries, x, c, n) IN
         /\ Cardinality(Of(new, k)) = Cardinality(Of(entries, k))
         /\ \A f \in Of(new, k) : \E e \in Of(entries, k) : f.blob = e.blob
  <1> DEFINE new == Replaced(entries, x, c, n)
             A   == Of(entries, k)
             B   == Of(new, k)
  <1>1. PICK h : Carries(h, entries, x, c, new)
    BY Carried
  <1>2. \A f \in c : f.blob.node = x.blob.node
    BY DEF Fills
  <1>3. IsFiniteSet(A)
    BY OfFinite
  <1> HIDE DEF new
  <1>4. /\ \A e \in A : e \in entries \ {x} /\ h[e] \in B
        /\ \A f \in B : \E e \in A : h[e] = f
    BY <1>1, <1>2 DEF Carries, Of
  <1> DEFINE g == [e \in A |-> h[e]]
  <1> HIDE DEF A, B
  <1>5. /\ g \in [A -> B] /\ \A d, e \in A : g[d] = g[e] => d = e
        /\ \A f \in B : \E e \in A : g[e] = f
    BY <1>1, <1>4 DEF Carries
  <1> HIDE DEF g
  <1>6. Cardinality(B) = Cardinality(A)
    BY <1>3, <1>5, SameCount
  <1>7. \A f \in B : \E e \in A : f.blob = e.blob
    BY <1>1, <1>4 DEF Carries
  <1> QED
    BY <1>6, <1>7 DEF A, B, new

\* One entry in the place of another.
LEMMA OfOne ==
  ASSUME NEW entries, Layout(entries), IsFiniteSet(entries), NEW x \in entries, x.blob.size > 0,
         NEW y, NEW c, y \in c, \A e \in c : e = y, NEW n \in Nat, Fills(c, x, n),
         NEW k, k = x.blob.node
  PROVE  LET new == Replaced(entries, x, c, n) IN
         /\ Cardinality(Of(new, k)) = Cardinality(Of(entries, k))
         /\ \A f \in Of(new, k) : f = y \/ \E e \in Of(entries, k) : f.blob = e.blob
  <1> DEFINE new == Replaced(entries, x, c, n)
             A   == Of(entries, k)
             B   == Of(new, k)
  <1>1. PICK h : Carries(h, entries, x, c, new)
    BY Carried
  <1>2. y.blob.node = k
    BY DEF Fills
  <1>3. IsFiniteSet(A)
    BY OfFinite
  <1> HIDE DEF new
  <1>4. /\ x \in A /\ y \in B
        /\ \A e \in A \ {x} : e \in entries \ {x} /\ h[e] \in B /\ h[e] # y
        /\ \A f \in B : f = y \/ \E e \in A \ {x} : h[e] = f
    BY <1>1, <1>2 DEF Carries, Of
  <1> DEFINE g == [e \in A |-> IF e = x THEN y ELSE h[e]]
  <1> HIDE DEF A, B
  <1>5. g[x] = y /\ \A e \in A \ {x} : g[e] = h[e]
    BY <1>4
  <1>6. g \in [A -> B]
    BY <1>4
  <1> HIDE DEF g
  <1>7. \A d, e \in A : g[d] = g[e] => d = e
    <2>1. \A d, e \in A \ {x} : g[d] = g[e] => d = e
      BY <1>1, <1>4, <1>5 DEF Carries
    <2>2. \A d \in A \ {x} : g[d] # g[x]
      BY <1>4, <1>5
    <2> QED
      BY <2>1, <2>2
  <1>8. \A f \in B : \E e \in A : g[e] = f
    BY <1>4, <1>5
  <1>9. Cardinality(B) = Cardinality(A)
    BY <1>3, <1>6, <1>7, <1>8, SameCount
  <1>10. \A f \in B : f = y \/ \E e \in A : f.blob = e.blob
    BY <1>1, <1>4 DEF Carries
  <1> QED
    BY <1>9, <1>10 DEF A, B, new

\* The entries that take the place of the only one.
LEMMA OfMany ==
  ASSUME NEW entries, Layout(entries), NEW x \in entries, x.blob.size > 0,
         NEW c, NEW n \in Nat, Fills(c, x, n), Of(entries, x.blob.node) = {x}
  PROVE  Of(Replaced(entries, x, c, n), x.blob.node) = c
  <1> DEFINE new == Replaced(entries, x, c, n)
  <1>1. PICK h : Carries(h, entries, x, c, new)
    BY Carried
  <1>2. \A f \in c : f.blob.node = x.blob.node
    BY DEF Fills
  <1> HIDE DEF new
  <1>3. \A e \in entries \ {x} : e.blob.node # x.blob.node
    BY DEF Of
  <1>4. \A f \in new : f.blob.node = x.blob.node <=> f \in c
    BY <1>1, <1>2, <1>3 DEF Carries
  <1> QED
    BY <1>1, <1>4 DEF Of, new, Carries

\* What has become of the k-th node: an instruction or a definition has one
\* entry, a TIMES one until it is expanded and then as many as it repeats.
Made(entries, k) ==
  LET own == Of(entries, k) IN
  /\ prog[k].kind \in {"INSTRUCTION", "DEFINE"} =>
       Cardinality(own) = 1 /\ \A e \in own : e.blob.ast = prog[k]
  /\ prog[k].kind = "EQU" => \A e \in own : e.blob.ast = prog[k]
  /\ prog[k].kind = "TIMES" =>
       \/ Cardinality(own) = 1 /\ \A e \in own : e.blob.ast = prog[k]
       \/ /\ ~prog[k].pad => Cardinality(own) = prog[k].count
          /\ \A e \in own : e.blob.ast = prog[k].body

MadeBefore(entries, n) == \A k \in DOMAIN prog : k < n => Made(entries, k)

\* The kind of an entry is the kind of its node, or of the body of a TIMES.
LEMMA KindFacts ==
  ASSUME prog \in Programs, NEW entries, NEW e \in entries, e.blob.node \in DOMAIN prog,
         prog[e.blob.node].kind # "LABEL", Made(entries, e.blob.node)
  PROVE  /\ e.blob.ast.kind = "EQU" => prog[e.blob.node].kind = "EQU"
         /\ e.blob.ast.kind = "TIMES" =>
              /\ prog[e.blob.node].kind = "TIMES" /\ e.blob.ast = prog[e.blob.node]
              /\ Cardinality(Of(entries, e.blob.node)) = 1
  <1> DEFINE k == e.blob.node
  <1>1. e \in Of(entries, k)
    BY DEF Of
  <1>2. prog[k].kind \in {"INSTRUCTION", "DEFINE", "EQU", "TIMES"}
    BY NodeFacts DEF Asts, EquNodes, ByteNodes, TimesNodes
  <1>3. prog[k].kind = "TIMES" => prog[k].body.kind \in {"INSTRUCTION", "DEFINE"}
    BY NodeFacts DEF ByteNodes, TimesNodes
  <1> HIDE DEF k
  <1>4. CASE prog[k].kind \in {"INSTRUCTION", "DEFINE", "EQU"}
    <2>1. e.blob.ast = prog[k]
      BY <1>1, <1>4 DEF Made, k
    <2> QED
      BY <1>4, <2>1 DEF k
  <1>5. CASE prog[k].kind = "TIMES"
    <2>1. \/ Cardinality(Of(entries, k)) = 1 /\ e.blob.ast = prog[k]
          \/ e.blob.ast = prog[k].body
      BY <1>1, <1>5 DEF Made, k
    <2> QED
      BY <1>3, <1>5, <2>1 DEF k
  <1> QED
    BY <1>2, <1>4, <1>5

\* The entry of the next node is added.
LEMMA MadeAdded ==
  ASSUME prog \in Programs, NEW entries, NEW n \in DOMAIN prog, prog[n].kind # "LABEL",
         \A e \in entries : e.blob.node < n, MadeBefore(entries, n),
         NEW new, new.blob.node = n, new.blob.ast = prog[n]
  PROVE  MadeBefore(entries \cup {new}, n + 1)
  <1> DEFINE all == entries \cup {new}
  <1>1. n \in Nat /\ \A k \in DOMAIN prog : k \in Nat
    BY NodeFacts
  <1>2. \A e \in entries : e.blob.node # n
    BY <1>1
  <1>3. Of(all, n) = {new} /\ \A k : k # n => Of(all, k) = Of(entries, k)
    BY <1>2 DEF Of
  <1> HIDE DEF all
  <1>4. ASSUME NEW k \in DOMAIN prog, k < n + 1 PROVE Made(all, k)
    <2>1. CASE k = n
      <3>1. Cardinality(Of(all, n)) = 1 /\ \A e \in Of(all, n) : e.blob.ast = prog[n]
        BY <1>3, FS_Singleton
      <3> QED
        BY <2>1, <3>1 DEF Made
    <2>2. CASE k # n
      <3>1. k < n
        BY <1>1, <1>4, <2>2
      <3>2. Made(entries, k) /\ Of(all, k) = Of(entries, k)
        BY <1>3, <2>2, <3>1 DEF MadeBefore
      <3> QED
        BY <3>2 DEF Made
    <2> QED
      BY <2>1, <2>2
  <1> QED
    BY <1>4 DEF MadeBefore, all

\* The entry of an EQU makes place for the next node, or takes its name over.
LEMMA MadeSwapped ==
  ASSUME prog \in Programs, NEW entries, NEW n \in DOMAIN prog, prog[n].kind # "LABEL",
         \A e \in entries : e.blob.node < n, MadeBefore(entries, n),
         NEW d \in entries, d.blob.node \in DOMAIN prog, prog[d.blob.node].kind = "EQU",
         NEW y,
         \/ y.blob.node = n /\ y.blob.ast = prog[n]
         \/ y.blob.node = d.blob.node /\ y.blob.ast = d.blob.ast /\ prog[n].kind = "EQU"
  PROVE  MadeBefore((entries \ {d}) \cup {y}, n + 1)
  <1> DEFINE all == (entries \ {d}) \cup {y}
             j   == d.blob.node
  <1>1. n \in Nat /\ j < n /\ \A k \in DOMAIN prog : k \in Nat
    BY NodeFacts
  <1>2. \A e \in entries : e.blob.node # n
    BY <1>1
  <1>3. j \in DOMAIN prog /\ prog[j].kind = "EQU" /\ j # n
    BY <1>1
  <1>4. \A e \in Of(entries, j) : e.blob.ast = prog[j]
    BY <1>1, <1>3 DEF Made, MadeBefore
  <1>5. d \in Of(entries, j) /\ \A k : k # j => d \notin Of(entries, k)
    BY DEF Of
  <1>6. ASSUME NEW k \in DOMAIN prog, k < n + 1 PROVE Made(all, k)
    <2>1. CASE k = j
      <3>1. \A e \in Of(all, j) : e \in Of(entries, j) \/ (e = y /\ y.blob.ast = d.blob.ast)
        BY <1>3 DEF Of
      <3>2. \A e \in Of(all, j) : e.blob.ast = prog[j]
        BY <1>4, <1>5, <3>1
      <3> HIDE DEF all, j
      <3> QED
        BY <1>3, <2>1, <3>2 DEF Made
    <2>2. CASE k = n /\ y.blob.node = n
      <3>1. Of(all, n) = {y} /\ y.blob.ast = prog[n]
        BY <1>2, <1>3, <2>2 DEF Of
      <3>2. Cardinality(Of(all, n)) = 1
        BY <3>1, FS_Singleton
      <3> HIDE DEF all
      <3> QED
        BY <2>2, <3>1, <3>2 DEF Made
    <2>3. CASE k = n /\ y.blob.node # n
      <3>1. Of(all, n) = {} /\ prog[n].kind = "EQU"
        BY <1>2, <2>3 DEF Of
      <3> HIDE DEF all
      <3> QED
        BY <2>3, <3>1 DEF Made
    <2>4. CASE k # n /\ k # j
      <3>1. k < n
        BY <1>1, <1>6, <2>4
      <3>2. Made(entries, k) /\ Of(all, k) = Of(entries, k)
        <4>1. Made(entries, k)
          BY <3>1 DEF MadeBefore
        <4>2. y.blob.node # k
          BY <2>4
        <4> QED
          BY <2>4, <4>1, <4>2 DEF Of
      <3> HIDE DEF all
      <3> QED
        BY <3>2 DEF Made
    <2> QED
      BY <2>1, <2>2, <2>3, <2>4
  <1> QED
    BY <1>6 DEF MadeBefore, all

\* A sequence of names to which one is added.
LEMMA OnceAppended ==
  ASSUME NEW s \in Seq(Names), NEW a \in Names, NEW b \in Names, IsOnce(Append(s, b))
  PROVE  a \notin ToSet(Append(s, b)) => IsOnce(Append(Append(s, a), b))
  <1> DEFINE p == Append(s, b)
  <1>1. /\ p \in Seq(Names) /\ Len(p) = Len(s) + 1 /\ Len(s) \in Nat
        /\ \A i \in 1 .. Len(s) : p[i] = s[i]
        /\ p[Len(s) + 1] = b
    OBVIOUS
  <1>2. DOMAIN p = 1 .. Len(s) + 1 /\ DOMAIN s = 1 .. Len(s)
    BY <1>1
  <1> HIDE DEF p
  <1>3. IsOnce(s) /\ b \notin ToSet(s)
    <2>1. \A i \in DOMAIN s : i \in DOMAIN p /\ i # Len(s) + 1 /\ p[i] = s[i]
      BY <1>1, <1>2
    <2>2. Len(s) + 1 \in DOMAIN p
      BY <1>1, <1>2
    <2>3. IsOnce(p)
      BY DEF p
    <2> QED
      BY <1>1, <2>1, <2>2, <2>3 DEF IsOnce, ToSet
  <1>4. ASSUME a \notin ToSet(p) PROVE IsOnce(Append(Append(s, a), b))
    <2>1. ToSet(p) = ToSet(s) \cup {b}
      BY Appended DEF p
    <2>2. a \notin ToSet(s) /\ a # b
      BY <1>4, <2>1
    <2> DEFINE q == Append(s, a)
    <2>3. q \in Seq(Names) /\ ToSet(q) = ToSet(s) \cup {a} /\ IsOnce(q)
      BY <1>3, <2>2, Appended
    <2> HIDE DEF q
    <2>4. b \notin ToSet(q)
      BY <1>3, <2>2, <2>3
    <2>5. IsOnce(Append(q, b))
      BY <2>3, <2>4, Appended
    <2> QED
      BY <2>5 DEF q
  <1> QED
    BY <1>4 DEF p

\* What the passes keep of a map besides its layout: no EQU hangs twice at an
\* entry, and every node before the n-th one has its entries.
KeptMap(map, n) ==
  /\ \A e \in ToSet(map) : IsOnce(EqusAt(e.blob))
  /\ MadeBefore(ToSet(map), n)

\* One entry of a map is replaced in its place.
InPlace(map, m, d, new) ==
  /\ m \in Seq(MapEntries) /\ IsOnce(m)
  /\ DOMAIN m = DOMAIN map /\ \A j \in DOMAIN map : m[j].at = map[j].at
  /\ ToSet(m) = (ToSet(map) \ {d}) \cup {new}

LEMMA SetInPlace ==
  ASSUME NEW map \in Seq(MapEntries), IsOnce(map),
         \A d, e \in ToSet(map) : d.at = e.at => d = e,
         NEW i \in DOMAIN map, NEW d, d = map[i], NEW blob \in Blobs, NEW new,
         new = [at |-> d.at, blob |-> blob]
  PROVE  InPlace(map, MapSet(map, d.at, blob), d, new)
  <1> DEFINE addr == d.at
             m    == MapSet(map, addr, blob)
  <1>1. map[i].at = addr
    OBVIOUS
  <1>2. new = [at |-> addr, blob |-> blob]
    OBVIOUS
  <1> HIDE DEF addr
  <1>3. /\ m \in Seq(MapEntries) /\ IsOnce(m)
        /\ DOMAIN m = DOMAIN map /\ \A j \in DOMAIN map : m[j].at = map[j].at
        /\ ToSet(m) = (ToSet(map) \ {map[i]}) \cup {new}
    BY <1>1, <1>2, SetPresent
  <1> HIDE DEF m
  <1>4. InPlace(map, m, d, new)
    BY <1>3 DEF InPlace
  <1> QED
    BY <1>4 DEF m, addr

LEMMA EmitBlobKeeps ==
  ASSUME prog \in Programs, NEW map \in Seq(MapEntries), IsOnce(map), Layout(ToSet(map)),
         NEW addr \in Nat, NEW n \in DOMAIN prog, Stands(ToSet(map), addr, n),
         NEW names, \A e \in ToSet(map) : Owned(e.blob, n, names),
         prog[n].kind # "LABEL", prog[n].kind = "EQU" => prog[n].name \notin names,
         NEW size \in Nat, Sized(Blob(n, prog[n], size)), KeptMap(map, n)
  PROVE  LET m == EmitBlob(map, addr, Blob(n, prog[n], size)) IN
         KeptMap(m, n + 1) /\ (IsAscending(map) => IsAscending(m))
  <1> DEFINE ast  == prog[n]
             blob == Blob(n, ast, size)
             new  == [at |-> addr, blob |-> blob]
             prev == At(map, addr)
             m    == EmitBlob(map, addr, blob)
  <1>1. /\ blob \in Blobs /\ blob.node = n /\ blob.ast = ast /\ blob.size = size
        /\ blob.slaves = << >> /\ Sized(blob) /\ ast \in Asts
    <2>1. << >> \in Seq(Names) /\ n \in Nat /\ ast \in Asts
      BY NodeFacts
    <2> QED
      BY <2>1 DEF Blob, Blobs
  <1>2. size = 0 <=> ast.kind = "EQU"
    BY <1>1 DEF Sized
  <1>3. ast.kind = "EQU" => ast.name \in Names
    BY <1>1 DEF Asts, EquNodes, ByteNodes, TimesNodes
  <1>4. ast.kind = "EQU" => ast.name \notin names
    OBVIOUS
  <1> HIDE DEF blob, ast
  <1>5. new \in MapEntries /\ new.at = addr /\ new.blob = blob
    BY <1>1 DEF MapEntries
  <1> HIDE DEF new
  <1>6. /\ \A e \in ToSet(map) : e.blob.node < n /\ e.blob.node \in DOMAIN prog /\ Named(e.blob, names)
        /\ \A e \in ToSet(map) : prog[e.blob.node].kind # "LABEL"
        /\ \A d, e \in ToSet(map) : d.at = e.at => d = e
        /\ \A e \in ToSet(map) : e \in MapEntries /\ Sized(e.blob)
        /\ \A e \in ToSet(map) : Ends(e) <= addr
        /\ \A e \in ToSet(map) : IsOnce(EqusAt(e.blob))
        /\ MadeBefore(ToSet(map), n)
    BY DEF Owned, Layout, Stands, KeptMap
  <1>7. CASE prev = {}
    <2>1. m = Append(map, new)
      BY <1>7 DEF EmitBlob, MapSet, new
    <2>2. \A e \in ToSet(map) : e.at < addr
      <3>1. \A i \in DOMAIN map : map[i].at # addr
        BY <1>7 DEF At
      <3>2. ASSUME NEW e \in ToSet(map) PROVE e.at < addr
        <4>1. e.at # addr
          BY <3>1 DEF ToSet
        <4>2. Ends(e) <= addr /\ e.at \in Nat /\ e.blob.size \in Nat /\ Ends(e) = e.at + e.blob.size
          BY <1>6, Numbers
        <4> QED
          BY <4>1, <4>2
      <3> QED
        BY <3>2
    <2>3. ToSet(m) = ToSet(map) \cup {new} /\ (IsAscending(map) => IsAscending(m))
      BY <1>5, <2>1, <2>2, Appended, AscendingAppended
    <2> HIDE DEF m
    <2>4. MadeBefore(ToSet(m), n + 1)
      BY <1>1, <1>5, <1>6, <2>3, MadeAdded DEF ast
    <2>5. IsOnce(EqusAt(blob))
      <3>1. IsOnce(<< >>) /\ \A x : IsOnce(Append(<< >>, x))
        BY DEF IsOnce
      <3> QED
        BY <1>1, <3>1 DEF EqusAt
    <2>6. \A e \in ToSet(m) : IsOnce(EqusAt(e.blob))
      BY <1>5, <1>6, <2>3, <2>5
    <2> QED
      BY <2>3, <2>4, <2>6 DEF KeptMap, m, blob, ast
  <1>8. CASE prev # {}
    <2> DEFINE i   == CHOOSE j \in prev : TRUE
               d   == map[i]
               old == d.blob
    <2>1. i \in DOMAIN map /\ d.at = addr
      BY <1>8 DEF At
    <2>2. m = IF size = 0
                THEN MapSet(map, addr, [old EXCEPT !.slaves = Append(@, ast.name)])
                ELSE MapSet(map, addr, [blob EXCEPT !.slaves = Append(old.slaves, old.ast.name)])
      BY <1>1, <1>8 DEF EmitBlob
    <2> HIDE DEF i, m, prev
    <2>3. d \in ToSet(map) /\ d \in MapEntries /\ old \in Blobs /\ Named(old, names)
      <3>1. d \in ToSet(map) /\ d \in MapEntries
        BY <2>1, InMap
      <3> QED
        BY <1>6, <3>1 DEF MapEntries
    <2>4. old.size = 0 /\ old.ast.kind = "EQU"
      <3>1. Ends(d) <= addr
        BY <1>6, <2>3
      <3>2. old.size \in Nat /\ Ends(d) = addr + old.size
        BY <2>1, <2>3, Numbers
      <3> QED
        BY <1>6, <2>3, <3>1, <3>2 DEF Sized
    <2>5. old.slaves \in Seq(Names) /\ old.ast.name \in Names /\ old.ast.name \in names
      BY <2>3, <2>4, NamedFacts
    <2>6. EqusAt(old) = Append(old.slaves, old.ast.name) /\ IsOnce(EqusAt(old))
      BY <1>6, <2>3, <2>4 DEF EqusAt
    <2>7. d.blob.node \in DOMAIN prog /\ prog[d.blob.node].kind = "EQU"
      <3>1. /\ d.blob.node \in DOMAIN prog /\ prog[d.blob.node].kind # "LABEL"
            /\ Made(ToSet(map), d.blob.node)
        BY <1>6, <2>3 DEF MadeBefore
      <3> QED
        BY <2>3, <2>4, <3>1, KindFacts
    <2>8. CASE size = 0
      <3> DEFINE blob2 == [old EXCEPT !.slaves = Append(@, ast.name)]
                 new2  == [at |-> addr, blob |-> blob2]
      <3>1. ast.kind = "EQU" /\ ast.name \in Names /\ ast.name \notin names
        BY <1>2, <1>3, <1>4, <2>8
      <3>2. Append(old.slaves, ast.name) \in Seq(Names)
        BY <2>5, <3>1, ChainFacts
      <3>3. /\ blob2 \in Blobs /\ blob2.node = old.node /\ blob2.ast = old.ast
            /\ blob2.slaves = Append(old.slaves, ast.name)
        BY <2>3, <3>2 DEF Blobs
      <3>4. m = MapSet(map, addr, blob2)
        BY <2>2, <2>8
      <3> HIDE DEF blob2
      <3>5. IsOnce(EqusAt(blob2))
        <4>1. EqusAt(blob2) = Append(Append(old.slaves, ast.name), old.ast.name)
          BY <2>4, <3>3 DEF EqusAt
        <4>2. ast.name \notin ToSet(EqusAt(old))
          BY <2>3, <3>1 DEF Named
        <4>3. IsOnce(Append(Append(old.slaves, ast.name), old.ast.name))
          BY <2>5, <2>6, <3>1, <4>2, OnceAppended
        <4> QED
          BY <4>1, <4>3
      <3>6. /\ DOMAIN m = DOMAIN map /\ \A j \in DOMAIN map : m[j].at = map[j].at
            /\ ToSet(m) = (ToSet(map) \ {d}) \cup {new2}
        <4>1. \A e, f \in ToSet(map) : e.at = f.at => e = f
          BY <1>6
        <4>2. /\ i \in DOMAIN map /\ d = map[i] /\ blob2 \in Blobs
              /\ new2 = [at |-> d.at, blob |-> blob2]
          BY <2>1, <3>3
        <4>3. d.at = addr
          BY <2>1
        <4> HIDE DEF new2, d
        <4>4. InPlace(map, MapSet(map, d.at, blob2), d, new2)
          BY <4>1, <4>2, SetInPlace
        <4>5. InPlace(map, m, d, new2)
          BY <4>3, <4>4, <3>4
        <4> QED
          BY <4>5 DEF InPlace
      <3>7. new2.blob = blob2
        OBVIOUS
      <3> HIDE DEF new2, d
      <3>8. MadeBefore((ToSet(map) \ {d}) \cup {new2}, n + 1)
        BY <1>6, <2>3, <2>7, <3>1, <3>3, <3>7, MadeSwapped DEF ast
      <3>9. IsAscending(map) => IsAscending(m)
        BY <3>6, SetOrder
      <3>10. \A e \in ToSet(m) : IsOnce(EqusAt(e.blob))
        BY <1>6, <3>5, <3>6, <3>7
      <3> QED
        BY <3>6, <3>8, <3>9, <3>10 DEF KeptMap, m, blob, ast
    <2>9. CASE size # 0
      <3> DEFINE blob2 == [blob EXCEPT !.slaves = Append(old.slaves, old.ast.name)]
                 new2  == [at |-> addr, blob |-> blob2]
      <3>1. Append(old.slaves, old.ast.name) \in Seq(Names)
        BY <2>5, ChainFacts
      <3>2. /\ blob2 \in Blobs /\ blob2.node = n /\ blob2.ast = ast
            /\ blob2.slaves = Append(old.slaves, old.ast.name)
        BY <1>1, <3>1 DEF Blobs
      <3>3. m = MapSet(map, addr, blob2)
        BY <2>2, <2>9
      <3> HIDE DEF blob2
      <3>4. IsOnce(EqusAt(blob2))
        <4>1. EqusAt(blob2) = EqusAt(old)
          BY <1>2, <2>6, <2>9, <3>2 DEF EqusAt
        <4> QED
          BY <2>6, <4>1
      <3>5. /\ DOMAIN m = DOMAIN map /\ \A j \in DOMAIN map : m[j].at = map[j].at
            /\ ToSet(m) = (ToSet(map) \ {d}) \cup {new2}
        <4>1. \A e, f \in ToSet(map) : e.at = f.at => e = f
          BY <1>6
        <4>2. /\ i \in DOMAIN map /\ d = map[i] /\ blob2 \in Blobs
              /\ new2 = [at |-> d.at, blob |-> blob2]
          BY <2>1, <3>2
        <4>3. d.at = addr
          BY <2>1
        <4> HIDE DEF new2, d
        <4>4. InPlace(map, MapSet(map, d.at, blob2), d, new2)
          BY <4>1, <4>2, SetInPlace
        <4>5. InPlace(map, m, d, new2)
          BY <4>3, <4>4, <3>3
        <4> QED
          BY <4>5 DEF InPlace
      <3>6. new2.blob = blob2
        OBVIOUS
      <3> HIDE DEF new2, d
      <3>7. MadeBefore((ToSet(map) \ {d}) \cup {new2}, n + 1)
        BY <1>6, <2>3, <2>7, <3>2, <3>6, MadeSwapped DEF ast
      <3>8. IsAscending(map) => IsAscending(m)
        BY <3>5, SetOrder
      <3>9. \A e \in ToSet(m) : IsOnce(EqusAt(e.blob))
        BY <1>6, <3>4, <3>5, <3>6
      <3> QED
        BY <3>5, <3>7, <3>8, <3>9 DEF KeptMap, m, blob, ast
    <2> QED
      BY <2>8, <2>9
  <1> QED
    BY <1>7, <1>8

-----------------------------------------------------------------------------
(* The invariant of the fixpoint.                                          *)

\* A TIMES has expanded to nothing.
VanishedIn(entries) == \E k \in DOMAIN prog : prog[k].kind = "TIMES" /\ Of(entries, k) = {}

\* The entries that a visit would leave as they are.
Steady ==
  {e \in MapEntries : IsSettled(e) /\ \A name \in ToSet(EqusAt(e.blob)) : EquSettled(name)}

\* Entries that ask for no further pass.
Calm(some, entries, steady) ==
  \A e \in some : e.blob.ast.kind # "TIMES" /\ (VanishedIn(entries) \/ e \in steady)

Kept == KeptMap(nodesOffsets, next) /\ (~needSort => IsAscending(nodesOffsets))

\* In a pass that has changed nothing the entries behind the iterator are steady.
Quiet == phase = "second" /\ ~needPass => Calm(First(nodesOffsets, seen), Entries, Steady)

Out ==
  phase = "done" =>
    /\ next = Len(prog) + 1
    /\ blobs \in Seq(MapEntries) /\ IsOnce(blobs) /\ IsAscending(blobs)
    /\ ToSet(blobs) = {e \in Entries : e.blob.ast.kind # "EQU"}
    /\ Calm(Entries, Entries, Steady)

FInv == IInv /\ Kept /\ Quiet /\ Out

LEMMA SteadyStays ==
  ASSUME prog' = prog, equ' = equ, labels' = labels
  PROVE  Steady' = Steady
  BY DEF Steady, IsSettled, EquSettled, PassEqu, EquAst, Resolve, SchemaSizes, Shortest, Reach, EqusAt

\* What the invariant says in the next state, in terms of this one.
LEMMA FixPrimed ==
  ASSUME prog' = prog, KeptMap(nodesOffsets', next'),
         ~needSort' => IsAscending(nodesOffsets'),
         phase' = "second" /\ ~needPass'
           => Calm(First(nodesOffsets', seen'), ToSet(nodesOffsets'), Steady'),
         phase' # "done"
  PROVE  Kept' /\ Quiet' /\ Out'
  <1>1. Kept'
    BY DEF Kept, KeptMap, MadeBefore, Made
  <1>2. Quiet'
    BY DEF Quiet, Calm, VanishedIn, Entries
  <1>3. Out'
    BY DEF Out
  <1> QED
    BY <1>1, <1>2, <1>3

\* A step that leaves the map and is none of a pass.
LEMMA FixSameMap ==
  ASSUME Kept, prog' = prog, next' = next, nodesOffsets' = nodesOffsets, needSort' = needSort,
         phase' \in {"first", "error"} \/ (phase' = "second" /\ seen' = 0)
  PROVE  Kept' /\ Quiet' /\ Out'
  <1>1. seen' = 0 => First(nodesOffsets', seen') = {}
    BY DEF First
  <1>2. Calm({}, ToSet(nodesOffsets'), Steady')
    BY DEF Calm
  <1>3. phase' = "second" => Calm(First(nodesOffsets', seen'), ToSet(nodesOffsets'), Steady')
    BY <1>1, <1>2
  <1>4. KeptMap(nodesOffsets', next') /\ (~needSort' => IsAscending(nodesOffsets'))
    BY DEF Kept
  <1> QED
    BY <1>3, <1>4, FixPrimed

LEMMA FixFail ==
  ASSUME Kept, NEW code, Fail(code) PROVE Kept' /\ Quiet' /\ Out'
  BY FixSameMap DEF Fail, firstVars, passVars

\* The first pass emits the blob of the next node.
LEMMA FixEmitNext ==
  ASSUME IInv, Kept, phase = "first", next <= Len(prog), prog[next].kind # "LABEL",
         prog[next].kind = "EQU" => prog[next].name \notin DOMAIN equ,
         NEW size \in Nat, Sized(Blob(next, prog[next], size)),
         nodesOffsets' = EmitBlob(nodesOffsets, Origin + offset, Blob(next, prog[next], size)),
         next' = next + 1, prog' = prog, phase' = phase, needSort' = needSort
  PROVE  Kept' /\ Quiet' /\ Out'
  <1> DEFINE m == EmitBlob(nodesOffsets, Origin + offset, Blob(next, prog[next], size))
             addr == Origin + offset
  <1>1. next \in DOMAIN prog /\ addr \in Nat /\ Stands(Entries, addr, next)
    BY AtNext
  <1>2. /\ prog \in Programs /\ nodesOffsets \in Seq(MapEntries) /\ IsOnce(nodesOffsets)
        /\ Layout(ToSet(nodesOffsets))
        /\ \A e \in ToSet(nodesOffsets) : Owned(e.blob, next, DOMAIN equ)
    BY DEF IInv, MapGood
  <1>3. KeptMap(m, next + 1) /\ (IsAscending(nodesOffsets) => IsAscending(m))
    <2> HIDE DEF addr
    <2>1. LET w == EmitBlob(nodesOffsets, addr, Blob(next, prog[next], size)) IN
          KeptMap(w, next + 1) /\ (IsAscending(nodesOffsets) => IsAscending(w))
      BY <1>1, <1>2, EmitBlobKeeps DEF Kept, Entries
    <2> QED
      BY <2>1 DEF addr
  <1> HIDE DEF m
  <1>4. nodesOffsets' = m
    BY DEF m
  <1>5. ~needSort' => IsAscending(nodesOffsets')
    BY <1>3, <1>4 DEF Kept
  <1>6. KeptMap(nodesOffsets', next') /\ phase' # "done" /\ phase' # "second"
    BY <1>3, <1>4
  <1> QED
    BY <1>5, <1>6, FixPrimed

LEMMA FixSizedStep == IInv /\ Kept /\ FirstPassSized => Kept' /\ Quiet' /\ Out'
  <1> SUFFICES ASSUME IInv, Kept, FirstPassSized PROVE Kept' /\ Quiet' /\ Out'
    OBVIOUS
  <1> DEFINE ast  == prog[next]
             size == IF ast.kind = "TIMES" THEN 1 ELSE ast.size
  <1>1. /\ phase = "first" /\ next <= Len(prog)
        /\ ast.kind \in {"INSTRUCTION", "DEFINE", "TIMES"} /\ prog \in Programs
    BY DEF FirstPassSized, FirstPassNode, IInv
  <1>2. size \in Nat /\ Sized(Blob(next, ast, size))
    <2>1. ast.kind # "TIMES" => ast.size \in Nat \ {0}
      <3>1. ast.kind # "TIMES" => ast \in ByteNodes
        BY <1>1, AtNext, NodeFacts
      <3> QED
        BY <3>1 DEF ByteNodes
    <2> QED
      BY <1>1, <2>1 DEF Sized, Blob
  <1>3. /\ nodesOffsets' = EmitBlob(nodesOffsets, Origin + offset, Blob(next, ast, size))
        /\ next' = next + 1 /\ prog' = prog /\ phase' = phase /\ needSort' = needSort
    BY DEF FirstPassSized, passVars
  <1> HIDE DEF size
  <1> QED
    BY <1>1, <1>2, <1>3, FixEmitNext

LEMMA FixEquStep == IInv /\ Kept /\ FirstPassEqu => Kept' /\ Quiet' /\ Out'
  <1> SUFFICES ASSUME IInv, Kept, FirstPassEqu PROVE Kept' /\ Quiet' /\ Out'
    OBVIOUS
  <1> DEFINE ast == prog[next]
  <1>1. phase = "first" /\ next <= Len(prog) /\ ast.kind = "EQU"
    BY DEF FirstPassEqu, FirstPassNode
  <1>2. CASE ast.name \in Defined
    BY <1>2, FixFail DEF FirstPassEqu
  <1>3. CASE ast.name \notin Defined
    <2>1. /\ nodesOffsets' = EmitBlob(nodesOffsets, Origin + offset, Blob(next, ast, 0))
          /\ next' = next + 1 /\ prog' = prog /\ phase' = phase /\ needSort' = needSort
          /\ ast.name \notin DOMAIN equ
      BY <1>3 DEF FirstPassEqu, passVars, Defined
    <2>2. Sized(Blob(next, ast, 0)) /\ 0 \in Nat
      BY <1>1 DEF Sized, Blob
    <2> QED
      BY <1>1, <2>1, <2>2, FixEmitNext
  <1> QED
    BY <1>2, <1>3

LEMMA FixLabelStep == IInv /\ Kept /\ FirstPassLabel => Kept' /\ Quiet' /\ Out'
  <1> SUFFICES ASSUME IInv, Kept, FirstPassLabel PROVE Kept' /\ Quiet' /\ Out'
    OBVIOUS
  <1> DEFINE name == prog[next].name
  <1>1. phase = "first" /\ next <= Len(prog) /\ prog[next].kind = "LABEL"
    BY DEF FirstPassLabel, FirstPassNode
  <1>2. CASE name \in Defined
    BY <1>2, FixFail DEF FirstPassLabel
  <1>3. CASE name \notin Defined
    <2>1. /\ nodesOffsets' = nodesOffsets /\ next' = next + 1 /\ prog' = prog /\ phase' = phase
          /\ needSort' = needSort
      BY <1>3 DEF FirstPassLabel, passVars
    <2>2. KeptMap(nodesOffsets, next + 1)
      <3>1. \A k \in DOMAIN prog : k < next + 1 <=> k < next \/ k = next
        BY <1>1, AtNext
      <3>2. Made(ToSet(nodesOffsets), next)
        BY <1>1 DEF Made
      <3> QED
        BY <3>1, <3>2 DEF Kept, KeptMap, MadeBefore
    <2> QED
      BY <1>1, <2>1, <2>2, FixPrimed DEF Kept
  <1> QED
    BY <1>2, <1>3

LEMMA FixBeginStep == IInv /\ Kept /\ BeginSecondPass => Kept' /\ Quiet' /\ Out'
  <1> SUFFICES ASSUME IInv, Kept, BeginSecondPass PROVE Kept' /\ Quiet' /\ Out'
    OBVIOUS
  <1>1. /\ phase' = "second" /\ seen' = 0 /\ prog' = prog /\ next' = next
        /\ nodesOffsets' = nodesOffsets /\ needSort' = needSort
    BY DEF BeginSecondPass, firstVars, passVars, IInv, Position
  <1> QED
    BY <1>1, FixSameMap

LEMMA FixUnknownStep == IInv /\ Kept /\ UnknownKeyword => Kept' /\ Quiet' /\ Out'
  BY FixFail DEF UnknownKeyword

LEMMA FixNextPassStep == IInv /\ Kept /\ NextPass => Kept' /\ Quiet' /\ Out'
  <1> SUFFICES ASSUME IInv, Kept, NextPass PROVE Kept' /\ Quiet' /\ Out'
    OBVIOUS
  <1>1. /\ (phase' = "second" \/ phase' = "error") /\ seen' = 0 /\ prog' = prog /\ next' = next
        /\ nodesOffsets' = nodesOffsets /\ needSort' = needSort
    BY DEF NextPass, firstVars
  <1> QED
    BY <1>1, FixSameMap

-----------------------------------------------------------------------------
(* Visits that leave the layout.                                           *)

\* An entry takes the place of another of its node.
LEMMA MadeSame ==
  ASSUME NEW entries, IsFiniteSet(entries), NEW d \in entries, NEW y, y \notin entries \ {d},
         y.blob.node = d.blob.node, y.blob.ast = d.blob.ast, NEW n, MadeBefore(entries, n)
  PROVE  LET new == (entries \ {d}) \cup {y} IN
         MadeBefore(new, n) /\ (VanishedIn(entries) => VanishedIn(new))
  <1> DEFINE new == (entries \ {d}) \cup {y}
  <1>1. ASSUME NEW k
        PROVE  /\ Cardinality(Of(new, k)) = Cardinality(Of(entries, k))
               /\ \A f \in Of(new, k) : \E e \in Of(entries, k) : f.blob.ast = e.blob.ast
               /\ Of(entries, k) = {} => Of(new, k) = {}
    <2> DEFINE A == Of(entries, k)
               B == Of(new, k)
    <2>1. CASE k # d.blob.node
      <3>1. B = A
        BY <2>1 DEF Of
      <3> QED
        BY <3>1
    <2>2. CASE k = d.blob.node
      <3>1. d \in A /\ B = (A \ {d}) \cup {y} /\ y \notin A \ {d}
        BY <2>2 DEF Of
      <3>2. IsFiniteSet(A)
        BY OfFinite
      <3> HIDE DEF A, B
      <3>3. /\ IsFiniteSet(A \ {d}) /\ Cardinality(A \ {d}) = Cardinality(A) - 1
            /\ Cardinality(A) \in Nat
        BY <3>1, <3>2, FS_RemoveElement, FS_CardinalityType
      <3> DEFINE C == A \ {d}
      <3>4. IsFiniteSet(C) /\ Cardinality(C) = Cardinality(A) - 1 /\ y \notin C /\ B = C \cup {y}
        BY <3>1, <3>3
      <3> HIDE DEF C
      <3>5. Cardinality(C \cup {y}) = Cardinality(C) + 1
        BY <3>4, FS_AddElement
      <3>6. Cardinality(B) = Cardinality(A)
        BY <3>3, <3>4, <3>5
      <3>7. \A f \in B : \E e \in A : f.blob.ast = e.blob.ast
        BY <3>1
      <3> QED
        BY <3>1, <3>6, <3>7 DEF A, B
    <2> QED
      BY <2>1, <2>2
  <1> HIDE DEF new
  <1>2. MadeBefore(new, n)
    <2> SUFFICES ASSUME NEW k \in DOMAIN prog, k < n PROVE Made(new, k)
      BY DEF MadeBefore
    <2>1. Made(entries, k)
      BY DEF MadeBefore
    <2>2. /\ Cardinality(Of(new, k)) = Cardinality(Of(entries, k))
          /\ \A f \in Of(new, k) : \E e \in Of(entries, k) : f.blob.ast = e.blob.ast
      BY <1>1
    <2> QED
      BY <2>1, <2>2 DEF Made
  <1>3. VanishedIn(entries) => VanishedIn(new)
    BY <1>1 DEF VanishedIn
  <1> QED
    BY <1>2, <1>3 DEF new

\* At most the value of the i-th entry of a map is another one, in y.
Revalued(map, m, i, y) ==
  /\ InPlace(map, m, map[i], y) /\ y \notin ToSet(map) \ {map[i]} /\ y \in MapEntries
  /\ i \in DOMAIN map /\ m[i] = y /\ \A j \in DOMAIN map : j # i => m[j] = map[j]
  /\ y.at = map[i].at /\ y.blob.node = map[i].blob.node /\ y.blob.ast = map[i].blob.ast
  /\ y.blob.size = map[i].blob.size /\ y.blob.slaves = map[i].blob.slaves

LEMMA SameValue ==
  ASSUME NEW map \in Seq(MapEntries), IsOnce(map), NEW i \in DOMAIN map
  PROVE  Revalued(map, map, i, map[i])
  <1>1. map[i] \in ToSet(map) /\ map[i] \in MapEntries
    BY InMap
  <1> DEFINE d == map[i]
  <1>2. InPlace(map, map, d, d)
    <2>1. d \in ToSet(map)
      BY <1>1
    <2> HIDE DEF d
    <2> QED
      BY <2>1 DEF InPlace
  <1> QED
    BY <1>1, <1>2 DEF Revalued

\* An entry of a map gets a value.
LEMMA ValueInPlace ==
  ASSUME NEW map \in Seq(MapEntries), IsOnce(map),
         \A d, e \in ToSet(map) : d.at = e.at => d = e,
         NEW i \in DOMAIN map, NEW v \in Int
  PROVE  LET m == [map EXCEPT ![i].blob.val = v] IN
         Revalued(map, m, i, m[i]) /\ m[i].blob.val = v
  <1> DEFINE d == map[i]
             y == [d EXCEPT !.blob.val = v]
             m == [map EXCEPT ![i].blob.val = v]
  <1>1. d \in MapEntries /\ d \in ToSet(map)
    BY InMap
  <1>2. /\ y \in MapEntries /\ y.at = d.at /\ y.blob.node = d.blob.node
        /\ y.blob.ast = d.blob.ast /\ y.blob.size = d.blob.size
        /\ y.blob.slaves = d.blob.slaves /\ y.blob.val = v
    <2> HIDE DEF d
    <2> QED
      BY <1>1 DEF MapEntries, Blobs
  <1>3. m = [map EXCEPT ![i] = y]
    OBVIOUS
  <1> HIDE DEF y, m
  <1>4. /\ DOMAIN m = DOMAIN map /\ m[i] = y /\ \A j \in DOMAIN map : j # i => m[j] = map[j]
        /\ m \in Seq(MapEntries)
    BY <1>2, <1>3
  <1>5. \A j \in DOMAIN map : m[j].at = map[j].at
    BY <1>2, <1>4
  <1>6. \A j \in DOMAIN map : map[j].at = d.at => j = i
    BY InMap DEF IsOnce
  <1>7. y \notin ToSet(map) \ {d}
    <2>1. ASSUME NEW e \in ToSet(map), e = y PROVE e = d
      BY <1>1, <1>2, <2>1
    <2> QED
      BY <2>1
  <1>8. IsOnce(m)
    <2> SUFFICES ASSUME NEW j \in DOMAIN map, NEW k \in DOMAIN map, m[j] = m[k] PROVE j = k
      BY <1>4 DEF IsOnce
    <2>1. map[j].at = map[k].at
      BY <1>5
    <2>2. map[j] = map[k]
      BY <2>1, InMap
    <2> QED
      BY <2>2 DEF IsOnce
  <1>9. ToSet(m) = (ToSet(map) \ {d}) \cup {y}
    <2>1. \A j \in DOMAIN map : j # i => map[j] # d
      BY DEF IsOnce
    <2> QED
      BY <1>4, <2>1 DEF ToSet
  <1>10. InPlace(map, m, d, y)
    BY <1>4, <1>5, <1>8, <1>9 DEF InPlace
  <1>11. Revalued(map, m, i, m[i]) /\ m[i].blob.val = v
    BY <1>2, <1>4, <1>7, <1>10 DEF Revalued
  <1> QED
    BY <1>11 DEF m

\* When a visit changes no EQU, those at its entry have their values.
LEMMA VisitSettles ==
  ASSUME IInv, Kept, NEW kind, Visit(kind)
  PROVE  LET names == EqusAt(Current.blob) IN
         ~EquChanged(PassEqus(names), names)
           => PassEqus(names) = equ /\ \A x \in ToSet(names) : EquSettled(x)
  <1> DEFINE b == Current.blob
             names == EqusAt(b)
  <1>1. Visiting /\ RefsOf(b) \subseteq Defined \cup {NoRef}
    BY DEF Visit
  <1>2. /\ prog \in Programs /\ b \in Blobs /\ Named(b, DOMAIN equ)
        /\ Current \in Entries /\ \A l \in DOMAIN labels : labels[l] \in Nat
    BY <1>1, VisitFacts DEF Owned
  <1>3. EqusGood(equ, Len(prog) + 1)
    BY <1>1, VisitFacts DEF IInv
  <1>4. IsOnce(names)
    BY <1>2 DEF Kept, KeptMap, Entries
  <1> HIDE DEF b
  <1>5. \A x \in ToSet(names) : EquAst(x).ref \in Defined \cup {NoRef}
    BY <1>1 DEF RefsOf
  <1>6. names \in Seq(Names) /\ ToSet(names) \subseteq DOMAIN equ
    BY <1>2, NamedFacts DEF Named
  <1> HIDE DEF names
  <1>7. ASSUME ~EquChanged(PassEqus(names), names)
        PROVE  PassEqus(names) = equ /\ \A x \in ToSet(names) : EquSettled(x)
    BY <1>2, <1>3, <1>4, <1>5, <1>6, <1>7, UnchangedTable
  <1> QED
    BY <1>7 DEF names, b

\* One entry further.
LEMMA FirstMore ==
  ASSUME NEW map, NEW m, NEW i \in Nat, \A j \in DOMAIN map : j # i + 1 => m[j] = map[j],
         1 .. i + 1 \subseteq DOMAIN map
  PROVE  First(m, i + 1) = First(map, i) \cup {m[i + 1]}
  <1>1. \A j : j \in 1 .. i + 1 <=> (j \in 1 .. i \/ j = i + 1)
    OBVIOUS
  <1>2. \A j \in 1 .. i : j \in DOMAIN map /\ j # i + 1
    OBVIOUS
  <1>3. \A j \in 1 .. i : m[j] = map[j]
    BY <1>2
  <1> QED
    BY <1>1, <1>3 DEF First

LEMMA FirstNext ==
  ASSUME NEW map, NEW i \in Nat, NEW n \in Nat, DOMAIN map = 1 .. n, i + 1 \in 1 .. n
  PROVE  First(map, i + 1) = First(map, i) \cup {map[i + 1]}
  <1>1. 1 .. i + 1 \subseteq DOMAIN map
    OBVIOUS
  <1>2. \A j \in DOMAIN map : j # i + 1 => map[j] = map[j]
    OBVIOUS
  <1> QED
    BY <1>1, <1>2, FirstMore

\* A visit that leaves the layout, at an entry that keeps the pass calm.
LEMMA FixVisit ==
  ASSUME IInv, Kept, Quiet, NEW kind, kind # "TIMES", Visit(kind), SameLayout,
         equ' = PassEqus(EqusAt(Current.blob)),
         needPass' = (needPass \/ EquChanged(equ', EqusAt(Current.blob))),
         NEW y, Revalued(nodesOffsets, nodesOffsets', seen + 1, y),
         equ' = equ => IsSettled(y)
  PROVE  Kept' /\ Quiet' /\ Out'
  <1> DEFINE names == EqusAt(Current.blob)
             E     == ToSet(nodesOffsets)
             E2    == ToSet(nodesOffsets')
  <1>1. /\ Visiting /\ Current.blob.ast.kind = kind
        /\ phase = "second" /\ Current = nodesOffsets[seen + 1] /\ Current \in E
        /\ nodesOffsets \in Seq(MapEntries) /\ IsOnce(nodesOffsets)
        /\ seen + 1 \in 0 .. Len(nodesOffsets)
    <2>1. Visiting /\ Current.blob.ast.kind = kind
      BY DEF Visit
    <2> QED
      BY <2>1, VisitFacts DEF Entries
  <1>2. /\ prog' = prog /\ phase' = phase /\ next' = next /\ labels' = labels
        /\ needSort' = needSort /\ seen' = seen + 1
    BY DEF SameLayout, firstVars
  <1>3. /\ E2 = (E \ {Current}) \cup {y} /\ y \notin E \ {Current} /\ y \in MapEntries
        /\ DOMAIN nodesOffsets' = DOMAIN nodesOffsets
        /\ \A j \in DOMAIN nodesOffsets : nodesOffsets'[j].at = nodesOffsets[j].at
        /\ nodesOffsets'[seen + 1] = y
        /\ \A j \in DOMAIN nodesOffsets : j # seen + 1 => nodesOffsets'[j] = nodesOffsets[j]
        /\ y.blob.node = Current.blob.node /\ y.blob.ast = Current.blob.ast
        /\ y.blob.slaves = Current.blob.slaves
    BY <1>1 DEF Revalued, InPlace
  <1>4. EqusAt(y.blob) = names
    BY <1>3 DEF EqusAt
  <1> HIDE DEF names
  <1>5. MadeBefore(E2, next) /\ (VanishedIn(E) => VanishedIn(E2))
    <2>1. IsFiniteSet(E) /\ MadeBefore(E, next)
      BY <1>1, OnceCounts DEF Kept, KeptMap
    <2> HIDE DEF E, E2
    <2>2. LET new == (E \ {Current}) \cup {y} IN
          MadeBefore(new, next) /\ (VanishedIn(E) => VanishedIn(new))
      BY <1>1, <1>3, <2>1, MadeSame
    <2> QED
      BY <1>3, <2>2
  <1>6. \A e \in E2 : IsOnce(EqusAt(e.blob))
    <2>1. \A e \in E : IsOnce(EqusAt(e.blob))
      BY DEF Kept, KeptMap
    <2> HIDE DEF E, E2
    <2> QED
      BY <1>1, <1>3, <1>4, <2>1 DEF names
  <1>7. ~needSort' => IsAscending(nodesOffsets')
    BY <1>1, <1>2, <1>3, SetOrder DEF Kept
  <1>8. KeptMap(nodesOffsets', next')
    BY <1>2, <1>5, <1>6 DEF KeptMap
  <1>9. ASSUME ~needPass'
        PROVE  Calm(First(nodesOffsets', seen'), E2, Steady')
    <2>1. ~needPass /\ ~EquChanged(equ', names)
      BY <1>9 DEF names
    <2>2. equ' = equ /\ \A x \in ToSet(names) : EquSettled(x)
      <3>1. equ' = PassEqus(names)
        BY DEF names
      <3>2. ~EquChanged(PassEqus(names), names)
        BY <2>1, <3>1
      <3> QED
        BY <3>1, <3>2, VisitSettles DEF names
    <2>3. Steady' = Steady
      BY <1>2, <2>2, SteadyStays
    <2>4. y \in Steady
      BY <1>3, <1>4, <2>2 DEF Steady
    <2>5. Calm(First(nodesOffsets, seen), E, Steady)
      BY <1>1, <2>1 DEF Quiet, Entries
    <2>6. First(nodesOffsets', seen') = First(nodesOffsets, seen) \cup {y}
      <3> DEFINE m == nodesOffsets'
      <3>1. seen \in Nat /\ 1 .. seen + 1 \subseteq DOMAIN nodesOffsets
        <4>1. DOMAIN nodesOffsets = 1 .. Len(nodesOffsets) /\ Len(nodesOffsets) \in Nat
          BY <1>1
        <4>2. seen \in 0 .. Len(nodesOffsets)
          BY <1>1 DEF IInv, Position
        <4> QED
          BY <1>1, <4>1, <4>2
      <3>2. \A j \in DOMAIN nodesOffsets : j # seen + 1 => m[j] = nodesOffsets[j]
        BY <1>3
      <3> HIDE DEF m
      <3>3. First(m, seen + 1) = First(nodesOffsets, seen) \cup {m[seen + 1]}
        BY <3>1, <3>2, FirstMore
      <3> QED
        BY <1>2, <1>3, <3>3 DEF m
    <2> HIDE DEF E, E2
    <2>7. y.blob.ast.kind # "TIMES"
      BY <1>1, <1>3
    <2> QED
      BY <1>5, <2>3, <2>4, <2>5, <2>6, <2>7 DEF Calm
  <1>10. phase' # "done"
    BY <1>1, <1>2
  <1> QED
    BY <1>2, <1>7, <1>8, <1>9, <1>10, FixPrimed

LEMMA FixVisitEquStep == IInv /\ Kept /\ Quiet /\ VisitEqu => Kept' /\ Quiet' /\ Out'
  <1> SUFFICES ASSUME IInv, Kept, Quiet, VisitEqu PROVE Kept' /\ Quiet' /\ Out'
    OBVIOUS
  <1>1. /\ Visit("EQU") /\ Visiting /\ equ' = PassEqus(EqusAt(Current.blob))
        /\ needPass' = (needPass \/ EquChanged(equ', EqusAt(Current.blob)))
        /\ nodesOffsets' = nodesOffsets /\ SameLayout /\ Current.blob.ast.kind = "EQU"
    BY DEF VisitEqu, Visit
  <1>2. Revalued(nodesOffsets, nodesOffsets', seen + 1, Current)
    <2> DEFINE i == seen + 1
    <2>1. i \in DOMAIN nodesOffsets /\ Current = nodesOffsets[i]
          /\ nodesOffsets \in Seq(MapEntries) /\ IsOnce(nodesOffsets)
      BY <1>1, VisitFacts
    <2> HIDE DEF i
    <2>2. Revalued(nodesOffsets, nodesOffsets, i, Current)
      BY <2>1, SameValue
    <2> QED
      BY <1>1, <2>2 DEF i
  <1>3. IsSettled(Current)
    BY <1>1 DEF IsSettled
  <1> QED
    BY <1>1, <1>2, <1>3, FixVisit

\* Only an EQU has more EQUs to evaluate than its slaves.
LEMMA SlavesOnly ==
  ASSUME NEW b, b.ast.kind # "EQU"
  PROVE  EqusAt(b) = b.slaves
  BY DEF EqusAt

LEMMA FixDefinitionStep == IInv /\ Kept /\ Quiet /\ VisitDefinition => Kept' /\ Quiet' /\ Out'
  <1> SUFFICES ASSUME IInv, Kept, Quiet, VisitDefinition PROVE Kept' /\ Quiet' /\ Out'
    OBVIOUS
  <1> DEFINE b == Current.blob
             v == IF b.ast.ref = NoRef THEN 0 ELSE Resolve(equ', b.ast.ref)
             i == seen + 1
  <1>1. /\ Visit("DEFINE") /\ Visiting /\ equ' = PassEqus(b.slaves) /\ SameLayout
        /\ needPass' = (needPass \/ EquChanged(equ', b.slaves)) /\ b.ast.kind = "DEFINE"
    BY DEF VisitDefinition, Visit
  <1>2. equ' \in Tables(equ) /\ b.ast.ref \in Defined \cup {NoRef}
    BY <1>1, VisitPass
  <1>3. v \in Int
    <2>1. CASE b.ast.ref \in Defined
      <3>1. \A l \in DOMAIN labels : labels[l] \in Nat
        BY <1>1, VisitFacts
      <3>2. Resolve(equ', b.ast.ref) \in Int
        BY <1>2, <2>1, <3>1, Resolved
      <3> QED
        BY <3>2
    <2> QED
      BY <1>2, <2>1
  <1>4. \/ nodesOffsets' = nodesOffsets
        \/ nodesOffsets' = [nodesOffsets EXCEPT ![i].blob.val = v]
    BY DEF VisitDefinition
  <1>5. EqusAt(b) = b.slaves
    BY <1>1, SlavesOnly
  <1> HIDE DEF v, i
  <1>6. /\ i \in DOMAIN nodesOffsets /\ Current = nodesOffsets[i]
        /\ nodesOffsets \in Seq(MapEntries) /\ IsOnce(nodesOffsets)
        /\ \A d, e \in ToSet(nodesOffsets) : d.at = e.at => d = e
    BY <1>1, VisitFacts DEF i, Layout, Entries
  <1>7. \E y : Revalued(nodesOffsets, nodesOffsets', i, y)
    <2>1. CASE nodesOffsets' = nodesOffsets
      <3>1. Revalued(nodesOffsets, nodesOffsets, i, Current)
        BY <1>6, SameValue
      <3> QED
        BY <2>1, <3>1
    <2>2. CASE nodesOffsets' = [nodesOffsets EXCEPT ![i].blob.val = v]
      <3> DEFINE m == [nodesOffsets EXCEPT ![i].blob.val = v]
      <3>1. Revalued(nodesOffsets, m, i, m[i])
        BY <1>3, <1>6, ValueInPlace
      <3> HIDE DEF m
      <3>2. nodesOffsets' = m
        BY <2>2 DEF m
      <3> QED
        BY <3>1, <3>2
    <2> QED
      BY <1>4, <2>1, <2>2
  <1>8. PICK y : Revalued(nodesOffsets, nodesOffsets', i, y)
    BY <1>7
  <1>9. IsSettled(y)
    <2>1. y.blob.ast.kind = "DEFINE"
      BY <1>1, <1>6, <1>8 DEF Revalued
    <2> QED
      BY <2>1 DEF IsSettled
  <1>10. Revalued(nodesOffsets, nodesOffsets', seen + 1, y)
    BY <1>8 DEF i
  <1> HIDE DEF b
  <1>11. /\ equ' = PassEqus(EqusAt(Current.blob))
         /\ needPass' = (needPass \/ EquChanged(equ', EqusAt(Current.blob)))
    BY <1>1, <1>5 DEF b
  <1> QED
    BY <1>1, <1>9, <1>10, <1>11, FixVisit

-----------------------------------------------------------------------------
(* Visits that resize.                                                     *)

\* What is behind x can move up to the end of what takes its place.
LEMMA ResizedRoom ==
  ASSUME NEW map \in Seq(MapEntries), Layout(ToSet(map)), NEW x \in ToSet(map),
         NEW m \in Seq(MapEntries), \A e \in ToSet(m) : e.at > x.at => e \in ToSet(map),
         NEW d \in Int, d + x.blob.size >= 0,
         d + x.blob.size > 0 \/ \A f \in ToSet(m) : f.at # x.at
  PROVE  \A e \in ToSet(m) : e.at > x.at =>
           /\ e.at + d \in Nat
           /\ \A f \in ToSet(m) : f.at <= x.at => f.at < e.at + d
  <1>1. /\ x \in MapEntries /\ x.at \in Nat /\ x.blob.size \in Nat
        /\ Ends(x) = x.at + x.blob.size
    BY InMap, Numbers
  <1> SUFFICES ASSUME NEW e \in ToSet(m), e.at > x.at
               PROVE  /\ e.at + d \in Nat
                      /\ \A f \in ToSet(m) : f.at <= x.at => f.at < e.at + d
    OBVIOUS
  <1>2. e \in ToSet(map) /\ e.at \in Nat
    BY InMap, Numbers
  <1>3. Ends(x) <= e.at
    BY <1>2 DEF Layout, Tiled
  <1>4. e.at + d \in Nat /\ e.at + d >= x.at
    BY <1>1, <1>2, <1>3
  <1>5. ASSUME NEW f \in ToSet(m), f.at <= x.at PROVE f.at < e.at + d
    <2>1. f.at \in Nat
      BY InMap, Numbers
    <2>2. d + x.blob.size > 0 => e.at + d > x.at
      BY <1>1, <1>2, <1>3
    <2> QED
      BY <1>1, <1>4, <1>5, <2>1, <2>2
  <1> QED
    BY <1>4, <1>5

\* The order of the entries when one is set again in another size.
LEMMA ResizedEntryOrder ==
  ASSUME NEW map \in Seq(MapEntries), IsOnce(map), Layout(ToSet(map)), IsAscending(map),
         NEW i \in DOMAIN map, NEW x, x = map[i],
         NEW blob \in Blobs, blob.size > 0
  PROVE  IsAscending(Resized(MapSet(map, x.at, blob), x.at, blob.size - x.blob.size))
  <1> DEFINE m   == MapSet(map, x.at, blob)
             d   == blob.size - x.blob.size
             new == [at |-> x.at, blob |-> blob]
             addr == x.at
  <1>1. /\ x \in ToSet(map) /\ x \in MapEntries /\ addr \in Nat /\ x.blob.size \in Nat
        /\ blob.size \in Nat
    BY InMap, Numbers DEF Blobs
  <1>2. InPlace(map, m, x, new)
    <2>1. \A c, e \in ToSet(map) : c.at = e.at => c = e
      BY DEF Layout
    <2>2. new = [at |-> x.at, blob |-> blob]
      OBVIOUS
    <2> HIDE DEF new
    <2> QED
      BY <2>1, <2>2, SetInPlace
  <1>3. new.at = addr
    OBVIOUS
  <1> HIDE DEF m, new
  <1>4. /\ m \in Seq(MapEntries) /\ IsOnce(m) /\ IsAscending(m)
        /\ ToSet(m) = (ToSet(map) \ {x}) \cup {new}
    BY <1>2, SetOrder DEF InPlace
  <1>5. \A e \in ToSet(m) : e.at > x.at => e \in ToSet(map)
    <2>1. ~(new.at > x.at)
      BY <1>1, <1>3
    <2> QED
      BY <1>4, <2>1
  <1>6. d \in Int /\ d + x.blob.size > 0 /\ d + x.blob.size >= 0
    BY <1>1
  <1> HIDE DEF d
  <1>7. \A e \in ToSet(m) : e.at > x.at =>
           /\ e.at + d \in Nat
           /\ \A f \in ToSet(m) : f.at <= x.at => f.at < e.at + d
    BY <1>1, <1>4, <1>5, <1>6, ResizedRoom
  <1>8. \A e \in ToSet(m) : e.at > addr =>
           /\ e.at + d \in Nat
           /\ \A f \in ToSet(m) : f.at <= addr => f.at < e.at + d
    BY <1>7
  <1> HIDE DEF addr
  <1>9. IsAscending(Resized(m, addr, d))
    BY <1>1, <1>4, <1>6, <1>8, ResizedOrder
  <1> QED
    BY <1>9 DEF m, d, addr

\* The node of a resized instruction has one entry, as before.
LEMMA ResizedMade ==
  ASSUME prog \in Programs, NEW entries, Layout(entries), IsFiniteSet(entries),
         NEW x \in entries, x.blob.size > 0, NEW y, y.blob.ast = x.blob.ast,
         NEW size \in Nat, Fills({y}, x, size), NEW n, MadeBefore(entries, n)
  PROVE  MadeBefore(Replaced(entries, x, {y}, size), n)
  <1> DEFINE new == Replaced(entries, x, {y}, size)
  <1>1. ASSUME NEW k
        PROVE  /\ Cardinality(Of(new, k)) = Cardinality(Of(entries, k))
               /\ \A f \in Of(new, k) : \E e \in Of(entries, k) : f.blob.ast = e.blob.ast
    <2> DEFINE c == {y}
               r == Replaced(entries, x, c, size)
    <2>0. r = new
      OBVIOUS
    <2>3. Fills(c, x, size)
      OBVIOUS
    <2>4. y \in c /\ \A e \in c : e = y
      OBVIOUS
    <2> HIDE DEF c
    <2>1. CASE k = x.blob.node
      <3>1. /\ Cardinality(Of(r, k)) = Cardinality(Of(entries, k))
            /\ \A f \in Of(r, k) : f = y \/ \E e \in Of(entries, k) : f.blob = e.blob
        BY <2>1, <2>3, <2>4, OfOne
      <3>2. x \in Of(entries, k)
        BY <2>1 DEF Of
      <3> HIDE DEF new, r
      <3> QED
        BY <2>0, <3>1, <3>2
    <2>2. CASE k # x.blob.node
      <3>1. /\ Cardinality(Of(r, k)) = Cardinality(Of(entries, k))
            /\ \A f \in Of(r, k) : \E e \in Of(entries, k) : f.blob = e.blob
        BY <2>2, <2>3, OfOthers
      <3> HIDE DEF new, r
      <3> QED
        BY <2>0, <3>1
    <2> QED
      BY <2>1, <2>2
  <1> HIDE DEF new
  <1>2. ASSUME NEW k \in DOMAIN prog, k < n PROVE Made(new, k)
    <2>1. Made(entries, k)
      BY <1>2 DEF MadeBefore
    <2>2. /\ Cardinality(Of(new, k)) = Cardinality(Of(entries, k))
          /\ \A f \in Of(new, k) : \E e \in Of(entries, k) : f.blob.ast = e.blob.ast
      BY <1>1
    <2> QED
      BY <2>1, <2>2 DEF Made
  <1>3. MadeBefore(new, n)
    BY <1>2 DEF MadeBefore
  <1> QED
    BY <1>3 DEF new

LEMMA FixInstructionStep == IInv /\ Kept /\ Quiet /\ VisitInstruction => Kept' /\ Quiet' /\ Out'
  <1> SUFFICES ASSUME IInv, Kept, Quiet, VisitInstruction PROVE Kept' /\ Quiet' /\ Out'
    OBVIOUS
  <1> DEFINE addr  == Current.at
             b     == Current.blob
             eqs   == PassEqus(b.slaves)
             val   == Resolve(eqs, b.ast.ref)
             sizes == SchemaSizes(b.ast.mn, val, addr)
             size  == Shortest(sizes)
             grow  == size - b.size
             blob  == [Blob(b.node, b.ast, size) EXCEPT !.val = val]
             m     == MapSet(nodesOffsets, addr, blob)
             r     == Resized(m, addr, grow)
             i     == seen + 1
  <1>1. Visit("INSTRUCTION") /\ Visiting /\ b.ast.kind = "INSTRUCTION"
    BY DEF VisitInstruction, Visit
  <1>2. /\ phase = "second" /\ next = Len(prog) + 1 /\ prog \in Programs
        /\ i \in DOMAIN nodesOffsets
        /\ nodesOffsets \in Seq(MapEntries) /\ IsOnce(nodesOffsets) /\ Layout(Entries)
        /\ Current = nodesOffsets[i] /\ Current \in Entries /\ Current \in MapEntries
        /\ addr \in Nat /\ b \in Blobs
        /\ b.ast \in Asts /\ b.size \in Nat /\ Sized(b)
        /\ \A l \in DOMAIN labels : labels[l] \in Nat
    BY <1>1, VisitFacts
  <1>3. eqs \in Tables(equ) /\ b.ast.ref \in Defined \cup {NoRef}
    BY <1>1, VisitPass
  <1>4. b.ast.mn # "fixed" => val \in Int
    <2>1. b.ast \in ByteNodes /\ (b.ast.mn # "fixed" => b.ast.ref # NoRef)
      BY <1>1, <1>2 DEF Asts, EquNodes, ByteNodes, TimesNodes
    <2> HIDE DEF eqs
    <2> QED
      BY <1>2, <1>3, <2>1, Resolved
  <1>5. b.size > 0 /\ EqusAt(b) = b.slaves
    BY <1>1, <1>2, SlavesOnly DEF Sized
  <1>6. \A d, e \in ToSet(nodesOffsets) : d.at = e.at => d = e
    BY <1>2 DEF Layout, Entries
  <1> HIDE DEF eqs, val
  <1>7. \/ /\ b.ast.mn = "fixed" /\ equ' = eqs /\ nodesOffsets' = nodesOffsets /\ SameLayout
           /\ needPass' = (needPass \/ EquChanged(eqs, b.slaves))
        \/ phase' = "error" /\ UNCHANGED <<prog, firstVars, labels, nodesOffsets, passVars, blobs>>
        \/ /\ b.ast.mn # "fixed" /\ sizes # {} /\ grow = 0 /\ equ' = eqs /\ SameLayout
           /\ nodesOffsets' = [nodesOffsets EXCEPT ![i].blob.val = val]
           /\ needPass' = (needPass \/ EquChanged(eqs, b.slaves))
        \/ /\ b.ast.mn # "fixed" /\ sizes # {} /\ needPass' = TRUE /\ nodesOffsets' = r
           /\ UNCHANGED <<prog, phase, error, firstVars, pass, needSort, blobs>>
    BY DEF VisitInstruction, eqs, val
  <1>8. sizes # {} => size \in {2, 3, 4}
    BY SchemasAreFew, ShortestFacts
  <1>9. eqs = PassEqus(EqusAt(b))
    BY <1>5 DEF eqs
  <1> HIDE DEF sizes, r, i
  <1>10. CASE /\ b.ast.mn = "fixed" /\ equ' = eqs /\ nodesOffsets' = nodesOffsets /\ SameLayout
              /\ needPass' = (needPass \/ EquChanged(eqs, b.slaves))
    <2>1. Revalued(nodesOffsets, nodesOffsets, i, Current)
      BY <1>2, SameValue
    <2>2. Revalued(nodesOffsets, nodesOffsets', seen + 1, Current)
      BY <1>10, <2>1 DEF i
    <2>3. IsSettled(Current)
      BY <1>10 DEF IsSettled
    <2>4. needPass' = (needPass \/ EquChanged(equ', EqusAt(b))) /\ equ' = PassEqus(EqusAt(b))
      BY <1>5, <1>9, <1>10
    <2> QED
      BY <1>1, <1>10, <2>2, <2>3, <2>4, FixVisit
  <1>11. CASE phase' = "error" /\ UNCHANGED <<prog, firstVars, labels, nodesOffsets, passVars, blobs>>
    BY <1>11, FixSameMap DEF firstVars, passVars
  <1>12. CASE /\ b.ast.mn # "fixed" /\ sizes # {} /\ grow = 0 /\ equ' = eqs /\ SameLayout
              /\ nodesOffsets' = [nodesOffsets EXCEPT ![i].blob.val = val]
              /\ needPass' = (needPass \/ EquChanged(eqs, b.slaves))
    <2> DEFINE w == [nodesOffsets EXCEPT ![i].blob.val = val]
               y == w[i]
    <2>1. Revalued(nodesOffsets, w, i, y) /\ y.blob.val = val
      BY <1>2, <1>4, <1>6, <1>12, ValueInPlace
    <2>2. nodesOffsets' = w
      BY <1>12
    <2> HIDE DEF w
    <2>3. Revalued(nodesOffsets, nodesOffsets', seen + 1, y)
      BY <2>1, <2>2 DEF i
    <2>4. y.at = addr /\ y.blob.ast = b.ast /\ y.blob.size = b.size /\ y.blob.val = val
      BY <1>2, <2>1 DEF Revalued
    <2>5. size = b.size
      <3>1. size \in Int
        BY <1>8, <1>12
      <3> HIDE DEF size
      <3> QED
        BY <1>2, <1>12, <3>1
    <2> HIDE DEF y
    <2>6. equ' = equ => IsSettled(y)
      <3> SUFFICES ASSUME equ' = equ PROVE IsSettled(y)
        OBVIOUS
      <3>1. val = Resolve(equ, b.ast.ref)
        BY <1>12 DEF val
      <3> QED
        BY <2>4, <2>5, <3>1 DEF IsSettled, sizes
    <2>7. needPass' = (needPass \/ EquChanged(equ', EqusAt(b))) /\ equ' = PassEqus(EqusAt(b))
      BY <1>5, <1>9, <1>12
    <2> QED
      BY <1>1, <1>12, <2>3, <2>6, <2>7, FixVisit
  <1>13. CASE /\ b.ast.mn # "fixed" /\ sizes # {} /\ needPass' = TRUE /\ nodesOffsets' = r
              /\ UNCHANGED <<prog, phase, error, firstVars, pass, needSort, blobs>>
    <2> DEFINE new == [at |-> addr, blob |-> blob]
               c   == {new}
               E   == ToSet(nodesOffsets)
    <2>1. size \in Nat /\ size > 0 /\ val \in Int
      BY <1>4, <1>8, <1>13
    <2> HIDE DEF size
    <2>2. /\ blob \in Blobs /\ blob.node = b.node /\ blob.size = size /\ blob.slaves = << >>
          /\ blob.ast = b.ast
      <3>1. b.node \in Nat
        BY <1>2 DEF Blobs
      <3> QED
        BY <1>2, <2>1, <3>1, ValuedBlob
    <2>3. EqusAt(blob) = << >> /\ Sized(blob)
      BY <1>1, <2>1, <2>2 DEF EqusAt, Sized
    <2> HIDE DEF blob
    <2>4. /\ r \in Seq(MapEntries) /\ IsOnce(r)
          /\ ToSet(r) = Replaced(E, Current, c, size)
          /\ Fills(c, Current, size)
      BY <1>2, <1>5, <2>1, <2>2, <2>3, ResizedEntry DEF Entries, r, grow
    <2>5. IsAscending(nodesOffsets) => IsAscending(r)
      <3>1. IsAscending(nodesOffsets) => IsAscending(Resized(m, addr, blob.size - b.size))
        BY <1>2, <2>1, <2>2, ResizedEntryOrder DEF Entries
      <3> QED
        BY <2>2, <3>1 DEF r, grow
    <2>6. MadeBefore(Replaced(E, Current, {new}, size), next)
      <3>1. IsFiniteSet(E) /\ MadeBefore(E, next)
        BY <1>2, OnceCounts DEF Kept, KeptMap
      <3>2. new.blob.ast = Current.blob.ast
        BY <2>2
      <3>3. Layout(E) /\ Current \in E /\ Current.blob.size > 0
        BY <1>2, <1>5 DEF Entries
      <3>4. Fills({new}, Current, size)
        BY <2>4
      <3> HIDE DEF new, E, b
      <3> QED
        BY <1>2, <2>1, <3>1, <3>2, <3>3, <3>4, ResizedMade
    <2>7. \A e \in ToSet(r) : IsOnce(EqusAt(e.blob))
      <3>1. IsOnce(EqusAt(new.blob))
        BY <2>3 DEF IsOnce
      <3>2. \A e \in E : IsOnce(EqusAt(e.blob))
        BY DEF Kept, KeptMap
      <3>3. Regions(E, Current, c, size)
        BY <1>2, <1>5, <2>1, <2>4, RegionsHold DEF Entries
      <3>4. \A e \in Behind(E, addr) : Shifted(e, size - b.size).blob = e.blob /\ e \in E
        BY <3>3 DEF Regions
      <3>5. \A e \in Below(E, addr) : e \in E
        BY DEF Below
      <3> HIDE DEF new, E
      <3> QED
        BY <2>4, <3>1, <3>2, <3>4, <3>5 DEF Replaced
    <2>8. KeptMap(nodesOffsets', next')
      BY <1>13, <2>4, <2>6, <2>7 DEF KeptMap, firstVars
    <2>9. ~needSort' => IsAscending(nodesOffsets')
      BY <1>13, <2>5 DEF Kept
    <2>10. prog' = prog /\ phase' # "done" /\ needPass'
      BY <1>2, <1>13
    <2> QED
      BY <2>8, <2>9, <2>10, FixPrimed
  <1> QED
    BY <1>7, <1>10, <1>11, <1>12, <1>13

\* The node of an expanded TIMES has the entries that took its place.
LEMMA TimesMade ==
  ASSUME prog \in Programs, NEW entries, Layout(entries), IsFiniteSet(entries),
         NEW x \in entries, x.blob.size > 0, x.blob.ast.kind = "TIMES",
         NEW p, Owned(x.blob, p, DOMAIN equ), MadeBefore(entries, p),
         NEW c, NEW n \in Nat, Fills(c, x, n), \A e \in c : e.blob.ast = x.blob.ast.body,
         ~x.blob.ast.pad => Cardinality(c) = x.blob.ast.count
  PROVE  /\ MadeBefore(Replaced(entries, x, c, n), p)
         /\ c = {} => VanishedIn(Replaced(entries, x, c, n))
  <1> DEFINE new == Replaced(entries, x, c, n)
             k   == x.blob.node
  <1>1. k \in DOMAIN prog /\ k < p /\ prog[k].kind # "LABEL"
    BY DEF Owned
  <1>2. prog[k].kind = "TIMES" /\ x.blob.ast = prog[k] /\ Cardinality(Of(entries, k)) = 1
    BY <1>1, KindFacts DEF MadeBefore
  <1>3. Of(entries, k) = {x}
    <2>1. IsFiniteSet(Of(entries, k))
      BY OfFinite
    <2>2. x \in Of(entries, k)
      BY DEF Of
    <2> DEFINE A == Of(entries, k)
    <2> HIDE DEF A
    <2>3. \E e : A = {e}
      BY <1>2, <2>1, FS_Singleton DEF A
    <2> QED
      BY <2>2, <2>3 DEF A
  <1>4. Of(new, k) = c
    BY <1>3, OfMany
  <1>5. Made(new, k)
    BY <1>2, <1>4 DEF Made
  <1>6. ASSUME NEW j \in DOMAIN prog, j < p, j # k PROVE Made(new, j)
    <2>1. Made(entries, j)
      BY <1>6 DEF MadeBefore
    <2>2. /\ Cardinality(Of(new, j)) = Cardinality(Of(entries, j))
          /\ \A f \in Of(new, j) : \E e \in Of(entries, j) : f.blob = e.blob
      BY <1>6, OfOthers
    <2> HIDE DEF new
    <2>3. \A f \in Of(new, j) : \E e \in Of(entries, j) : f.blob.ast = e.blob.ast
      BY <2>2
    <2> QED
      BY <2>1, <2>2, <2>3 DEF Made
  <1> HIDE DEF new, k
  <1>7. MadeBefore(new, p)
    BY <1>5, <1>6 DEF MadeBefore
  <1>8. c = {} => VanishedIn(new)
    BY <1>1, <1>2, <1>4 DEF VanishedIn
  <1> QED
    BY <1>7, <1>8 DEF new

\* When a TIMES is deleted, what the iterator has passed are the entries below
\* it that it had passed before.
\* What is left before the iterator when the entry x of one byte is deleted.
DeletedKeeps(map, i, x, d) ==
  LET rest == Only(map, {e \in ToSet(map) : e.at # x.at})
      room == Resized(rest, x.at, d) IN
  /\ IsAscending(map) => IsAscending(room)
  /\ First(room, SeenAfter(map, i, x.at, {x.at})) \subseteq First(map, i) \ {x}

LEMMA DeletedOrder ==
  ASSUME NEW map \in Seq(MapEntries), IsOnce(map), Layout(ToSet(map)),
         NEW i \in DOMAIN map, NEW x, x = map[i], x.blob.size = 1, NEW d, d = -1
  PROVE  DeletedKeeps(map, i, x, d)
  <1> DEFINE addr == x.at
             T    == {e \in ToSet(map) : e.at # x.at}
             rest == Only(map, T)
             room == Resized(rest, addr, d)
             P    == First(map, i)
             U    == Upto(ToSet(rest), addr)
  <1>1. x \in ToSet(map) /\ addr \in Nat /\ i \in 0 .. Len(map) /\ d \in Int
    <2>1. DOMAIN map = 1 .. Len(map) /\ Len(map) \in Nat
      OBVIOUS
    <2> QED
      BY <2>1, InMap, Numbers
  <1>2. /\ rest \in Seq(MapEntries) /\ IsOnce(rest) /\ ToSet(rest) = ToSet(map) \cap T
        /\ IsAscending(map) => IsAscending(rest)
        /\ Cardinality(P \cap T) \in 0 .. Len(rest)
        /\ First(rest, Cardinality(P \cap T)) = P \cap T
    <2> HIDE DEF T
    <2>1. rest \in Seq(MapEntries) /\ IsOnce(rest) /\ ToSet(rest) = ToSet(map) \cap T
      BY OnlyFacts
    <2>2. IsAscending(map) => IsAscending(rest)
      BY OnlyOrder
    <2>3. /\ Cardinality(P \cap T) \in 0 .. Len(rest)
          /\ First(rest, Cardinality(P \cap T)) = P \cap T
      BY <1>1, OnlyOrder
    <2> QED
      BY <2>1, <2>2, <2>3
  <1>3. ToSet(rest) = T
    BY <1>2
  <1> HIDE DEF rest
  <1>4. \A e \in ToSet(rest) : e.at > x.at =>
           /\ e.at + d \in Nat
           /\ \A f \in ToSet(rest) : f.at <= x.at => f.at < e.at + d
    <2>1. \A f \in ToSet(rest) : f.at # x.at /\ f \in ToSet(map)
      BY <1>3
    <2>2. d + x.blob.size >= 0
      OBVIOUS
    <2> QED
      BY <1>1, <1>2, <2>1, <2>2, ResizedRoom
  <1> DEFINE j == Cardinality(P \cap T)
  <1>5. /\ IsAscending(rest) => IsAscending(room)
        /\ First(room, Cardinality(First(rest, j) \cap U)) = First(rest, j) \cap U
    <2>1. \A e \in ToSet(rest) : e.at > addr =>
             /\ e.at + d \in Nat
             /\ \A f \in ToSet(rest) : f.at <= addr => f.at < e.at + d
      BY <1>4
    <2>2. j \in 0 .. Len(rest)
      BY <1>2
    <2> HIDE DEF addr, j
    <2>3. LET r == Resized(rest, addr, d)
              V == Upto(ToSet(rest), addr) IN
          /\ IsAscending(rest) => IsAscending(r)
          /\ \A k \in 0 .. Len(rest) :
               /\ Cardinality(First(rest, k) \cap V) \in 0 .. Len(r)
               /\ First(r, Cardinality(First(rest, k) \cap V)) = First(rest, k) \cap V
      BY <1>1, <1>2, <2>1, ResizedOrder
    <2> QED
      BY <2>2, <2>3
  <1>6. (P \cap T) \cap U = P \cap {e \in ToSet(map) : e.at <= addr /\ e.at \notin {addr}}
    BY <1>3 DEF Upto
  <1>7. SeenAfter(map, i, addr, {addr}) = Cardinality((P \cap T) \cap U)
    <2> DEFINE gone == {addr}
    <2>1. SeenAfter(map, i, addr, gone) =
            Cardinality(P \cap {e \in ToSet(map) : e.at <= addr /\ e.at \notin gone})
      <3> HIDE DEF gone
      <3> QED
        BY <1>1, SeenCounts
    <2> QED
      BY <1>6, <2>1
  <1>8. First(rest, j) = P \cap T
    BY <1>2
  <1> HIDE DEF room, P, U, j
  <1>9. First(room, SeenAfter(map, i, addr, {addr})) = (P \cap T) \cap U
    BY <1>5, <1>7, <1>8
  <1>10. x \notin T
    OBVIOUS
  <1> HIDE DEF T
  <1>11. First(room, SeenAfter(map, i, addr, {addr})) \subseteq P \ {x}
    BY <1>9, <1>10
  <1> QED
    BY <1>2, <1>5, <1>11 DEF room, rest, P, T, DeletedKeeps

LEMMA FixTimesStep == IInv /\ Kept /\ Quiet /\ VisitTimes => Kept' /\ Quiet' /\ Out'
  <1> SUFFICES ASSUME IInv, Kept, Quiet, VisitTimes PROVE Kept' /\ Quiet' /\ Out'
    OBVIOUS
  <1> DEFINE addr == Current.at
             b    == Current.blob
             n    == Repetitions(b.ast, addr)
             body == b.ast.body
             N    == n * body.size
             d    == N - 1
             i    == seen + 1
             E    == ToSet(nodesOffsets)
             rest == Only(nodesOffsets, {e \in E : e.at # addr})
             room == Resized(rest, addr, d)
             q    == CopiesOf(Current, body, n)
  <1>1. Visit("TIMES") /\ Visiting /\ b.ast.kind = "TIMES"
    BY DEF VisitTimes, Visit
  <1>2. /\ phase = "second" /\ next = Len(prog) + 1 /\ prog \in Programs
        /\ i \in DOMAIN nodesOffsets /\ seen \in Nat
        /\ nodesOffsets \in Seq(MapEntries) /\ IsOnce(nodesOffsets) /\ Layout(E)
        /\ Current = nodesOffsets[i] /\ Current \in E /\ Current \in MapEntries
        /\ addr \in Nat /\ b \in Blobs
        /\ b.ast \in Asts /\ b.size \in Nat /\ Sized(b) /\ Owned(b, next, DOMAIN equ)
    <2>1. seen \in Nat
      BY <1>1 DEF IInv, Position, Visiting
    <2> QED
      BY <1>1, <2>1, VisitFacts DEF Entries
  <1>3. b.size = 1
    BY <1>1, <1>2 DEF Sized
  <1>4. b.ast.count \in Int /\ body \in ByteNodes
    BY <1>1, <1>2 DEF Asts, EquNodes, ByteNodes, TimesNodes
  <1>5. n \in Int
    BY <1>2, <1>4, OriginIsNat DEF Repetitions
  <1>6. ~b.ast.pad => n = b.ast.count
    BY DEF Repetitions
  <1>7. /\ prog' = prog /\ next' = next
        /\ \/ phase' = "error" /\ nodesOffsets' = nodesOffsets /\ needSort' = needSort
           \/ /\ n >= 0 /\ phase' = phase
              /\ \/ /\ n = 0 /\ nodesOffsets' = room /\ needSort' = needSort
                    /\ seen' = SeenAfter(nodesOffsets, i, addr, {addr})
                    /\ ~needPass' => ~needPass
                 \/ n > 0 /\ nodesOffsets' = room \o q /\ needPass' /\ needSort'
    BY DEF VisitTimes, firstVars, passVars, CopiesOf
  <1> HIDE DEF n, i
  <1>8. CASE phase' = "error" /\ nodesOffsets' = nodesOffsets /\ needSort' = needSort
    BY <1>7, <1>8, FixSameMap
  <1>9. CASE /\ n >= 0 /\ phase' = phase
             /\ \/ /\ n = 0 /\ nodesOffsets' = room /\ needSort' = needSort
                   /\ seen' = SeenAfter(nodesOffsets, i, addr, {addr})
                   /\ ~needPass' => ~needPass
                \/ n > 0 /\ nodesOffsets' = room \o q /\ needPass' /\ needSort'
    <2>1. n \in Nat /\ (n = 0 \/ n > 0)
      BY <1>5, <1>9
    <2>2. /\ N \in Nat
          /\ n = 0 => Fills({}, Current, N) /\ ToSet(room) = Replaced(E, Current, {}, N)
          /\ n > 0 =>
               /\ Fills(ToSet(q), Current, N)
               /\ ToSet(room \o q) = Replaced(E, Current, ToSet(q), N)
               /\ \A e \in ToSet(q) : e.blob = Blob(b.node, body, body.size)
      <3>1. Expanded(nodesOffsets, i, Current, body, n)
        BY <1>2, <1>3, <1>4, <2>1, ExpandedEntry
      <3> QED
        BY <3>1, Zenon DEF Expanded
    <2>3. IsFiniteSet(E) /\ MadeBefore(E, next) /\ \A e \in E : IsOnce(EqusAt(e.blob))
      BY <1>2, OnceCounts DEF Kept, KeptMap
    <2>4. n = 0 => N = 0 /\ d = -1
      <3>1. body.size \in Nat
        BY <1>4 DEF ByteNodes
      <3> QED
        BY <3>1
    <2> HIDE DEF q, N, d
    \* What takes the place of the TIMES.
    <2>5. ASSUME NEW c, Fills(c, Current, N),
                 \A e \in c : e.blob = Blob(b.node, body, body.size),
                 ~b.ast.pad => Cardinality(c) = b.ast.count,
                 ToSet(nodesOffsets') = Replaced(E, Current, c, N)
          PROVE  /\ KeptMap(nodesOffsets', next')
                 /\ c = {} => VanishedIn(ToSet(nodesOffsets'))
      <3> DEFINE nb == Blob(b.node, body, body.size)
      <3>1. nb.slaves = << >> /\ nb.ast = body
        BY DEF Blob
      <3> HIDE DEF nb
      <3>2. IsOnce(EqusAt(nb))
        <4>1. body.kind # "EQU"
          BY <1>4 DEF ByteNodes
        <4> QED
          BY <3>1, <4>1 DEF EqusAt, IsOnce
      <3>3. \A e \in c : e.blob = nb
        BY <2>5 DEF nb
      <3>4. \A e \in c : e.blob.ast = b.ast.body
        BY <3>1, <3>3
      <3> HIDE DEF E
      <3>5. /\ MadeBefore(Replaced(E, Current, c, N), next)
            /\ c = {} => VanishedIn(Replaced(E, Current, c, N))
        BY <1>1, <1>2, <1>3, <2>2, <2>3, <2>5, <3>4, TimesMade
      <3>6. \A e \in Replaced(E, Current, c, N) : IsOnce(EqusAt(e.blob))
        <4>1. Regions(E, Current, c, N)
          BY <1>2, <1>3, <2>2, <2>5, RegionsHold
        <4>2. \A e \in Behind(E, addr) : Shifted(e, N - b.size).blob = e.blob /\ e \in E
          BY <4>1 DEF Regions
        <4>3. \A e \in Below(E, addr) : e \in E
          BY DEF Below
        <4> QED
          BY <2>3, <3>2, <3>3, <4>2, <4>3 DEF Replaced
      <3> QED
        BY <1>7, <2>5, <3>5, <3>6 DEF KeptMap
    <2>6. CASE /\ n > 0 /\ nodesOffsets' = room \o q /\ needPass' /\ needSort'
      <3>1. Cardinality(ToSet(q)) = n
        <4>1. q \in Seq(MapEntries) /\ IsOnce(q) /\ Len(q) = n
          <5>1. q \in Seq(MapEntries) /\ IsOnce(q)
            BY <1>2, <1>4, <2>1, <2>6, CopiesFacts DEF q
          <5>2. DOMAIN q = 1 .. n
            BY DEF q, CopiesOf
          <5> QED
            BY <2>1, <5>1, <5>2
        <4> QED
          BY <4>1, OnceCounts
      <3>2. ToSet(nodesOffsets') = Replaced(E, Current, ToSet(q), N)
        BY <2>2, <2>6
      <3>3. KeptMap(nodesOffsets', next')
        BY <1>6, <2>2, <2>5, <2>6, <3>1, <3>2
      <3> QED
        BY <1>2, <1>7, <1>9, <2>6, <3>3, FixPrimed
    <2>7. CASE /\ n = 0 /\ nodesOffsets' = room /\ needSort' = needSort
               /\ seen' = SeenAfter(nodesOffsets, i, addr, {addr})
               /\ ~needPass' => ~needPass
      <3>1. Cardinality({}) = 0
        BY FS_EmptySet
      <3>2. ToSet(nodesOffsets') = Replaced(E, Current, {}, N) /\ Fills({}, Current, N)
        BY <2>2, <2>7
      <3>3. KeptMap(nodesOffsets', next') /\ VanishedIn(ToSet(nodesOffsets'))
        <4> DEFINE c == {}
        <4>1. /\ Fills(c, Current, N) /\ ToSet(nodesOffsets') = Replaced(E, Current, c, N)
              /\ \A e \in c : e.blob = Blob(b.node, body, body.size)
              /\ ~b.ast.pad => Cardinality(c) = b.ast.count
          BY <1>6, <2>7, <3>1, <3>2
        <4>2. c = {}
          OBVIOUS
        <4> HIDE DEF c
        <4> QED
          BY <2>5, <4>1, <4>2
      <3>4. /\ IsAscending(nodesOffsets) => IsAscending(room)
            /\ First(room, SeenAfter(nodesOffsets, i, addr, {addr}))
                 \subseteq First(nodesOffsets, i) \ {Current}
        <4>1. d = -1
          BY <2>4, <2>7
        <4>2. DeletedKeeps(nodesOffsets, i, Current, d)
          BY <1>2, <1>3, <4>1, DeletedOrder
        <4> QED
          BY <4>2, Zenon DEF DeletedKeeps
      <3>5. First(nodesOffsets, i) \ {Current} \subseteq First(nodesOffsets, seen)
        <4>1. First(nodesOffsets, seen + 1) = First(nodesOffsets, seen) \cup {nodesOffsets[seen + 1]}
          <5>1. /\ DOMAIN nodesOffsets = 1 .. Len(nodesOffsets) /\ Len(nodesOffsets) \in Nat
                /\ seen + 1 \in DOMAIN nodesOffsets /\ seen \in Nat
            BY <1>2 DEF i
          <5> QED
            BY <5>1, FirstNext
        <4> QED
          BY <1>2, <4>1 DEF i
      <3> HIDE DEF room
      <3>6. First(nodesOffsets', seen') \subseteq First(nodesOffsets, seen)
        BY <2>7, <3>4, <3>5
      <3>7. ~needPass' => Calm(First(nodesOffsets', seen'), ToSet(nodesOffsets'), Steady')
        <4>1. ~needPass' => \A e \in First(nodesOffsets, seen) : e.blob.ast.kind # "TIMES"
          BY <1>2, <2>7 DEF Quiet, Calm
        <4> QED
          BY <3>3, <3>6, <4>1 DEF Calm
      <3>8. ~needSort' => IsAscending(nodesOffsets')
        BY <2>7, <3>4 DEF Kept
      <3> QED
        BY <1>2, <1>7, <1>9, <3>3, <3>7, <3>8, FixPrimed
    <2> QED
      BY <1>9, <2>6, <2>7
  <1> QED
    BY <1>7, <1>8, <1>9

-----------------------------------------------------------------------------
(* The end of the passes.                                                  *)

LEMMA FixEmitStep == IInv /\ Kept /\ Quiet /\ Emit => Kept' /\ Quiet' /\ Out'
  <1> SUFFICES ASSUME IInv, Kept, Quiet, Emit PROVE Kept' /\ Quiet' /\ Out'
    OBVIOUS
  <1> DEFINE T    == {e \in Entries : e.blob.ast.kind # "EQU"}
             left == Only(nodesOffsets, T)
  <1>1. /\ phase = "second" /\ seen = Len(nodesOffsets) /\ ~needPass /\ phase' = "done"
        /\ prog' = prog /\ next' = next /\ labels' = labels /\ equ' = equ
        /\ nodesOffsets' = nodesOffsets /\ needSort' = needSort
        /\ blobs' = Ordered(left)
    BY DEF Emit, firstVars, passVars, Entries
  <1>2. /\ nodesOffsets \in Seq(MapEntries) /\ IsOnce(nodesOffsets)
        /\ next = Len(prog) + 1 /\ \A d, e \in Entries : d.at = e.at => d = e
    BY <1>1 DEF IInv, MapGood, Layout, Position, Entries
  <1>3. /\ left \in Seq(MapEntries) /\ IsOnce(left) /\ ToSet(left) = T
        /\ ~needSort => IsAscending(left)
    <2>1. left \in Seq(MapEntries) /\ IsOnce(left) /\ ToSet(left) = ToSet(nodesOffsets) \cap T
      BY <1>2, OnlyFacts
    <2>2. IsAscending(nodesOffsets) => IsAscending(left)
      BY <1>2, OnlyOrder
    <2>3. ToSet(nodesOffsets) \cap T = T
      BY DEF Entries
    <2> QED
      BY <2>1, <2>2, <2>3 DEF Kept
  <1> HIDE DEF left
  <1>4. /\ blobs' \in Seq(MapEntries) /\ IsOnce(blobs') /\ IsAscending(blobs')
        /\ ToSet(blobs') = T
    <2>1. \A d, e \in ToSet(left) : d.at = e.at => d = e
      BY <1>2, <1>3
    <2>2. CASE needSort
      <3>1. blobs' = Sorted(left)
        BY <1>1, <2>2 DEF Ordered
      <3>2. /\ Sorted(left) \in Seq(MapEntries) /\ IsOnce(Sorted(left))
            /\ ToSet(Sorted(left)) = ToSet(left) /\ IsAscending(Sorted(left))
        BY <1>3, <2>1, SortedFacts
      <3> QED
        BY <1>3, <3>1, <3>2
    <2>3. CASE ~needSort
      <3>1. blobs' = left
        BY <1>1, <2>3 DEF Ordered
      <3> QED
        BY <1>3, <2>3, <3>1
    <2> QED
      BY <2>2, <2>3
  <1>5. Calm(Entries, Entries, Steady)
    <2>1. First(nodesOffsets, seen) = Entries
      <3>1. DOMAIN nodesOffsets = 1 .. Len(nodesOffsets)
        BY <1>2
      <3> QED
        BY <1>1, <3>1 DEF First, Entries, ToSet
    <2> QED
      BY <1>1, <2>1 DEF Quiet
  <1>6. Steady' = Steady
    BY <1>1, SteadyStays
  <1>7. Calm(Entries, Entries, Steady)'
    BY <1>1, <1>5, <1>6 DEF Calm, VanishedIn, Entries
  <1>8. Kept' /\ Quiet'
    BY <1>1 DEF Kept, KeptMap, MadeBefore, Made, Quiet
  <1>9. Out'
    BY <1>1, <1>2, <1>4, <1>7 DEF Out, Entries
  <1> QED
    BY <1>8, <1>9

LEMMA FixStutterStep == FInv /\ UNCHANGED vars => Kept' /\ Quiet' /\ Out'
  <1> SUFFICES ASSUME FInv, UNCHANGED vars PROVE Kept' /\ Quiet' /\ Out'
    OBVIOUS
  <1>1. /\ prog' = prog /\ phase' = phase /\ next' = next /\ labels' = labels /\ equ' = equ
        /\ nodesOffsets' = nodesOffsets /\ seen' = seen /\ blobs' = blobs
        /\ needPass' = needPass /\ needSort' = needSort
    BY DEF vars, firstVars, passVars
  <1>2. Steady' = Steady
    BY <1>1, SteadyStays
  <1>3. Kept'
    BY <1>1 DEF FInv, Kept, KeptMap, MadeBefore, Made
  <1>4. Quiet'
    BY <1>1, <1>2 DEF FInv, Quiet, Calm, VanishedIn, Entries
  <1>5. Out'
    BY <1>1, <1>2 DEF FInv, Out, Calm, VanishedIn, Entries
  <1> QED
    BY <1>3, <1>4, <1>5

LEMMA FixStarts == Init => FInv
  <1> SUFFICES ASSUME Init PROVE FInv
    OBVIOUS
  <1>1. IInv
    BY InvariantStarts
  <1>2. nodesOffsets = << >> /\ next = 1 /\ phase = "first" /\ ToSet(nodesOffsets) = {}
    BY DEF Init, ToSet
  <1>3. Kept
    <2>1. \A k \in DOMAIN prog : ~(k < 1)
      <3>1. Len(prog) \in Nat /\ DOMAIN prog = 1 .. Len(prog)
        BY ProgramsAssumption DEF Init
      <3> QED
        BY <3>1
    <2> QED
      BY <1>2, <2>1 DEF Kept, KeptMap, MadeBefore, IsAscending
  <1> QED
    BY <1>1, <1>2, <1>3 DEF FInv, Quiet, Out

LEMMA FixStep == FInv /\ [Next]_vars => Kept' /\ Quiet' /\ Out'
  <1> SUFFICES ASSUME FInv, [Next]_vars PROVE Kept' /\ Quiet' /\ Out'
    OBVIOUS
  <1>1. IInv /\ Kept /\ Quiet
    BY DEF FInv
  <1>2. CASE FirstPassSized
    BY <1>1, <1>2, FixSizedStep
  <1>3. CASE FirstPassEqu
    BY <1>1, <1>3, FixEquStep
  <1>4. CASE FirstPassLabel
    BY <1>1, <1>4, FixLabelStep
  <1>5. CASE BeginSecondPass
    BY <1>1, <1>5, FixBeginStep
  <1>6. CASE UnknownKeyword
    BY <1>1, <1>6, FixUnknownStep
  <1>7. CASE VisitEqu
    BY <1>1, <1>7, FixVisitEquStep
  <1>8. CASE VisitDefinition
    BY <1>1, <1>8, FixDefinitionStep
  <1>9. CASE VisitInstruction
    BY <1>1, <1>9, FixInstructionStep
  <1>10. CASE VisitTimes
    BY <1>1, <1>10, FixTimesStep
  <1>11. CASE NextPass
    BY <1>1, <1>11, FixNextPassStep
  <1>12. CASE Emit
    BY <1>1, <1>12, FixEmitStep
  <1>13. CASE UNCHANGED vars
    BY <1>13, FixStutterStep
  <1>14. CASE Ended
    BY <1>14, FixStutterStep DEF Ended
  <1> QED
    BY <1>2, <1>3, <1>4, <1>5, <1>6, <1>7, <1>8, <1>9, <1>10, <1>11, <1>12, <1>13, <1>14 DEF Next

\* What is known of the entries and of the blobs when the passes are over.
LEMMA DoneFacts ==
  ASSUME FInv, phase = "done"
  PROVE  /\ prog \in Programs /\ Layout(Entries) /\ IsFiniteSet(Entries)
         /\ \A k \in DOMAIN prog : Made(Entries, k)
         /\ blobs \in Seq(MapEntries) /\ IsOnce(blobs) /\ IsAscending(blobs)
         /\ ToSet(blobs) = {e \in Entries : e.blob.ast.kind # "EQU"}
         /\ Calm(Entries, Entries, Steady)
  <1>1. /\ next = Len(prog) + 1 /\ blobs \in Seq(MapEntries) /\ IsOnce(blobs)
        /\ IsAscending(blobs) /\ Calm(Entries, Entries, Steady)
        /\ ToSet(blobs) = {e \in Entries : e.blob.ast.kind # "EQU"}
    BY DEF FInv, Out
  <1>2. /\ prog \in Programs /\ Layout(Entries) /\ MadeBefore(Entries, next)
        /\ nodesOffsets \in Seq(MapEntries) /\ IsOnce(nodesOffsets)
    BY DEF FInv, IInv, MapGood, Entries, Kept, KeptMap
  <1>3. \A k \in DOMAIN prog : Made(Entries, k)
    <2>1. DOMAIN prog = 1 .. Len(prog) /\ Len(prog) \in Nat
      BY <1>2, ProgramsAssumption
    <2> QED
      BY <1>1, <1>2, <2>1 DEF MadeBefore
  <1>4. IsFiniteSet(Entries)
    BY <1>2, OnceCounts DEF Entries
  <1> QED
    BY <1>1, <1>2, <1>3, <1>4

\* The blobs of a node are its entries that have bytes.
LEMMA CopiesCount ==
  ASSUME FInv, phase = "done", NEW k \in DOMAIN prog
  PROVE  /\ Copies(k) = Cardinality({e \in Of(Entries, k) : e.blob.ast.kind # "EQU"})
         /\ Of(Entries, k) = {} => Copies(k) = 0
  <1> DEFINE T == Of(Entries, k)
             R == {e \in Of(Entries, k) : e.blob.ast.kind # "EQU"}
  <1>1. /\ blobs \in Seq(MapEntries) /\ IsOnce(blobs)
        /\ ToSet(blobs) = {e \in Entries : e.blob.ast.kind # "EQU"}
    BY DoneFacts
  <1>2. ToSet(blobs) \cap T = R
    BY <1>1 DEF Of
  <1>3. {i \in DOMAIN blobs : blobs[i] \in T} = {i \in DOMAIN blobs : blobs[i].blob.node = k}
    BY <1>1 DEF Of, ToSet
  <1> HIDE DEF T
  <1>4. Cardinality({i \in DOMAIN blobs : blobs[i] \in T}) = Cardinality(ToSet(blobs) \cap T)
    BY <1>1, PlacesCount
  <1>5. Copies(k) = Cardinality(R)
    BY <1>2, <1>3, <1>4 DEF Copies
  <1>6. T = {} => R = {}
    BY DEF T
  <1>7. R = {} => Cardinality(R) = 0
    BY FS_EmptySet
  <1> HIDE DEF R
  <1>8. T = {} => Copies(k) = 0
    BY <1>5, <1>6, <1>7
  <1> QED
    BY <1>5, <1>8 DEF R, T

\* What a TIMES or a node with bytes becomes.
LEMMA CopiesMade ==
  ASSUME FInv, phase = "done", NEW k \in DOMAIN prog
  PROVE  /\ prog[k].kind \in {"INSTRUCTION", "DEFINE"} => Copies(k) = 1
         /\ prog[k].kind = "TIMES" /\ ~prog[k].pad => Copies(k) = prog[k].count
  <1> DEFINE own == Of(Entries, k)
             R   == {e \in own : e.blob.ast.kind # "EQU"}
  <1>1. Made(Entries, k) /\ prog \in Programs /\ Calm(Entries, Entries, Steady)
    BY DoneFacts
  <1>2. Copies(k) = Cardinality(R)
    BY CopiesCount
  <1>3. \A e \in own : e.blob.ast.kind # "TIMES"
    BY <1>1 DEF Calm, Of
  <1>4. prog[k].kind = "TIMES" => prog[k].body.kind \in {"INSTRUCTION", "DEFINE"}
    BY <1>1, NodeFacts DEF ByteNodes, TimesNodes
  <1>5. (\A e \in own : e.blob.ast.kind # "EQU") => R = own
    OBVIOUS
  <1>6. ASSUME prog[k].kind \in {"INSTRUCTION", "DEFINE"} PROVE Copies(k) = 1
    <2>1. Cardinality(own) = 1 /\ \A e \in own : e.blob.ast.kind # "EQU"
      BY <1>1, <1>6 DEF Made
    <2> HIDE DEF own, R
    <2> QED
      BY <1>2, <1>5, <2>1
  <1>7. ASSUME prog[k].kind = "TIMES", ~prog[k].pad PROVE Copies(k) = prog[k].count
    <2>1. ASSUME Cardinality(own) = 1, \A e \in own : e.blob.ast = prog[k] PROVE FALSE
      <3>1. own = {}
        BY <1>3, <1>7, <2>1
      <3>2. Cardinality({}) = 0
        BY FS_EmptySet
      <3> HIDE DEF own
      <3> QED
        BY <2>1, <3>1, <3>2
    <2>2. Cardinality(own) = prog[k].count /\ \A e \in own : e.blob.ast = prog[k].body
      BY <1>1, <1>7, <2>1 DEF Made
    <2>3. \A e \in own : e.blob.ast.kind # "EQU"
      BY <1>4, <1>7, <2>2
    <2> HIDE DEF own, R
    <2> QED
      BY <1>2, <1>5, <2>2, <2>3
  <1> QED
    BY <1>6, <1>7

\* One blob starts where the one before it ends.
LEMMA BlobsAdjoin ==
  ASSUME FInv, phase = "done", NEW i \in 1 .. Len(blobs) - 1
  PROVE  /\ blobs[i + 1].at = blobs[i].at + blobs[i].blob.size
         /\ blobs[i].blob.node <= blobs[i + 1].blob.node
  <1> DEFINE e == blobs[i]
             f == blobs[i + 1]
  <1>1. /\ Layout(Entries) /\ blobs \in Seq(MapEntries) /\ IsAscending(blobs)
        /\ ToSet(blobs) = {d \in Entries : d.blob.ast.kind # "EQU"}
    BY DoneFacts
  <1>2. /\ i \in DOMAIN blobs /\ i + 1 \in DOMAIN blobs /\ i \in Nat
        /\ \A j \in DOMAIN blobs : j \in Nat
    BY <1>1
  <1>3. e \in Entries /\ f \in Entries /\ e.at < f.at
    <2>1. e \in ToSet(blobs) /\ f \in ToSet(blobs)
      BY <1>2 DEF ToSet
    <2> QED
      BY <1>1, <1>2, <2>1 DEF IsAscending
  <1>4. \A d \in Entries : /\ d.at \in Nat /\ d.blob.size \in Nat /\ d.at >= Origin
                           /\ Ends(d) = d.at + d.blob.size /\ Sized(d.blob)
    BY <1>1, Numbers DEF Layout
  <1>5. PICK d \in Entries : d.at < f.at /\ Ends(d) = f.at
    BY <1>1, <1>3, <1>4, OriginIsNat DEF Layout, Tiled
  <1>6. d.blob.ast.kind # "EQU"
    BY <1>4, <1>5, <1>3 DEF Sized
  <1>7. PICK j \in DOMAIN blobs : d = blobs[j]
    BY <1>1, <1>6 DEF ToSet
  <1>8. j <= i
    <2>1. ASSUME j > i + 1 PROVE FALSE
      <3>1. f.at < d.at
        BY <1>1, <1>2, <1>7, <2>1 DEF IsAscending
      <3> QED
        BY <1>3, <1>4, <1>5, <3>1
    <2>2. j # i + 1
      BY <1>3, <1>4, <1>5, <1>7
    <2> QED
      BY <1>2, <2>1, <2>2
  <1>9. j = i
    <2>1. ASSUME j < i PROVE FALSE
      <3>1. d.at < e.at
        BY <1>1, <1>2, <1>7, <2>1 DEF IsAscending
      <3>2. Ends(d) <= e.at
        BY <1>1, <1>3, <3>1 DEF Layout, Tiled
      <3> QED
        BY <1>3, <1>4, <1>5, <3>2
    <2> QED
      BY <1>2, <1>8, <2>1
  <1>10. e.blob.node <= f.blob.node
    BY <1>1, <1>3 DEF Layout, InOrder
  <1> QED
    BY <1>3, <1>4, <1>5, <1>7, <1>9, <1>10

LEMMA FixImplies == FInv => EmitsAFixpoint /\ BinaryIsProgram
  <1> SUFFICES ASSUME FInv PROVE EmitsAFixpoint /\ BinaryIsProgram
    OBVIOUS
  <1>1. ASSUME phase = "done", NoTimesVanished, NEW e \in Entries PROVE e \in Steady
    <2>1. ~VanishedIn(Entries)
      <3>1. ASSUME NEW k \in DOMAIN prog, prog[k].kind = "TIMES", Of(Entries, k) = {}
            PROVE  FALSE
        <4>1. Copies(k) > 0
          BY <1>1, <3>1 DEF NoTimesVanished
        <4>2. Copies(k) = 0
          BY <1>1, <3>1, CopiesCount
        <4> QED
          BY <4>1, <4>2
      <3> QED
        BY <3>1 DEF VanishedIn
    <2>2. Calm(Entries, Entries, Steady)
      BY <1>1, DoneFacts
    <2> QED
      BY <2>1, <2>2 DEF Calm
  <1>2. Settled
    <2> SUFFICES ASSUME phase = "done", NoTimesVanished, NEW i \in DOMAIN blobs
                 PROVE  IsSettled(blobs[i])
      BY DEF Settled
    <2>1. blobs[i] \in Entries
      <3>1. blobs[i] \in ToSet(blobs)
        BY DEF ToSet
      <3> QED
        BY <3>1, DoneFacts
    <2> QED
      BY <1>1, <2>1 DEF Steady
  <1>3. EqusSettled
    <2> SUFFICES ASSUME phase = "done", NoTimesVanished, NEW n \in DOMAIN equ, Attached(n)
                 PROVE  EquSettled(n)
      BY DEF EqusSettled
    <2>1. PICK i \in DOMAIN nodesOffsets : n \in ToSet(EqusAt(nodesOffsets[i].blob))
      BY DEF Attached
    <2>2. nodesOffsets[i] \in Entries
      BY DEF Entries, ToSet
    <2> QED
      BY <1>1, <2>1, <2>2 DEF Steady
  <1>4. BinaryIsProgram
    BY BlobsAdjoin, CopiesMade DEF BinaryIsProgram
  <1> QED
    BY <1>2, <1>3, <1>4 DEF EmitsAFixpoint

LEMMA FixInvariant == FInv /\ [Next]_vars => FInv'
  BY FixStep, InvariantStep DEF FInv

\* When the passes of X86Compiler stop, for every program in which no TIMES
\* expands to nothing: every jump and every immediate holds the final value of
\* its label or EQU in the shortest schema that reaches it, and every EQU that is
\* still attached to a blob has the value of its expression over the final labels
\* (secondPass, needPass, passEqu).  The pass that ends the iteration visits every
\* entry, and what it leaves as it was it would leave again.
THEOREM FixpointIsEmitted == Spec => []EmitsAFixpoint
  BY FixStarts, FixInvariant, FixImplies, PTL DEF Spec

\* The blobs that getBinary concatenates are the program, for every program: they
\* come in address order, each where the one before it ends, in the order of the
\* source; an instruction or a definition is there once, and the body of TIMES n
\* is there n times (orderedOffsets, appendBlobsAtOffset, emitBlob).
THEOREM ProgramIsEmitted == Spec => []BinaryIsProgram
  BY FixStarts, FixInvariant, FixImplies, PTL DEF Spec

-----------------------------------------------------------------------------
(* EQUs that have their last value.                                        *)

\* The value of the expression of an EQU.
Value(t, name) == EquAst(name).add + EquAst(name).sign * Resolve(t, EquAst(name).ref)

HangsIn(entries, name) == \E e \in entries : name \in ToSet(EqusAt(e.blob))

\* An EQU that has its value and names no EQU, or one of some.
Resting(t, some, name) ==
  t[name].labeled =>
    /\ t[name].val = Value(t, name)
    /\ EquAst(name).ref \in DOMAIN t => EquAst(name).ref \in some

ClosedIn(t, entries, some) ==
  \A name \in some : HangsIn(entries, name) => Resting(t, some, name)

\* The EQUs that no visit will change as long as the labels stay.
Certain(t, entries) == UNION {some \in SUBSET DOMAIN t : ClosedIn(t, entries, some)}

LEMMA CertainClosed ==
  ASSUME NEW t, NEW entries
  PROVE  Certain(t, entries) \subseteq DOMAIN t /\ ClosedIn(t, entries, Certain(t, entries))
  <1> DEFINE K == Certain(t, entries)
  <1>1. \A x : x \in K <=> \E some \in SUBSET DOMAIN t : ClosedIn(t, entries, some) /\ x \in some
    BY DEF Certain
  <1> HIDE DEF K
  <1>2. K \subseteq DOMAIN t
    BY <1>1
  <1>3. ASSUME NEW x \in K, HangsIn(entries, x) PROVE Resting(t, K, x)
    <2>1. PICK some \in SUBSET DOMAIN t : ClosedIn(t, entries, some) /\ x \in some
      BY <1>1
    <2>2. Resting(t, some, x)
      BY <1>3, <2>1 DEF ClosedIn
    <2>3. some \subseteq K
      BY <1>1, <2>1
    <2> QED
      BY <2>2, <2>3 DEF Resting
  <1>4. ClosedIn(t, entries, K)
    BY <1>3 DEF ClosedIn
  <1> QED
    BY <1>2, <1>4 DEF K

LEMMA CertainHolds ==
  ASSUME NEW t, NEW entries, NEW some \in SUBSET DOMAIN t, ClosedIn(t, entries, some)
  PROVE  some \subseteq Certain(t, entries)
  BY DEF Certain

\* One more.
LEMMA CertainMore ==
  ASSUME NEW t, NEW entries, NEW name \in DOMAIN t,
         HangsIn(entries, name) => Resting(t, Certain(t, entries), name)
  PROVE  name \in Certain(t, entries)
  <1> DEFINE K == Certain(t, entries)
             L == K \cup {name}
  <1>1. K \subseteq DOMAIN t /\ ClosedIn(t, entries, K)
    BY CertainClosed
  <1> HIDE DEF K
  <1>2. \A x \in K : HangsIn(entries, x) => Resting(t, K, x)
    BY <1>1 DEF ClosedIn
  <1>3. \A x : Resting(t, K, x) => Resting(t, L, x)
    BY DEF Resting
  <1>4. \A x \in L : HangsIn(entries, x) => Resting(t, L, x)
    BY <1>2, <1>3 DEF K
  <1>5. L \in SUBSET DOMAIN t
    BY <1>1
  <1> HIDE DEF L
  <1>6. ClosedIn(t, entries, L)
    BY <1>4 DEF ClosedIn
  <1>7. L \subseteq Certain(t, entries)
    BY <1>5, <1>6, CertainHolds
  <1> QED
    BY <1>7 DEF L

\* A value that stands in the table.
LEMMA PassEquValue ==
  ASSUME NEW t \in Tables(equ), NEW name \in DOMAIN equ
  PROVE  /\ t[name].labeled => PassEqu(t, name)[name].val = Value(t, name)
         /\ PassEqu(t, name)[name].labeled = t[name].labeled
         /\ PassEqu(t, name) = t => (t[name].labeled => t[name].val = Value(t, name))
  <1>1. t \in [DOMAIN equ -> EquEntries] /\ t[name] \in EquEntries
    BY DEF Tables
  <1> DEFINE v == Value(t, name)
             u == [t EXCEPT ![name].val = v]
  <1>2. PassEqu(t, name) = IF t[name].labeled THEN u ELSE t
    BY DEF PassEqu, Value
  <1> HIDE DEF v
  <1>3. u[name].val = v /\ u[name].labeled = t[name].labeled
    BY <1>1 DEF EquEntries
  <1> HIDE DEF u
  <1> QED
    BY <1>1, <1>2, <1>3 DEF v

\* Tables that agree on some names agree on what rests on them.
LEMMA SameValueOf ==
  ASSUME NEW t, NEW u, DOMAIN t = DOMAIN u, NEW name, NEW some,
         \A x \in some : t[x] = u[x], EquAst(name).ref \in DOMAIN t => EquAst(name).ref \in some
  PROVE  Value(t, name) = Value(u, name)
  BY DEF Value, Resolve

\* A visit leaves the certain EQUs as they are, and gives one that rests on them
\* its last value.
LEMMA VisitRests ==
  ASSUME prog \in Programs, EqusGood(equ, Len(prog) + 1),
         \A l \in DOMAIN labels : labels[l] \in Nat,
         NEW names \in Seq(Names), ToSet(names) \subseteq DOMAIN equ,
         \A x \in ToSet(names) : EquAst(x).ref \in Defined \cup {NoRef},
         NEW some \in SUBSET DOMAIN equ,
         \A x \in some : x \in ToSet(names) => Resting(equ, some, x),
         NEW m
  PROVE  LET t == PassEqus(names) IN
         /\ \A x \in some : t[x] = equ[x]
         /\ m \in ToSet(names) /\ (EquAst(m).ref \in DOMAIN equ => EquAst(m).ref \in some)
              => Resting(t, some, m)
  <1> DEFINE n == Len(names)
  <1>1. /\ n \in Nat /\ DOMAIN names = 1 .. n
        /\ \A i \in 1 .. n : names[i] \in ToSet(names) /\ names[i] \in DOMAIN equ
        /\ \A x \in ToSet(names) : \E i \in 1 .. n : names[i] = x
    BY DEF ToSet
  <1>2. PICK eqs : PassRuns(eqs, names)
    BY PassEqusRuns
  <1>3. /\ eqs[0] = equ /\ PassEqus(names) = eqs[n]
        /\ \A i \in 0 .. n : eqs[i] \in Tables(equ)
        /\ \A i \in 1 .. n : eqs[i] = PassEqu(eqs[i - 1], names[i])
    BY <1>2 DEF PassRuns
  <1>4. /\ equ \in Tables(equ)
        /\ \A t \in Tables(equ) : /\ DOMAIN t = DOMAIN equ
                                  /\ \A x \in DOMAIN equ : t[x] \in EquEntries /\ t[x].labeled = equ[x].labeled
    BY DEF Tables, EqusGood
  <1> HIDE DEF n
  <1> DEFINE R == m \in DOMAIN equ /\ (EquAst(m).ref \in DOMAIN equ => EquAst(m).ref \in some)
             Past(i) == m \in {names[j] : j \in 1 .. i}
             V == Value(equ, m)
             P == {i \in Nat : i <= n =>
                     /\ \A x \in some : eqs[i][x] = equ[x]
                     /\ R /\ equ[m].labeled /\ Past(i) => eqs[i][m].val = V}
  <1>5. 0 \in P
    <2>1. ~Past(0)
      OBVIOUS
    <2> QED
      BY <1>3, <2>1
  <1>6. ASSUME NEW i \in Nat, i \in P PROVE i + 1 \in P
    <2> SUFFICES ASSUME i + 1 <= n
                 PROVE  /\ \A x \in some : eqs[i + 1][x] = equ[x]
                        /\ R /\ equ[m].labeled /\ Past(i + 1) => eqs[i + 1][m].val = V
      OBVIOUS
    <2> DEFINE y == names[i + 1]
               t == eqs[i]
               u == eqs[i + 1]
    <2>1. i + 1 \in 1 .. n /\ (i + 1) - 1 = i /\ i \in 0 .. n /\ i + 1 \in 0 .. n /\ i <= n
      BY <1>1
    <2>2. /\ \A x \in some : t[x] = equ[x]
          /\ R /\ equ[m].labeled /\ Past(i) => t[m].val = V
      BY <1>6, <2>1
    <2>3. /\ u = PassEqu(t, y) /\ y \in DOMAIN equ /\ y \in ToSet(names)
          /\ t \in Tables(equ) /\ u \in Tables(equ)
      BY <1>1, <1>3, <2>1
    <2>4. Past(i + 1) => Past(i) \/ m = y
      <3>1. \A j \in 1 .. i + 1 : j \in 1 .. i \/ j = i + 1
        OBVIOUS
      <3> QED
        BY <3>1
    <2> HIDE DEF R, Past, V, t, u, y
    <2>5. DOMAIN t = DOMAIN equ /\ \A x \in DOMAIN equ : t[x].labeled = equ[x].labeled
      BY <1>4, <2>3
    <2>6. /\ \A x \in DOMAIN equ : x # y => u[x] = t[x]
          /\ ~equ[y].labeled => u = t
          /\ t[y].labeled => u[y].val = Value(t, y)
      BY <2>3, PassEquElsewhere, PassEquValue
    <2>7. R => m \in DOMAIN equ /\ (EquAst(m).ref \in DOMAIN t => EquAst(m).ref \in some)
      BY <2>5 DEF R
    <2>8. ASSUME NEW x \in some PROVE u[x] = equ[x]
      <3>1. CASE x # y
        BY <2>2, <2>6, <3>1
      <3>2. CASE x = y /\ ~equ[y].labeled
        BY <2>2, <2>6, <3>2
      <3>3. CASE x = y /\ equ[y].labeled
        <4>1. /\ equ[y].val = Value(equ, y)
              /\ EquAst(y).ref \in DOMAIN t => EquAst(y).ref \in some
          BY <2>3, <2>5, <2>8, <3>3 DEF Resting
        <4>2. Value(t, y) = Value(equ, y)
          BY <2>2, <2>5, <4>1, SameValueOf
        <4>3. u[y].val = equ[y].val
          BY <2>3, <2>5, <2>6, <3>3, <4>1, <4>2
        <4>4. u[y] \in EquEntries /\ equ[y] \in EquEntries /\ u[y].labeled = equ[y].labeled
          BY <1>4, <2>3
        <4>5. u[y] = equ[y]
          BY <4>3, <4>4 DEF EquEntries
        <4> QED
          BY <3>3, <4>5
      <3> QED
        BY <3>1, <3>2, <3>3
    <2>9. ASSUME R, equ[m].labeled, Past(i + 1) PROVE u[m].val = V
      <3>1. CASE m = y
        <4>1. Value(t, m) = Value(equ, m)
          BY <2>2, <2>5, <2>7, <2>9, SameValueOf
        <4> QED
          BY <2>3, <2>5, <2>6, <2>7, <2>9, <3>1, <4>1 DEF V
      <3>2. CASE m # y
        BY <2>2, <2>4, <2>6, <2>7, <2>9, <3>2
      <3> QED
        BY <3>1, <3>2
    <2> QED
      BY <2>8, <2>9 DEF u
  <1> HIDE DEF P
  <1>7. n \in P
    BY <1>1, <1>5, <1>6, Counting
  <1> DEFINE t == PassEqus(names)
  <1>8. /\ \A x \in some : t[x] = equ[x]
        /\ R /\ equ[m].labeled /\ Past(n) => t[m].val = V
        /\ t \in Tables(equ)
    <2>1. n <= n /\ n \in 0 .. n
      BY <1>1
    <2> QED
      BY <1>3, <1>7, <2>1 DEF P
  <1>9. ASSUME m \in ToSet(names), EquAst(m).ref \in DOMAIN equ => EquAst(m).ref \in some
        PROVE  Resting(t, some, m)
    <2>1. Past(n) /\ R
      BY <1>1, <1>9
    <2> HIDE DEF t, Past, V
    <2>2. DOMAIN t = DOMAIN equ /\ t[m].labeled = equ[m].labeled
      BY <1>4, <1>8, <2>1
    <2>3. Value(t, m) = Value(equ, m)
      BY <1>8, <2>1, <2>2, SameValueOf
    <2> QED
      BY <1>8, <2>1, <2>2, <2>3 DEF Resting, V
  <1> QED
    BY <1>8, <1>9

LEMMA ValueIsInt ==
  ASSUME prog \in Programs, EqusGood(equ, Len(prog) + 1),
         \A l \in DOMAIN labels : labels[l] \in Nat,
         NEW t \in Tables(equ), NEW name \in DOMAIN equ, EquAst(name).ref \in Defined
  PROVE  Value(t, name) \in Int
  <1> DEFINE ast == EquAst(name)
             v   == Resolve(t, ast.ref)
  <1>1. ast.add \in Int /\ (ast.sign = 1 \/ ast.sign = -1)
    BY EquAstFacts DEF EquNodes
  <1>2. v \in Int
    BY Resolved
  <1>3. Value(t, name) = ast.add + ast.sign * v
    BY DEF Value
  <1> HIDE DEF ast, v
  <1>4. CASE ast.sign = 1
    BY <1>1, <1>2, <1>3, <1>4
  <1>5. CASE ast.sign = -1
    <2>1. ast.sign * v = 0 - v
      BY <1>2, <1>5
    <2> QED
      BY <1>1, <1>2, <1>3, <2>1
  <1> QED
    BY <1>1, <1>4, <1>5

\* The EQUs of a visit.
LEMMA VisitNames ==
  ASSUME IInv, NEW kind, Visit(kind)
  PROVE  LET names == EqusAt(Current.blob) IN
         /\ prog \in Programs /\ EqusGood(equ, Len(prog) + 1)
         /\ \A l \in DOMAIN labels : labels[l] \in Nat
         /\ names \in Seq(Names) /\ ToSet(names) \subseteq DOMAIN equ
         /\ \A x \in ToSet(names) : EquAst(x).ref \in Defined \cup {NoRef}
         /\ PassEqus(names) \in Tables(equ) /\ equ \in Tables(equ)
         /\ \A x \in ToSet(names) : HangsIn(Entries, x)
  <1> DEFINE b == Current.blob
  <1>1. Visiting /\ RefsOf(b) \subseteq Defined \cup {NoRef}
    BY DEF Visit
  <1>2. /\ prog \in Programs /\ b \in Blobs /\ Named(b, DOMAIN equ) /\ Current \in Entries
        /\ \A l \in DOMAIN labels : labels[l] \in Nat
    BY <1>1, VisitFacts DEF Owned
  <1>3. EqusGood(equ, Len(prog) + 1)
    BY <1>1, VisitFacts DEF IInv
  <1>4. PassEqus(EqusAt(b)) \in Tables(equ) /\ equ \in Tables(equ)
    BY VisitPass, SameTable
  <1>5. \A x \in ToSet(EqusAt(b)) : HangsIn(Entries, x)
    BY <1>2 DEF HangsIn
  <1> HIDE DEF b
  <1>6. \A x \in ToSet(EqusAt(b)) : EquAst(x).ref \in Defined \cup {NoRef}
    BY <1>1 DEF RefsOf
  <1>7. EqusAt(b) \in Seq(Names) /\ ToSet(EqusAt(b)) \subseteq DOMAIN equ
    BY <1>2, NamedFacts DEF Named
  <1> QED
    BY <1>2, <1>3, <1>4, <1>5, <1>6, <1>7 DEF b

\* What a visit makes of the certain EQUs.
CertainAfter(entries, names, t) ==
  LET K == Certain(equ, Entries)
      L == Certain(t, entries) IN
  /\ K \subseteq L
  /\ \A m \in ToSet(names) : (EquAst(m).ref \in DOMAIN equ => EquAst(m).ref \in K) => m \in L
  /\ EquChanged(t, names) => \E m \in ToSet(names) : m \notin K

LEMMA CertainGrows ==
  ASSUME IInv, NEW kind, Visit(kind),
         NEW entries, \A x : HangsIn(entries, x) <=> HangsIn(Entries, x)
  PROVE  CertainAfter(entries, EqusAt(Current.blob), PassEqus(EqusAt(Current.blob)))
  <1> DEFINE names == EqusAt(Current.blob)
             t == PassEqus(names)
             K == Certain(equ, Entries)
             L == Certain(t, entries)
  <1>1. /\ prog \in Programs /\ EqusGood(equ, Len(prog) + 1)
        /\ \A l \in DOMAIN labels : labels[l] \in Nat
        /\ names \in Seq(Names) /\ ToSet(names) \subseteq DOMAIN equ
        /\ \A x \in ToSet(names) : EquAst(x).ref \in Defined \cup {NoRef}
        /\ t \in Tables(equ) /\ equ \in Tables(equ)
        /\ \A x \in ToSet(names) : HangsIn(Entries, x)
    BY VisitNames
  <1>2. K \subseteq DOMAIN equ /\ \A x \in K : HangsIn(Entries, x) => Resting(equ, K, x)
    BY CertainClosed DEF ClosedIn
  <1>3. DOMAIN t = DOMAIN equ /\ \A x \in DOMAIN equ : t[x].labeled = equ[x].labeled
    BY <1>1 DEF Tables
  <1> HIDE DEF K, names
  <1>4. ASSUME NEW m
        PROVE  /\ \A x \in K : t[x] = equ[x]
               /\ m \in ToSet(names) /\ (EquAst(m).ref \in DOMAIN equ => EquAst(m).ref \in K)
                    => Resting(t, K, m)
    <2>1. \A x \in K : x \in ToSet(names) => Resting(equ, K, x)
      BY <1>1, <1>2
    <2> QED
      BY <1>1, <1>2, <2>1, VisitRests
  <1> HIDE DEF t
  <1>5. \A x \in K : t[x] = equ[x]
    BY <1>4
  <1>6. ASSUME NEW x \in K, HangsIn(entries, x) PROVE Resting(t, K, x)
    <2>1. Resting(equ, K, x) /\ x \in DOMAIN equ
      BY <1>2, <1>6
    <2>2. equ[x].labeled => Value(t, x) = Value(equ, x)
      <3>1. equ[x].labeled => (EquAst(x).ref \in DOMAIN t => EquAst(x).ref \in K)
        BY <1>3, <2>1 DEF Resting
      <3> QED
        BY <1>3, <1>5, <3>1, SameValueOf
    <2> QED
      BY <1>3, <1>5, <2>1, <2>2 DEF Resting
  <1>7. K \subseteq L
    <2>1. K \in SUBSET DOMAIN t /\ ClosedIn(t, entries, K)
      BY <1>2, <1>3, <1>6 DEF ClosedIn
    <2> QED
      BY <2>1, CertainHolds
  <1>8. ASSUME NEW m \in ToSet(names), EquAst(m).ref \in DOMAIN equ => EquAst(m).ref \in K
        PROVE  m \in L
    <2>1. Resting(t, K, m) /\ m \in DOMAIN t
      BY <1>1, <1>3, <1>4, <1>8
    <2>2. Resting(t, L, m)
      BY <1>7, <2>1 DEF Resting
    <2> QED
      BY <2>1, <2>2, CertainMore
  <1>9. ASSUME EquChanged(t, names) PROVE \E m \in ToSet(names) : m \notin K
    <2>1. PICK m \in ToSet(names) : equ[m].labeled /\ (equ[m].val = NIL \/ t[m].val # equ[m].val)
      BY <1>9 DEF EquChanged
    <2>2. ASSUME m \in K PROVE FALSE
      <3>1. t[m] = equ[m] /\ Resting(equ, K, m) /\ m \in DOMAIN equ
        BY <1>1, <1>2, <1>5, <2>2
      <3>2. equ[m].val = Value(equ, m) /\ equ[m].val = NIL
        BY <2>1, <3>1 DEF Resting
      <3>3. EquAst(m).ref \in Defined
        <4>1. equ[m].labeled = (EquAst(m).ref # NoRef)
          BY <1>1, <3>1, EquAstFacts
        <4> QED
          BY <1>1, <2>1, <4>1
      <3>4. Value(equ, m) \in Int
        BY <1>1, <3>1, <3>3, ValueIsInt
      <3> QED
        BY <3>2, <3>4, BoundsAssumption
    <2> QED
      BY <2>2
  <1> QED
    BY <1>7, <1>8, <1>9 DEF CertainAfter, K, t, names

\* An EQU that has not got its last value rests on some that have, and is at an
\* entry that the pass has not come to.
PendingIn(t, map, i, name) ==
  /\ name \in DOMAIN t /\ name \notin Certain(t, ToSet(map))
  /\ EquAst(name).ref \in DOMAIN t => EquAst(name).ref \in Certain(t, ToSet(map))
  /\ \E j \in DOMAIN map : j > i /\ name \in ToSet(EqusAt(map[j].blob))

LEMMA PendingExists ==
  ASSUME FInv, Visiting, ~Chasing, ~needPass,
         NEW n \in DOMAIN equ, n \notin Certain(equ, Entries)
  PROVE  \E m : PendingIn(equ, nodesOffsets, seen, m)
  <1> DEFINE K == Certain(equ, Entries)
             U == {x \in DOMAIN equ : x \notin K}
  <1>1. /\ nodesOffsets \in Seq(MapEntries) /\ phase = "second" /\ seen \in Nat
        /\ equ \in Tables(equ)
    BY VisitFacts, SameTable DEF FInv, IInv, Position
  <1>2. PICK m \in U : EquAst(m).ref \notin U
    <2>1. U # {} /\ U \in SUBSET DOMAIN equ
      OBVIOUS
    <2> HIDE DEF U
    <2> QED
      BY <2>1 DEF Chasing, SelfDefined
  <1> HIDE DEF K
  <1>3. m \in DOMAIN equ /\ m \notin K /\ (EquAst(m).ref \in DOMAIN equ => EquAst(m).ref \in K)
    BY <1>2
  <1>4. HangsIn(Entries, m) /\ ~Resting(equ, K, m)
    BY <1>3, CertainMore DEF K
  <1>5. PICK e \in Entries : m \in ToSet(EqusAt(e.blob))
    BY <1>4 DEF HangsIn
  <1>6. PICK i \in DOMAIN nodesOffsets : nodesOffsets[i] = e
    BY <1>1, <1>5, InMap DEF Entries
  <1>7. ASSUME ~(i > seen) PROVE FALSE
    <2>1. i \in 1 .. seen
      BY <1>1, <1>6, <1>7
    <2>2. e \in First(nodesOffsets, seen)
      BY <1>6, <2>1 DEF First
    <2>3. ~VanishedIn(Entries)
      BY DEF Chasing, TimesVanished, VanishedIn, Of
    <2>4. e \in Steady
      BY <1>1, <2>2, <2>3 DEF FInv, Quiet, Calm
    <2>5. EquSettled(m)
      BY <1>5, <2>4 DEF Steady
    <2>6. equ[m].labeled => equ[m].val = Value(equ, m)
      BY <1>1, <1>3, <2>5, PassEquValue DEF EquSettled
    <2> QED
      BY <1>3, <1>4, <2>6 DEF Resting
  <1> QED
    BY <1>3, <1>5, <1>6, <1>7 DEF PendingIn, K, Entries

-----------------------------------------------------------------------------
(* Sizes that only grow.                                                   *)

\* How far the target of an entry is.
Away(lbs, e) == Reach(lbs[e.blob.ast.ref] - e.at - 1)

\* The size of the first pass.
Small(b) ==
  b.ast.kind = "INSTRUCTION" =>
    /\ b.ast.mn \in Jumps => b.size = 2
    /\ b.ast.mn = "mov" => b.size = 3

\* The size of the first pass, or another one that the jump will keep, since its
\* target is too far away.
SizeKept(e, lbs) ==
  LET b == e.blob IN
  b.ast.kind = "INSTRUCTION" =>
    /\ b.ast.mn = "mov" => b.size = 3
    /\ b.ast.mn = "near" => b.size \in {2, 3}
    /\ b.ast.mn \in {"jmp", "jcc"} =>
         \/ b.size = 2
         \/ /\ b.size = (IF b.ast.mn = "jmp" THEN 3 ELSE 4)
            /\ b.ast.ref \in DOMAIN lbs /\ Away(lbs, e) > ShortMax

\* The size that a visit would give a jump, and no TIMES.
Final(e, lbs) ==
  /\ e.blob.ast.kind # "TIMES"
  /\ IsJump(e.blob) =>
       e.blob.size = Shortest(SchemaSizes(e.blob.ast.mn, lbs[e.blob.ast.ref], e.at))

LEMMA MovedAway ==
  ASSUME NEW a \in Nat, NEW b \in Nat, NEW addr \in Nat, NEW d \in Nat, NEW far \in Nat,
         Reach(a - b - 1) > far
  PROVE  Reach(Moved(a, addr, d) - Moved(b, addr, d) - 1) > far
  BY DEF Reach, Moved

LEMMA MovedLabels ==
  ASSUME NEW addr \in Nat, NEW d \in Int
  PROVE  /\ DOMAIN ResizedLabels(addr, d) = DOMAIN labels
         /\ \A l \in DOMAIN labels : ResizedLabels(addr, d)[l] = Moved(labels[l], addr, d)
  BY DEF ResizedLabels

\* An entry keeps its size when what follows x makes room.
LEMMA ShiftedKeeps ==
  ASSUME NEW e \in MapEntries, NEW f \in MapEntries, f.blob = e.blob,
         NEW addr \in Nat, NEW d \in Nat, f.at = Moved(e.at, addr, d),
         \A l \in DOMAIN labels : labels[l] \in Nat, SizeKept(e, labels)
  PROVE  SizeKept(f, ResizedLabels(addr, d))
  <1> DEFINE ref == e.blob.ast.ref
             lbs == ResizedLabels(addr, d)
  <1>1. ASSUME ref \in DOMAIN labels, Away(labels, e) > ShortMax
        PROVE  ref \in DOMAIN lbs /\ Away(lbs, f) > ShortMax
    <2>1. ref \in DOMAIN lbs /\ lbs[ref] = Moved(labels[ref], addr, d)
      BY <1>1, MovedLabels
    <2>2. labels[ref] \in Nat /\ e.at \in Nat /\ ShortMax \in Nat
      BY <1>1, BoundsAssumption DEF MapEntries
    <2>3. Reach(labels[ref] - e.at - 1) > ShortMax
      BY <1>1 DEF Away
    <2> HIDE DEF ref, lbs
    <2>4. Reach(Moved(labels[ref], addr, d) - Moved(e.at, addr, d) - 1) > ShortMax
      BY <2>2, <2>3, MovedAway
    <2> QED
      BY <2>1, <2>4 DEF Away, ref
  <1> HIDE DEF lbs
  <1> QED
    BY <1>1 DEF SizeKept, lbs

\* All entries do when one is replaced by more bytes.
LEMMA ReplacedKeeps ==
  ASSUME NEW entries, Layout(entries), NEW x \in entries, x.blob.size > 0,
         NEW c, NEW n \in Nat, Fills(c, x, n), n >= x.blob.size,
         \A l \in DOMAIN labels : labels[l] \in Nat,
         \A e \in entries : SizeKept(e, labels),
         \A e \in c : SizeKept(e, ResizedLabels(x.at, n - x.blob.size))
  PROVE  \A e \in Replaced(entries, x, c, n) : SizeKept(e, ResizedLabels(x.at, n - x.blob.size))
  <1> DEFINE d == n - x.blob.size
  <1>1. x \in MapEntries /\ x.at \in Nat /\ x.blob.size \in Nat
    BY Numbers DEF Layout
  <1>2. d \in Nat
    BY <1>1
  <1>3. Regions(entries, x, c, n)
    BY RegionsHold
  <1>4. ASSUME NEW e \in Below(entries, x.at) PROVE SizeKept(e, ResizedLabels(x.at, d))
    <2>1. e \in entries /\ e \in MapEntries /\ e.at < x.at /\ e.at \in Nat
      BY <1>3, Numbers DEF Regions
    <2>2. e.at = Moved(e.at, x.at, d)
      BY <1>1, <2>1 DEF Moved
    <2> HIDE DEF d
    <2> QED
      BY <1>1, <1>2, <2>1, <2>2, ShiftedKeeps
  <1>5. ASSUME NEW e \in Behind(entries, x.at) PROVE SizeKept(Shifted(e, d), ResizedLabels(x.at, d))
    <2>1. /\ e \in entries /\ e \in MapEntries /\ e.at > x.at /\ e.at \in Nat
          /\ Shifted(e, d) \in MapEntries /\ Shifted(e, d).blob = e.blob /\ Shifted(e, d).at = e.at + d
      BY <1>3, Numbers DEF Regions, Behind
    <2> DEFINE f == Shifted(e, d)
    <2> HIDE DEF d, f
    <2>2. f.at = Moved(e.at, x.at, d)
      BY <1>1, <2>1 DEF Moved, f
    <2>3. SizeKept(f, ResizedLabels(x.at, d))
      BY <1>1, <1>2, <2>1, <2>2, ShiftedKeeps DEF f
    <2> QED
      BY <2>3 DEF f
  <1> QED
    BY <1>4, <1>5 DEF Replaced

\* The size that a visit gives.
LEMMA ShortestIs ==
  ASSUME NEW sizes, sizes \subseteq {2, 3, 4}
  PROVE  /\ 2 \in sizes => Shortest(sizes) = 2
         /\ 2 \notin sizes /\ 3 \in sizes => Shortest(sizes) = 3
         /\ sizes = {4} => Shortest(sizes) = 4
  <1>1. ASSUME NEW m \in sizes, \A t \in sizes : m <= t PROVE Shortest(sizes) = m
    <2> DEFINE s == Shortest(sizes)
    <2>1. Shortest(sizes) \in sizes /\ \A t \in sizes : Shortest(sizes) <= t
      BY <1>1 DEF Shortest
    <2>2. s \in {2, 3, 4} /\ s <= m /\ m \in {2, 3, 4}
      BY <2>1
    <2>3. m <= s
      BY <1>1, <2>1
    <2> HIDE DEF s
    <2>4. s = m
      BY <2>2, <2>3
    <2> QED
      BY <2>4 DEF s
  <1>2. 2 \in sizes => \A t \in sizes : 2 <= t
    OBVIOUS
  <1>3. 2 \notin sizes => \A t \in sizes : 3 <= t
    OBVIOUS
  <1>4. sizes = {4} => 4 \in sizes /\ \A t \in sizes : 4 <= t
    OBVIOUS
  <1> QED
    BY <1>1, <1>2, <1>3, <1>4

\* A jump that has another size than a visit would give it has that of the first
\* pass, and gets more bytes since its target is too far away; what is no jump
\* has its size.
LEMMA Grows ==
  ASSUME NEW e \in MapEntries, NEW val \in Int, NEW size,
         e.blob.ast.kind = "INSTRUCTION", e.blob.ast.mn # "fixed",
         SizeKept(e, labels), e.blob.ast.ref \in DOMAIN labels, val = labels[e.blob.ast.ref],
         SchemaSizes(e.blob.ast.mn, val, e.at) # {},
         size = Shortest(SchemaSizes(e.blob.ast.mn, val, e.at)), size # e.blob.size
  PROVE  /\ IsJump(e.blob) /\ e.blob.size = 2
         /\ size = 3 \/ size = 4
         /\ e.blob.ast.mn \in {"jmp", "jcc"} =>
              size = (IF e.blob.ast.mn = "jmp" THEN 3 ELSE 4) /\ Away(labels, e) > ShortMax
         /\ e.blob.ast.mn \notin {"jmp", "jcc"} => e.blob.ast.mn = "near" /\ size = 3
  <1> DEFINE mn    == e.blob.ast.mn
             sizes == SchemaSizes(mn, val, e.at)
             away  == Reach(val - e.at - 1)
             old   == e.blob.size
  <1>1. mn \in {"jmp", "near", "jcc", "mov"}
    BY DEF MapEntries, Blobs, Asts, EquNodes, ByteNodes, TimesNodes, Jumps
  <1>2. away = Away(labels, e) /\ away \in Int /\ ShortMax \in Int
    <2>1. val - e.at - 1 \in Int
      BY DEF MapEntries
    <2> QED
      BY <2>1, BoundsAssumption DEF Away, Reach
  <1>3. /\ sizes \subseteq {2, 3, 4} /\ sizes # {} /\ size = Shortest(sizes) /\ size # old
    BY SchemasAreFew
  <1>4. /\ mn = "mov" => old = 3
        /\ mn = "near" => old = 2 \/ old = 3
        /\ mn \in {"jmp", "jcc"} =>
             old = 2 \/ (old = (IF mn = "jmp" THEN 3 ELSE 4) /\ away > ShortMax)
    BY <1>2 DEF SizeKept
  <1>5. /\ mn \in {"mov", "near"} => sizes = {3}
        /\ mn = "jmp" => 3 \in sizes /\ (2 \in sizes <=> away <= ShortMax)
        /\ mn = "jcc" => 3 \notin sizes /\ (2 \in sizes <=> away <= ShortMax)
    BY <1>1 DEF SchemaSizes
  <1>6. IsJump(e.blob) <=> mn \in {"jmp", "near", "jcc"}
    BY DEF IsJump, Jumps
  <1> HIDE DEF mn, sizes, away, old
  <1>7. /\ 2 \in sizes => size = 2
        /\ 2 \notin sizes /\ 3 \in sizes => size = 3
        /\ sizes = {4} => size = 4
    BY <1>3, ShortestIs
  <1>8. 2 \notin sizes /\ 3 \notin sizes => sizes = {4}
    BY <1>3
  <1>9. CASE mn \in {"mov", "near"}
    <2>1. size = 3
      BY <1>5, <1>7, <1>9
    <2> QED
      BY <1>1, <1>3, <1>4, <1>6, <1>9, <2>1 DEF mn, old
  <1>10. CASE mn = "jmp"
    <2>1. size = (IF away <= ShortMax THEN 2 ELSE 3)
      BY <1>5, <1>7, <1>10
    <2>2. old = 2 /\ ~(away <= ShortMax)
      BY <1>2, <1>3, <1>4, <1>10, <2>1
    <2> QED
      BY <1>2, <1>6, <1>10, <2>1, <2>2 DEF mn, old
  <1>11. CASE mn = "jcc"
    <2>1. size = (IF away <= ShortMax THEN 2 ELSE 4)
      BY <1>5, <1>7, <1>8, <1>11
    <2>2. old = 2 /\ ~(away <= ShortMax)
      BY <1>2, <1>3, <1>4, <1>11, <2>1
    <2> QED
      BY <1>2, <1>6, <1>11, <2>1, <2>2 DEF mn, old
  <1> QED
    BY <1>1, <1>9, <1>10, <1>11

-----------------------------------------------------------------------------
(* How much has grown.                                                     *)

GrownJumps(entries) == {e \in entries : IsJump(e.blob) /\ e.blob.size > 2}

\* The nodes whose TIMES is gone.
Unrolled(entries) ==
  {k \in DOMAIN prog : prog[k].kind = "TIMES" /\ \A e \in Of(entries, k) : e.blob.ast.kind # "TIMES"}

Grown(entries) == Cardinality(GrownJumps(entries)) + Cardinality(Unrolled(entries))

LEMMA GrownFinite ==
  ASSUME prog \in Programs, NEW entries, IsFiniteSet(entries)
  PROVE  /\ IsFiniteSet(GrownJumps(entries)) /\ IsFiniteSet(Unrolled(entries))
         /\ Cardinality(GrownJumps(entries)) \in Nat /\ Cardinality(Unrolled(entries)) \in Nat
         /\ Grown(entries) \in Nat
  <1>1. GrownJumps(entries) \in SUBSET entries
    BY DEF GrownJumps
  <1>2. DOMAIN prog = 1 .. Len(prog) /\ Len(prog) \in Nat
    BY NodeFacts
  <1>3. IsFiniteSet(DOMAIN prog)
    BY <1>2, UptoFacts
  <1>4. Unrolled(entries) \in SUBSET DOMAIN prog
    BY DEF Unrolled
  <1>5. IsFiniteSet(GrownJumps(entries)) /\ IsFiniteSet(Unrolled(entries))
    BY <1>1, <1>3, <1>4, FS_Subset
  <1>6. Cardinality(GrownJumps(entries)) \in Nat /\ Cardinality(Unrolled(entries)) \in Nat
    BY <1>5, FS_CardinalityType
  <1> QED
    BY <1>5, <1>6 DEF Grown

\* Jumps that have grown are grown when an entry is replaced by others.
LEMMA JumpsCarried ==
  ASSUME NEW entries, Layout(entries), IsFiniteSet(entries), NEW x \in entries, x.blob.size > 0,
         NEW c, NEW n \in Nat, Fills(c, x, n), x \notin GrownJumps(entries),
         NEW new, new = Replaced(entries, x, c, n), IsFiniteSet(new)
  PROVE  /\ Cardinality(GrownJumps(new)) >= Cardinality(GrownJumps(entries))
         /\ \A y \in c : IsJump(y.blob) /\ y.blob.size > 2 =>
              Cardinality(GrownJumps(new)) >= Cardinality(GrownJumps(entries)) + 1
  <1> DEFINE A == GrownJumps(entries)
             B == GrownJumps(new)
  <1>1. PICK h : Carries(h, entries, x, c, new)
    BY Carried
  <1>2. A \in SUBSET entries /\ B \in SUBSET new
    BY DEF GrownJumps
  <1>3. IsFiniteSet(A) /\ IsFiniteSet(B) /\ Cardinality(A) \in Nat /\ Cardinality(B) \in Nat
    BY <1>2, FS_Subset, FS_CardinalityType
  <1>4. \A e \in A : e \in entries \ {x} /\ h[e] \in B /\ h[e] \notin c
    BY <1>1 DEF Carries, GrownJumps
  <1>5. \A y \in c : IsJump(y.blob) /\ y.blob.size > 2 => y \in B
    BY <1>1 DEF Carries, GrownJumps
  <1>6. \A d, e \in entries \ {x} : h[d] = h[e] => d = e
    BY <1>1 DEF Carries
  <1> DEFINE I == {h[e] : e \in A}
             g == [e \in A |-> h[e]]
  <1> HIDE DEF A, B
  <1>7. /\ g \in [A -> I] /\ \A d, e \in A : g[d] = g[e] => d = e
        /\ \A i \in I : \E e \in A : g[e] = i
    BY <1>4, <1>6
  <1>8. I \in SUBSET B /\ \A i \in I : i \notin c
    BY <1>4
  <1> HIDE DEF I, g
  <1>9. IsFiniteSet(I) /\ Cardinality(I) = Cardinality(A)
    BY <1>3, <1>7, SameCount
  <1>10. Cardinality(I) <= Cardinality(B)
    BY <1>3, <1>8, FS_Subset
  <1>11. ASSUME NEW y \in c, IsJump(y.blob) /\ y.blob.size > 2
         PROVE  Cardinality(B) >= Cardinality(A) + 1
    <2> DEFINE J == I \cup {y}
    <2>1. J \in SUBSET B /\ y \notin I
      BY <1>5, <1>8, <1>11
    <2>2. IsFiniteSet(J) /\ Cardinality(J) = Cardinality(I) + 1
      BY <1>9, <2>1, FS_AddElement
    <2> HIDE DEF J
    <2>3. Cardinality(J) <= Cardinality(B)
      BY <1>3, <2>1, FS_Subset
    <2> QED
      BY <1>3, <1>9, <2>2, <2>3
  <1>12. Cardinality(B) >= Cardinality(A)
    BY <1>3, <1>9, <1>10
  <1> QED
    BY <1>11, <1>12 DEF A, B

\* A TIMES that is gone is gone when an entry is replaced by others, and so is
\* the one that is replaced.
LEMMA UnrolledCarried ==
  ASSUME prog \in Programs, NEW entries, Layout(entries), NEW x \in entries, x.blob.size > 0,
         NEW c, NEW n \in Nat, Fills(c, x, n), \A e \in c : e.blob.ast.kind # "TIMES",
         NEW new, new = Replaced(entries, x, c, n)
  PROVE  /\ Unrolled(entries) \subseteq Unrolled(new)
         /\ /\ x.blob.node \in DOMAIN prog /\ prog[x.blob.node].kind = "TIMES"
            /\ x.blob.ast.kind = "TIMES" /\ \A e \in Of(entries, x.blob.node) : e = x
            => x.blob.node \in Unrolled(new) /\ x.blob.node \notin Unrolled(entries)
  <1>1. PICK h : Carries(h, entries, x, c, new)
    BY Carried
  <1>2. \A f \in new : f \in c \/ \E e \in entries \ {x} : f.blob = e.blob
    BY <1>1 DEF Carries
  <1>3. Unrolled(entries) \subseteq Unrolled(new)
    BY <1>2 DEF Unrolled, Of
  <1>4. ASSUME x.blob.node \in DOMAIN prog, prog[x.blob.node].kind = "TIMES",
               x.blob.ast.kind = "TIMES", \A e \in Of(entries, x.blob.node) : e = x
        PROVE  x.blob.node \in Unrolled(new) /\ x.blob.node \notin Unrolled(entries)
    <2> DEFINE k == x.blob.node
    <2>1. x \in Of(entries, k) /\ \A e \in entries : e.blob.node = k => e = x
      BY <1>4 DEF Of
    <2>2. \A f \in new : f.blob.node = k => f \in c
      BY <1>2, <2>1
    <2> QED
      BY <1>4, <2>1, <2>2 DEF Unrolled, Of
  <1> QED
    BY <1>3, <1>4

\* The places of two maps whose entries differ in a value.
LEMMA GrownSame ==
  ASSUME prog \in Programs, NEW entries, IsFiniteSet(entries), NEW d \in entries,
         NEW y, y \notin entries \ {d}, y.blob.node = d.blob.node, y.blob.ast = d.blob.ast,
         y.blob.size = d.blob.size, NEW new, new = (entries \ {d}) \cup {y}
  PROVE  Grown(new) = Grown(entries)
  <1> DEFINE A == GrownJumps(entries)
             B == GrownJumps(new)
             f == [e \in A |-> IF e = d THEN y ELSE e]
  <1>1. d \in A <=> y \in B
    BY DEF GrownJumps, IsJump
  <1>2. \A e \in entries \ {d} : e \in A <=> e \in B
    BY DEF GrownJumps
  <1>3. A \subseteq entries /\ B \subseteq new
    BY DEF GrownJumps
  <1>4. IsFiniteSet(A)
    BY <1>3, FS_Subset
  <1> HIDE DEF A, B
  <1>5. f \in [A -> B]
    BY <1>1, <1>2, <1>3
  <1>6. \A a, b \in A : f[a] = f[b] => a = b
    BY <1>3
  <1>7. \A b \in B : \E a \in A : f[a] = b
    BY <1>1, <1>2, <1>3
  <1> HIDE DEF f
  <1>8. Cardinality(B) = Cardinality(A)
    BY <1>4, <1>5, <1>6, <1>7, SameCount
  <1>9. Unrolled(new) = Unrolled(entries)
    <2>1. ASSUME NEW k PROVE (\A e \in Of(new, k) : e.blob.ast.kind # "TIMES")
                               <=> \A e \in Of(entries, k) : e.blob.ast.kind # "TIMES"
      BY DEF Of
    <2> QED
      BY <2>1 DEF Unrolled
  <1> QED
    BY <1>8, <1>9 DEF Grown, A, B

\* A resized jump is one more that has grown.
LEMMA ResizeGrows ==
  ASSUME prog \in Programs, NEW entries, Layout(entries), IsFiniteSet(entries),
         NEW x \in entries, x.blob.size = 2, NEW y, IsJump(y.blob), y.blob.size > 2,
         NEW c, c = {y}, NEW n \in Nat, Fills(c, x, n),
         NEW new, new = Replaced(entries, x, c, n), IsFiniteSet(new)
  PROVE  Grown(new) >= Grown(entries) + 1
  <1>1. x.blob.size > 0 /\ x \notin GrownJumps(entries)
    BY DEF GrownJumps
  <1>2. \A e \in c : e.blob.ast.kind # "TIMES"
    BY DEF IsJump
  <1>3. Cardinality(GrownJumps(new)) >= Cardinality(GrownJumps(entries)) + 1
    BY <1>1, JumpsCarried
  <1>4. Cardinality(Unrolled(new)) >= Cardinality(Unrolled(entries))
    <2>1. Unrolled(entries) \in SUBSET Unrolled(new)
      BY <1>1, <1>2, UnrolledCarried
    <2>2. IsFiniteSet(Unrolled(new))
      BY GrownFinite
    <2>3. Cardinality(Unrolled(entries)) <= Cardinality(Unrolled(new))
      BY <2>1, <2>2, FS_Subset
    <2> QED
      BY <2>3, GrownFinite
  <1> QED
    BY <1>3, <1>4, GrownFinite DEF Grown

\* An expanded TIMES is one more that is gone.
LEMMA ExpandGrows ==
  ASSUME prog \in Programs, NEW entries, Layout(entries), IsFiniteSet(entries),
         NEW x \in entries, x.blob.size > 0, x.blob.ast.kind = "TIMES",
         x.blob.node \in DOMAIN prog, prog[x.blob.node].kind = "TIMES",
         \A e \in Of(entries, x.blob.node) : e = x,
         NEW c, NEW n \in Nat, Fills(c, x, n), \A e \in c : e.blob.ast.kind # "TIMES",
         NEW new, new = Replaced(entries, x, c, n), IsFiniteSet(new)
  PROVE  Grown(new) >= Grown(entries) + 1
  <1> DEFINE A == Unrolled(entries)
             B == Unrolled(new)
             k == x.blob.node
  <1>1. x \notin GrownJumps(entries)
    BY DEF GrownJumps, IsJump
  <1>2. Cardinality(GrownJumps(new)) >= Cardinality(GrownJumps(entries))
    BY <1>1, JumpsCarried
  <1>3. A \subseteq B /\ k \in B /\ k \notin A
    BY UnrolledCarried
  <1>4. IsFiniteSet(A) /\ IsFiniteSet(B) /\ Cardinality(A) \in Nat /\ Cardinality(B) \in Nat
    BY GrownFinite
  <1> HIDE DEF A, B, k
  <1>5. Cardinality(B) >= Cardinality(A) + 1
    <2> DEFINE J == A \cup {k}
    <2>1. IsFiniteSet(J) /\ Cardinality(J) = Cardinality(A) + 1
      BY <1>3, <1>4, FS_AddElement
    <2>2. J \in SUBSET B
      BY <1>3
    <2> HIDE DEF J
    <2>3. Cardinality(J) <= Cardinality(B)
      BY <1>4, <2>2, FS_Subset
    <2> QED
      BY <1>4, <2>1, <2>3
  <1> QED
    BY <1>2, <1>4, <1>5, GrownFinite DEF Grown, A, B

-----------------------------------------------------------------------------
(* What makes the passes chase each other stays.                           *)

EquTargets(entries, names) == \E e \in entries : IsJump(e.blob) /\ e.blob.ast.ref \in names

LEMMA ChasingIs ==
  ASSUME nodesOffsets \in Seq(MapEntries)
  PROVE  Chasing <=> SelfDefined \/ EquTargets(Entries, DOMAIN equ) \/ VanishedIn(Entries)
  <1>1. TimesVanished <=> VanishedIn(Entries)
    BY DEF TimesVanished, VanishedIn, Of
  <1>2. JumpsToEqu <=> EquTargets(Entries, DOMAIN equ)
    BY InMap DEF JumpsToEqu, JumpEntries, EquTargets, Entries
  <1> QED
    BY <1>1, <1>2 DEF Chasing

LEMMA ChasingStays ==
  ASSUME nodesOffsets \in Seq(MapEntries), nodesOffsets' \in Seq(MapEntries),
         prog' = prog, DOMAIN equ' = DOMAIN equ, NEW new, new = ToSet(nodesOffsets'),
         EquTargets(Entries, DOMAIN equ) => EquTargets(new, DOMAIN equ),
         VanishedIn(Entries) => VanishedIn(new), ~Chasing'
  PROVE  ~Chasing /\ ~VanishedIn(new) /\ ~EquTargets(new, DOMAIN equ)
  <1>1. SelfDefined' <=> SelfDefined
    BY DEF SelfDefined, EquAst
  <1>2. TimesVanished' <=> VanishedIn(new)
    BY DEF TimesVanished, VanishedIn, Of, Entries
  <1>3. JumpsToEqu' <=> EquTargets(new, DOMAIN equ)
    <2> DEFINE m == nodesOffsets'
    <2>1. JumpsToEqu' <=> \E i \in DOMAIN m : IsJump(m[i].blob) /\ m[i].blob.ast.ref \in DOMAIN equ
      BY DEF JumpsToEqu, JumpEntries, IsJump
    <2> HIDE DEF m
    <2>2. /\ \A i \in DOMAIN m : m[i] \in ToSet(m)
          /\ \A e \in ToSet(m) : \E i \in DOMAIN m : m[i] = e
      BY InMap DEF m
    <2> QED
      BY <2>1, <2>2 DEF EquTargets, m
  <1> QED
    BY <1>1, <1>2, <1>3, ChasingIs DEF Chasing

-----------------------------------------------------------------------------
(* The invariant of the passes.                                            *)

Sizes ==
  /\ phase = "first" => ~needPass /\ \A e \in Entries : Small(e.blob)
  /\ phase = "second" /\ ~Chasing => \A e \in Entries : SizeKept(e, labels)

\* A pass that asks for another one has settled an EQU, or will.
Awaited(t, map, i, p, need) ==
  need => \/ p + 1 <= Grown(ToSet(map)) + Cardinality(Certain(t, ToSet(map)))
          \/ \E name : PendingIn(t, map, i, name)

\* What the passes so far were for: p of them, and the running one if
\* something has grown in it; in one that changes no size, EQUs.
BudgetIn(t, map, i, lbs, p, need) ==
  \/ p + 1 <= Grown(ToSet(map))
  \/ /\ \A e \in First(map, i) : Final(e, lbs)
     /\ p <= Grown(ToSet(map))
     /\ Awaited(t, map, i, p, need)
  \/ /\ \A e \in ToSet(map) : Final(e, lbs)
     /\ p <= Grown(ToSet(map)) + Cardinality(Certain(t, ToSet(map)))
     /\ Awaited(t, map, i, p, need)

Budget ==
  phase = "second" /\ ~Chasing => BudgetIn(equ, nodesOffsets, seen, labels, pass, needPass)

CInv == Sizes /\ Budget /\ GivesUpForCause

LEMMA GrownStays ==
  ASSUME prog' = prog
  PROVE  Grown(ToSet(nodesOffsets))' = Grown(ToSet(nodesOffsets'))
  BY DEF Grown, GrownJumps, Unrolled, IsJump, Of

LEMMA CertainIn ==
  ASSUME prog' = prog, labels' = labels
  PROVE  Certain(equ, ToSet(nodesOffsets))' = Certain(equ', ToSet(nodesOffsets'))
  BY DEF Certain, ClosedIn, Resting, Value, HangsIn, EquAst, Resolve, EqusAt

LEMMA BudgetGrown ==
  ASSUME prog' = prog, pass' + 1 <= Grown(ToSet(nodesOffsets'))
  PROVE  Budget'
  BY GrownStays DEF Budget, BudgetIn

LEMMA BudgetSame ==
  ASSUME prog' = prog, labels' = labels,
         ~Chasing' => BudgetIn(equ', nodesOffsets', seen', labels', pass', needPass')
  PROVE  Budget'
  <1> SUFFICES ASSUME ~Chasing'
               PROVE  BudgetIn(equ, nodesOffsets, seen, labels, pass, needPass)'
    BY DEF Budget
  <1>1. BudgetIn(equ', nodesOffsets', seen', labels', pass', needPass')
    OBVIOUS
  <1> DEFINE G == Grown(ToSet(nodesOffsets'))
             K == Certain(equ', ToSet(nodesOffsets'))
  <1>2. Grown(ToSet(nodesOffsets))' = G /\ Certain(equ, ToSet(nodesOffsets))' = K
    BY GrownStays, CertainIn
  <1>3. \A name : EquAst(name)' = EquAst(name)
    BY DEF EquAst
  <1>4. \A name : PendingIn(equ, nodesOffsets, seen, name)' <=> PendingIn(equ', nodesOffsets', seen', name)
    BY <1>2, <1>3 DEF PendingIn, EqusAt
  <1>5. Awaited(equ, nodesOffsets, seen, pass, needPass)' <=> Awaited(equ', nodesOffsets', seen', pass', needPass')
    BY <1>2, <1>4 DEF Awaited
  <1> QED
    BY <1>1, <1>2, <1>5 DEF BudgetIn, First, Final, IsJump, SchemaSizes, Shortest, Reach

-----------------------------------------------------------------------------
(* The invariant in the first pass and at its end.                         *)

\* A compilation that has ended, not for the want of passes.
LEMMA BudgetOver ==
  ASSUME phase' \notin {"first", "second"}, error' # "UNABLE_TO_COMPILE_FILE"
  PROVE  CInv'
  BY DEF CInv, Sizes, Budget, GivesUpForCause

LEMMA FailBudget ==
  ASSUME NEW code, code # "UNABLE_TO_COMPILE_FILE", Fail(code)
  PROVE  CInv'
  BY BudgetOver DEF Fail

LEMMA FirstBudget ==
  ASSUME phase' = "first", error' # "UNABLE_TO_COMPILE_FILE", ~needPass',
         \A e \in ToSet(nodesOffsets') : Small(e.blob)
  PROVE  CInv'
  <1>1. \A e \in Entries' : Small(e.blob)
    BY DEF Entries
  <1>2. (\A e \in Entries : Small(e.blob))'
    BY <1>1 DEF Small
  <1> QED
    BY <1>2 DEF CInv, Sizes, Budget, GivesUpForCause

\* What emitBlob sets is of an old blob or the new one.
LEMMA EmitSmall ==
  ASSUME NEW map \in Seq(MapEntries), NEW addr \in Nat, NEW blob, Small(blob),
         NEW s, blob \in [node : Nat, ast : Asts, size : Nat, val : Int \cup {NIL}, slaves : s],
         \A e \in ToSet(map) : Small(e.blob)
  PROVE  \A e \in ToSet(EmitBlob(map, addr, blob)) : Small(e.blob)
  <1>1. ASSUME NEW b, Small(b) PROVE \A e \in ToSet(MapSet(map, addr, b)) : Small(e.blob)
    <2> DEFINE new == [at |-> addr, blob |-> b]
               m   == MapSet(map, addr, b)
    <2>1. new.blob = b
      OBVIOUS
    <2> HIDE DEF new
    <2>2. CASE At(map, addr) = {}
      <3>1. m = Append(map, new)
        BY <2>2 DEF MapSet, new
      <3> DEFINE S == MapEntries \cup {new}
      <3>2. map \in Seq(S) /\ new \in S
        <4>1. DOMAIN map = 1 .. Len(map) /\ Len(map) \in Nat
          OBVIOUS
        <4>2. map \in [1 .. Len(map) -> S]
          BY <4>1
        <4> QED
          BY <4>1, <4>2, IsASeq
      <3> HIDE DEF S, m
      <3>3. ToSet(m) = ToSet(map) \cup {new}
        BY <3>1, <3>2, Appended
      <3> QED
        BY <1>1, <2>1, <3>3 DEF m
    <2>3. CASE At(map, addr) # {}
      <3>1. m = [i \in DOMAIN map |-> IF map[i].at = addr THEN new ELSE map[i]]
        BY <2>3 DEF MapSet, new
      <3> HIDE DEF m
      <3>2. \A e \in ToSet(m) : e = new \/ e \in ToSet(map)
        BY <3>1 DEF ToSet
      <3> QED
        BY <1>1, <2>1, <3>2 DEF m
    <2> QED
      BY <2>2, <2>3
  <1> DEFINE prev == At(map, addr)
             old  == map[CHOOSE i \in prev : TRUE].blob
             b1   == [old EXCEPT !.slaves = Append(@, blob.ast.name)]
             b2   == [blob EXCEPT !.slaves = Append(old.slaves, old.ast.name)]
  <1>2. EmitBlob(map, addr, blob) = MapSet(map, addr, blob)
          \/ (prev # {} /\ EmitBlob(map, addr, blob) = MapSet(map, addr, b1))
          \/ EmitBlob(map, addr, blob) = MapSet(map, addr, b2)
    BY DEF EmitBlob
  <1>3. prev # {} => Small(b1)
    <2>1. prev # {} => (CHOOSE i \in prev : TRUE) \in DOMAIN map
      BY DEF At
    <2>2. prev # {} => old \in Blobs /\ Small(old)
      <3>1. prev # {} => map[CHOOSE i \in prev : TRUE] \in ToSet(map)
                         /\ map[CHOOSE i \in prev : TRUE] \in MapEntries
        BY <2>1, InMap
      <3> QED
        BY <3>1 DEF MapEntries
    <2> HIDE DEF old
    <2>3. old \in Blobs => b1.ast = old.ast /\ b1.size = old.size
      BY DEF Blobs
    <2> HIDE DEF b1
    <2> QED
      BY <2>2, <2>3 DEF Small
  <1> HIDE DEF old
  <1>4. Small(b2)
    <2>1. b2.ast = blob.ast /\ b2.size = blob.size
      OBVIOUS
    <2> HIDE DEF b2
    <2> QED
      BY <2>1 DEF Small
  <1> HIDE DEF b1, b2, prev
  <1> QED
    BY <1>1, <1>2, <1>3, <1>4

LEMMA BudgetStarts == Init => CInv
  <1> SUFFICES ASSUME Init PROVE CInv
    OBVIOUS
  <1>1. phase = "first" /\ error = "none" /\ needPass = FALSE /\ Entries = {}
    BY DEF Init, Entries, ToSet
  <1> QED
    BY <1>1 DEF CInv, Sizes, Budget, GivesUpForCause

\* In the passes nothing has failed.
LEMMA NoErrorYet ==
  ASSUME IInv, phase \in {"first", "second"}
  PROVE  error = "none"
  BY DEF IInv, Position

LEMMA SizedBudget == FInv /\ CInv /\ FirstPassSized => CInv'
  <1> SUFFICES ASSUME FInv, CInv, FirstPassSized PROVE CInv'
    OBVIOUS
  <1> DEFINE ast  == prog[next]
             size == IF ast.kind = "TIMES" THEN 1 ELSE ast.size
             blob == Blob(next, ast, size)
             addr == Origin + offset
  <1>1. /\ IInv /\ phase = "first" /\ next <= Len(prog) /\ prog \in Programs
        /\ ast.kind \in {"INSTRUCTION", "DEFINE", "TIMES"}
        /\ nodesOffsets \in Seq(MapEntries)
    BY DEF FirstPassSized, FirstPassNode, FInv, IInv, MapGood
  <1>2. /\ nodesOffsets' = EmitBlob(nodesOffsets, addr, blob)
        /\ phase' = phase /\ error' = error /\ needPass' = needPass
    BY DEF FirstPassSized, passVars
  <1>3. error = "none" /\ ~needPass /\ \A e \in ToSet(nodesOffsets) : Small(e.blob)
    BY <1>1, NoErrorYet DEF CInv, Sizes, Entries
  <1>4. addr \in Nat /\ next \in Nat /\ ast \in Asts
    BY <1>1, AtNext, NodeFacts
  <1>5. ast.kind # "TIMES" => ast \in ByteNodes
    BY <1>1, AtNext, NodeFacts
  <1>6. size \in Nat
    BY <1>5 DEF ByteNodes
  <1>7. Small(blob)
    <2>1. blob.ast = ast /\ blob.size = size
      BY DEF Blob
    <2>2. ast.kind = "INSTRUCTION" =>
            /\ ast.mn \in Jumps => ast.size = 2
            /\ ast.mn = "mov" => ast.size = 3
      BY <1>5 DEF ByteNodes, Jumps
    <2> HIDE DEF blob
    <2> QED
      BY <2>1, <2>2 DEF Small
  <1>8. blob \in [node : Nat, ast : Asts, size : Nat, val : Int \cup {NIL}, slaves : {<< >>}]
    <2> HIDE DEF ast, size
    <2> QED
      BY <1>4, <1>6 DEF Blob
  <1> HIDE DEF blob, addr
  <1>9. \A e \in ToSet(nodesOffsets') : Small(e.blob)
    <2> DEFINE s == {<< >>}
    <2> HIDE DEF s
    <2>1. blob \in [node : Nat, ast : Asts, size : Nat, val : Int \cup {NIL}, slaves : s]
      BY <1>8 DEF s
    <2> QED
      BY <1>1, <1>2, <1>3, <1>4, <1>7, <2>1, EmitSmall
  <1> QED
    BY <1>1, <1>2, <1>3, <1>9, FirstBudget

LEMMA FirstEquBudget == FInv /\ CInv /\ FirstPassEqu => CInv'
  <1> SUFFICES ASSUME FInv, CInv, FirstPassEqu PROVE CInv'
    OBVIOUS
  <1> DEFINE ast  == prog[next]
             blob == Blob(next, ast, 0)
             addr == Origin + offset
  <1>1. /\ IInv /\ phase = "first" /\ next <= Len(prog) /\ prog \in Programs
        /\ ast.kind = "EQU" /\ nodesOffsets \in Seq(MapEntries)
    BY DEF FirstPassEqu, FirstPassNode, FInv, IInv, MapGood
  <1>2. \/ Fail("EQU_ALREADY_DEFINED")
        \/ /\ nodesOffsets' = EmitBlob(nodesOffsets, addr, blob)
           /\ phase' = phase /\ error' = error /\ needPass' = needPass
    BY DEF FirstPassEqu, passVars
  <1>3. error = "none" /\ ~needPass /\ \A e \in ToSet(nodesOffsets) : Small(e.blob)
    BY <1>1, NoErrorYet DEF CInv, Sizes, Entries
  <1>4. addr \in Nat /\ next \in Nat /\ ast \in Asts
    BY <1>1, AtNext, NodeFacts
  <1>5. Small(blob)
    BY <1>1 DEF Small, Blob
  <1>6. blob \in [node : Nat, ast : Asts, size : Nat, val : Int \cup {NIL}, slaves : {<< >>}]
    <2> HIDE DEF ast
    <2> QED
      BY <1>4 DEF Blob
  <1> HIDE DEF blob, addr
  <1>7. CASE Fail("EQU_ALREADY_DEFINED")
    BY <1>7, FailBudget
  <1>8. CASE /\ nodesOffsets' = EmitBlob(nodesOffsets, addr, blob)
             /\ phase' = phase /\ error' = error /\ needPass' = needPass
    <2> DEFINE s == {<< >>}
    <2> HIDE DEF s
    <2>1. blob \in [node : Nat, ast : Asts, size : Nat, val : Int \cup {NIL}, slaves : s]
      BY <1>6 DEF s
    <2>2. \A e \in ToSet(nodesOffsets') : Small(e.blob)
      BY <1>1, <1>3, <1>4, <1>5, <1>8, <2>1, EmitSmall
    <2> QED
      BY <1>1, <1>3, <1>8, <2>2, FirstBudget
  <1> QED
    BY <1>2, <1>7, <1>8

LEMMA LabelBudget == FInv /\ CInv /\ FirstPassLabel => CInv'
  <1> SUFFICES ASSUME FInv, CInv, FirstPassLabel PROVE CInv'
    OBVIOUS
  <1>1. IInv /\ phase = "first"
    BY DEF FirstPassLabel, FirstPassNode, FInv
  <1>2. \/ Fail("LABEL_ALREADY_DEFINED")
        \/ /\ nodesOffsets' = nodesOffsets
           /\ phase' = phase /\ error' = error /\ needPass' = needPass
    BY DEF FirstPassLabel, passVars
  <1>3. error = "none" /\ ~needPass /\ \A e \in ToSet(nodesOffsets) : Small(e.blob)
    BY <1>1, NoErrorYet DEF CInv, Sizes, Entries
  <1>4. CASE Fail("LABEL_ALREADY_DEFINED")
    BY <1>4, FailBudget
  <1>5. CASE /\ nodesOffsets' = nodesOffsets
             /\ phase' = phase /\ error' = error /\ needPass' = needPass
    BY <1>1, <1>3, <1>5, FirstBudget
  <1> QED
    BY <1>2, <1>4, <1>5

\* The sizes of the entries in the second pass.
LEMMA SizesIn ==
  ASSUME phase' = "second",
         ~Chasing' => \A e \in ToSet(nodesOffsets') : SizeKept(e, labels')
  PROVE  Sizes'
  <1>1. ~Chasing' => (\A e \in Entries : SizeKept(e, labels))'
    BY DEF Entries, SizeKept, Away, Reach
  <1> QED
    BY <1>1 DEF Sizes

LEMMA SecondBudget ==
  ASSUME phase' = "second", error' # "UNABLE_TO_COMPILE_FILE", Budget',
         ~Chasing' => \A e \in ToSet(nodesOffsets') : SizeKept(e, labels')
  PROVE  CInv'
  <1>1. Sizes'
    BY SizesIn
  <1> QED
    BY <1>1 DEF CInv, GivesUpForCause

LEMMA BeginBudget == FInv /\ CInv /\ BeginSecondPass => CInv'
  <1> SUFFICES ASSUME FInv, CInv, BeginSecondPass PROVE CInv'
    OBVIOUS
  <1>1. /\ IInv /\ phase = "first" /\ phase' = "second" /\ prog' = prog /\ error' = error
        /\ labels' = labels /\ equ' = equ /\ nodesOffsets' = nodesOffsets
        /\ pass' = pass /\ seen' = seen /\ needPass' = needPass
    BY DEF BeginSecondPass, FInv, firstVars, passVars
  <1>2. /\ error = "none" /\ ~needPass /\ \A e \in ToSet(nodesOffsets) : Small(e.blob)
        /\ seen = 0 /\ pass = 0 /\ prog \in Programs
        /\ nodesOffsets \in Seq(MapEntries) /\ IsOnce(nodesOffsets)
    BY <1>1, NoErrorYet DEF CInv, Sizes, Entries, IInv, Position, MapGood
  <1>3. \A e \in ToSet(nodesOffsets) : SizeKept(e, labels)
    <2>1. ASSUME NEW e \in ToSet(nodesOffsets) PROVE SizeKept(e, labels)
      BY <1>2 DEF SizeKept, Small, Jumps
    <2> QED
      BY <2>1
  <1>4. BudgetIn(equ, nodesOffsets, seen, labels, pass, needPass)
    <2>1. First(nodesOffsets, seen) = {}
      BY <1>2 DEF First
    <2>2. IsFiniteSet(ToSet(nodesOffsets))
      BY <1>2, OnceCounts
    <2>3. pass <= Grown(ToSet(nodesOffsets))
      BY <1>2, <2>2, GrownFinite
    <2> QED
      BY <1>2, <2>1, <2>3 DEF BudgetIn, Awaited
  <1>5. BudgetIn(equ', nodesOffsets', seen', labels', pass', needPass')
    BY <1>1, <1>4, Zenon
  <1>6. Budget'
    BY <1>1, <1>5, BudgetSame
  <1> QED
    BY <1>1, <1>2, <1>3, <1>6, SecondBudget

-----------------------------------------------------------------------------
(* Visits that leave the layout.                                           *)

LEMMA OneMoreIn ==
  ASSUME NEW L, IsFiniteSet(L), NEW K, K \subseteq L
  PROVE  /\ Cardinality(K) \in Nat /\ Cardinality(L) \in Nat /\ Cardinality(K) <= Cardinality(L)
         /\ \A m \in L : m \notin K => Cardinality(K) + 1 <= Cardinality(L)
  <1>1. IsFiniteSet(K) /\ Cardinality(K) <= Cardinality(L)
    BY FS_Subset
  <1>2. Cardinality(K) \in Nat /\ Cardinality(L) \in Nat
    BY <1>1, FS_CardinalityType
  <1>3. ASSUME NEW m \in L, m \notin K PROVE Cardinality(K) + 1 <= Cardinality(L)
    <2> DEFINE J == K \cup {m}
    <2>1. J \subseteq L /\ Cardinality(J) = Cardinality(K) + 1
      BY <1>1, <1>3, FS_AddElement
    <2> HIDE DEF J
    <2> QED
      BY <2>1, FS_Subset
  <1> QED
    BY <1>1, <1>2, <1>3

\* There are as many certain EQUs as EQUs, at most.
LEMMA EqusFinite ==
  ASSUME prog \in Programs, EqusGood(equ, Len(prog) + 1)
  PROVE  /\ IsFiniteSet(DOMAIN equ)
         /\ Cardinality(DOMAIN equ) <= Cardinality({k \in DOMAIN prog : prog[k].kind = "EQU"})
  <1> DEFINE Q == {k \in DOMAIN prog : prog[k].kind = "EQU"}
             f == [k \in Q |-> prog[k].name]
             D == DOMAIN equ
  <1>1. IsFiniteSet(Q)
    <2>1. DOMAIN prog = 1 .. Len(prog) /\ Len(prog) \in Nat
      BY NodeFacts
    <2>2. IsFiniteSet(DOMAIN prog)
      BY <2>1, UptoFacts
    <2>3. Q \in SUBSET DOMAIN prog
      OBVIOUS
    <2> HIDE DEF Q
    <2> QED
      BY <2>2, <2>3, FS_Subset
  <1>2. \A name \in D : \E k \in Q : f[k] = name
    BY DEF EqusGood
  <1>3. \A k \in Q : f[k] \in D
    <2>1. \A k \in DOMAIN prog : k < Len(prog) + 1
      BY NodeFacts
    <2> QED
      BY <2>1 DEF EqusGood
  <1>4. f \in Surjection(Q, D)
    <2>1. f \in [Q -> D]
      BY <1>3
    <2> QED
      BY <1>2, <2>1 DEF Surjection
  <1> HIDE DEF Q, f, D
  <1>5. IsFiniteSet(D) /\ Cardinality(D) <= Cardinality(Q)
    BY <1>1, <1>4, FS_Surjection
  <1> QED
    BY <1>5 DEF D, Q

\* What a visit does to the EQUs that the pass waits for.
LEMMA StillAwaited ==
  ASSUME FInv, ~Chasing, NEW kind, Visit(kind), NEW t, t = PassEqus(EqusAt(Current.blob)),
         NEW need, need = (needPass \/ EquChanged(t, EqusAt(Current.blob))),
         NEW m, NEW y, Revalued(nodesOffsets, m, seen + 1, y),
         Grown(ToSet(m)) = Grown(Entries), pass \in Nat,
         pass <= Grown(Entries) + Cardinality(Certain(equ, Entries)),
         Awaited(equ, nodesOffsets, seen, pass, needPass)
  PROVE  /\ pass <= Grown(ToSet(m)) + Cardinality(Certain(t, ToSet(m)))
         /\ Awaited(t, m, seen + 1, pass, need)
  <1> DEFINE names == EqusAt(Current.blob)
             E     == Entries
             E2    == ToSet(m)
             K     == Certain(equ, E)
             L     == Certain(t, E2)
             G     == Grown(E)
             k     == Cardinality(K)
             l     == Cardinality(L)
  <1>1. /\ IInv /\ Visiting /\ Current = nodesOffsets[seen + 1] /\ Current \in E
        /\ prog \in Programs /\ seen \in Nat /\ nodesOffsets \in Seq(MapEntries)
        /\ IsOnce(nodesOffsets) /\ EqusGood(equ, Len(prog) + 1)
        /\ DOMAIN nodesOffsets = 1 .. Len(nodesOffsets)
    <2>1. IInv /\ Visiting
      BY DEF FInv, Visit
    <2> QED
      BY <2>1, VisitFacts, VisitNames DEF IInv, Position
  <1>2. /\ E2 = (E \ {Current}) \cup {y} /\ DOMAIN m = DOMAIN nodesOffsets
        /\ \A j \in DOMAIN nodesOffsets : j # seen + 1 => m[j] = nodesOffsets[j]
        /\ EqusAt(y.blob) = names
    BY <1>1 DEF Revalued, InPlace, Entries, EqusAt
  <1>3. \A x : HangsIn(E2, x) <=> HangsIn(E, x)
    <2> HIDE DEF E, E2, names
    <2> QED
      BY <1>1, <1>2 DEF HangsIn, names
  <1>4. CertainAfter(E2, names, t)
    <2> HIDE DEF E2
    <2> QED
      BY <1>1, <1>3, CertainGrows
  <1>5. /\ K \subseteq L
        /\ \A x \in ToSet(names) : (EquAst(x).ref \in DOMAIN equ => EquAst(x).ref \in K) => x \in L
        /\ EquChanged(t, names) => \E x \in ToSet(names) : x \notin K
    BY <1>4 DEF CertainAfter
  <1>6. t \in Tables(equ) /\ ToSet(names) \subseteq DOMAIN equ
    BY <1>1, VisitNames
  <1>7. DOMAIN t = DOMAIN equ
    BY <1>6 DEF Tables
  <1>8. IsFiniteSet(L)
    <2>1. L \in SUBSET DOMAIN equ
      BY <1>7, CertainClosed
    <2>2. IsFiniteSet(DOMAIN equ)
      BY <1>1, EqusFinite
    <2> HIDE DEF L
    <2> QED
      BY <2>1, <2>2, FS_Subset
  <1>9. G \in Nat /\ Grown(E2) = G
    <2>1. IsFiniteSet(E)
      BY <1>1, OnceCounts DEF Entries
    <2> QED
      BY <1>1, <2>1, GrownFinite
  <1>10. need => pass + 1 <= G + k \/ \E x : PendingIn(equ, nodesOffsets, seen, x)
    <2>1. CASE needPass
      BY <2>1 DEF Awaited, Entries
    <2>2. CASE ~needPass
      <3> SUFFICES ASSUME need PROVE \E x : PendingIn(equ, nodesOffsets, seen, x)
        OBVIOUS
      <3>1. EquChanged(t, names)
        BY <2>2
      <3>2. PICK x \in ToSet(names) : x \notin K
        BY <1>5, <3>1
      <3>3. x \in DOMAIN equ
        BY <1>6, <3>2
      <3> QED
        BY <1>1, <2>2, <3>2, <3>3, PendingExists
    <2> QED
      BY <2>1, <2>2
  <1>11. pass <= G + k
    OBVIOUS
  <1>12. \A x : PendingIn(equ, nodesOffsets, seen, x) => x \in L \/ PendingIn(t, m, seen + 1, x)
    <2> SUFFICES ASSUME NEW x, PendingIn(equ, nodesOffsets, seen, x), x \notin L
                 PROVE  PendingIn(t, m, seen + 1, x)
      OBVIOUS
    <2>1. /\ x \in DOMAIN equ /\ (EquAst(x).ref \in DOMAIN equ => EquAst(x).ref \in K)
          /\ \E j \in DOMAIN nodesOffsets : j > seen /\ x \in ToSet(EqusAt(nodesOffsets[j].blob))
      BY DEF PendingIn, Entries
    <2>2. PICK j \in DOMAIN nodesOffsets : j > seen /\ x \in ToSet(EqusAt(nodesOffsets[j].blob))
      BY <2>1
    <2>3. x \notin ToSet(names)
      BY <1>5, <2>1
    <2>4. j # seen + 1
      BY <1>1, <2>2, <2>3
    <2>5. j > seen + 1 /\ m[j] = nodesOffsets[j] /\ j \in DOMAIN m
      BY <1>1, <1>2, <2>2, <2>4
    <2>6. x \in DOMAIN t /\ (EquAst(x).ref \in DOMAIN t => EquAst(x).ref \in L)
      BY <1>5, <1>7, <2>1
    <2> HIDE DEF names, E
    <2> QED
      BY <2>2, <2>5, <2>6 DEF PendingIn
  <1>13. \A x : PendingIn(equ, nodesOffsets, seen, x) => x \notin K
    BY DEF PendingIn, Entries
  <1> HIDE DEF K, L
  <1>14. k \in Nat /\ l \in Nat /\ k <= l /\ \A x \in L : x \notin K => k + 1 <= l
    BY <1>5, <1>8, OneMoreIn
  <1> HIDE DEF G, k, l
  <1>15. pass <= G + l
    BY <1>9, <1>11, <1>14
  <1>16. need => pass + 1 <= G + l \/ \E x : PendingIn(t, m, seen + 1, x)
    <2> SUFFICES ASSUME need, ~(\E x : PendingIn(t, m, seen + 1, x)) PROVE pass + 1 <= G + l
      OBVIOUS
    <2>1. CASE pass + 1 <= G + k
      BY <1>9, <1>14, <2>1
    <2>2. CASE \E x : PendingIn(equ, nodesOffsets, seen, x)
      <3>1. PICK x : PendingIn(equ, nodesOffsets, seen, x)
        BY <2>2
      <3>2. k + 1 <= l
        BY <1>12, <1>13, <1>14, <3>1
      <3> QED
        BY <1>9, <1>11, <1>14, <3>2
    <2> QED
      BY <1>10, <2>1, <2>2
  <1> QED
    BY <1>9, <1>15, <1>16 DEF Awaited, G, L, l

\* What a visit makes of the budget of the pass.
LEMMA StillBudgeted ==
  ASSUME FInv, ~Chasing, NEW kind, Visit(kind), NEW t, t = PassEqus(EqusAt(Current.blob)),
         NEW need, need = (needPass \/ EquChanged(t, EqusAt(Current.blob))),
         NEW m, NEW y, Revalued(nodesOffsets, m, seen + 1, y), Final(y, labels),
         BudgetIn(equ, nodesOffsets, seen, labels, pass, needPass)
  PROVE  BudgetIn(t, m, seen + 1, labels, pass, need)
  <1> DEFINE E  == Entries
             E2 == ToSet(m)
             G  == Grown(E)
             k  == Cardinality(Certain(equ, E))
  <1>1. /\ IInv /\ Visiting /\ Current = nodesOffsets[seen + 1] /\ Current \in E
        /\ prog \in Programs /\ seen \in Nat /\ nodesOffsets \in Seq(MapEntries)
        /\ IsOnce(nodesOffsets) /\ EqusGood(equ, Len(prog) + 1)
        /\ seen + 1 \in DOMAIN nodesOffsets
    <2>1. IInv /\ Visiting
      BY DEF FInv, Visit
    <2> QED
      BY <2>1, VisitFacts, VisitNames DEF IInv, Position
  <1>2. pass \in Nat
    BY <1>1, BoundsAssumption DEF IInv, Position
  <1>3. IsFiniteSet(E) /\ G \in Nat
    <2>1. IsFiniteSet(E)
      BY <1>1, OnceCounts DEF Entries
    <2> QED
      BY <1>1, <2>1, GrownFinite
  <1>4. k \in Nat
    <2>1. IsFiniteSet(DOMAIN equ)
      BY <1>1, EqusFinite
    <2> DEFINE K == Certain(equ, E)
    <2>2. K \subseteq DOMAIN equ
      BY CertainClosed
    <2> HIDE DEF K
    <2>3. Cardinality(K) \in Nat
      BY <2>1, <2>2, OneMoreIn
    <2> QED
      BY <2>3 DEF K
  <1>5. /\ E2 = (E \ {Current}) \cup {y} /\ y \notin E \ {Current}
        /\ y.blob.node = Current.blob.node /\ y.blob.ast = Current.blob.ast
        /\ y.blob.size = Current.blob.size
        /\ DOMAIN m = DOMAIN nodesOffsets /\ m[seen + 1] = y
        /\ \A j \in DOMAIN nodesOffsets : j # seen + 1 => m[j] = nodesOffsets[j]
    BY <1>1 DEF Revalued, InPlace, Entries
  <1>6. Grown(E2) = G
    <2> HIDE DEF E, E2
    <2> QED
      BY <1>1, <1>3, <1>5, GrownSame DEF G
  <1>7. First(m, seen + 1) = First(nodesOffsets, seen) \cup {y}
    <2>1. 1 .. seen + 1 \subseteq DOMAIN nodesOffsets
      <3>1. DOMAIN nodesOffsets = 1 .. Len(nodesOffsets) /\ Len(nodesOffsets) \in Nat
        BY <1>1
      <3> QED
        BY <1>1, <3>1
    <2>2. seen \in Nat /\ \A j \in DOMAIN nodesOffsets : j # seen + 1 => m[j] = nodesOffsets[j]
      BY <1>1, <1>5
    <2>3. First(m, seen + 1) = First(nodesOffsets, seen) \cup {m[seen + 1]}
      BY <2>1, <2>2, FirstMore
    <2> QED
      BY <1>5, <2>3
  <1>8. ASSUME pass <= G + k, Awaited(equ, nodesOffsets, seen, pass, needPass)
        PROVE  /\ pass <= Grown(E2) + Cardinality(Certain(t, E2))
               /\ Awaited(t, m, seen + 1, pass, need)
    BY <1>2, <1>6, <1>8, StillAwaited
  <1>9. /\ ToSet(nodesOffsets) = E
        /\ \/ pass + 1 <= G
           \/ /\ \A e \in First(nodesOffsets, seen) : Final(e, labels)
              /\ pass <= G /\ Awaited(equ, nodesOffsets, seen, pass, needPass)
           \/ /\ \A e \in E : Final(e, labels)
              /\ pass <= G + k /\ Awaited(equ, nodesOffsets, seen, pass, needPass)
    BY DEF BudgetIn, Entries
  <1> HIDE DEF E, E2, G, k
  <1>10. CASE pass + 1 <= G
    BY <1>6, <1>10 DEF BudgetIn, E2
  <1>11. CASE /\ \A e \in First(nodesOffsets, seen) : Final(e, labels)
              /\ pass <= G /\ Awaited(equ, nodesOffsets, seen, pass, needPass)
    <2>1. pass <= G + k
      BY <1>2, <1>3, <1>4, <1>11
    <2>2. \A e \in First(m, seen + 1) : Final(e, labels)
      BY <1>7, <1>11
    <2> QED
      BY <1>6, <1>8, <1>11, <2>1, <2>2 DEF BudgetIn, E2
  <1>12. CASE /\ \A e \in E : Final(e, labels)
              /\ pass <= G + k /\ Awaited(equ, nodesOffsets, seen, pass, needPass)
    <2>1. \A e \in E2 : Final(e, labels)
      BY <1>5, <1>12
    <2> QED
      BY <1>8, <1>12, <2>1 DEF BudgetIn, E2
  <1> QED
    BY <1>9, <1>10, <1>11, <1>12

LEMMA VisitBudget ==
  ASSUME FInv, CInv, NEW kind, Visit(kind), SameLayout,
         equ' = PassEqus(EqusAt(Current.blob)),
         needPass' = (needPass \/ EquChanged(equ', EqusAt(Current.blob))),
         NEW y, Revalued(nodesOffsets, nodesOffsets', seen + 1, y),
         ~Chasing => Final(y, labels)
  PROVE  CInv'
  <1> DEFINE E == ToSet(nodesOffsets)
             m == nodesOffsets'
             t == equ'
  <1>1. /\ IInv /\ phase = "second" /\ Current = nodesOffsets[seen + 1] /\ Current \in E
        /\ Visiting /\ nodesOffsets \in Seq(MapEntries) /\ IsOnce(nodesOffsets)
    <2>1. IInv /\ Visiting
      BY DEF FInv, Visit
    <2> QED
      BY <2>1, VisitFacts DEF Entries
  <1>2. /\ prog' = prog /\ phase' = phase /\ error' = error /\ labels' = labels
        /\ pass' = pass /\ seen' = seen + 1
    BY DEF SameLayout
  <1>3. error = "none"
    BY <1>1, NoErrorYet
  <1>4. /\ m \in Seq(MapEntries) /\ ToSet(m) = (E \ {Current}) \cup {y} /\ y \notin E \ {Current}
        /\ y.blob.node = Current.blob.node /\ y.blob.ast = Current.blob.ast
        /\ y.blob.size = Current.blob.size /\ y.at = Current.at
    BY <1>1 DEF Revalued, InPlace
  <1>5. DOMAIN t = DOMAIN equ
    <2>1. t \in Tables(equ)
      BY <1>1, VisitPass
    <2> QED
      BY <2>1 DEF Tables
  <1>6. EquTargets(E, DOMAIN equ) => EquTargets(ToSet(m), DOMAIN equ)
    <2> DEFINE E2 == ToSet(m)
    <2>1. E2 = (E \ {Current}) \cup {y}
      BY <1>4
    <2> HIDE DEF E, E2
    <2>2. EquTargets(E, DOMAIN equ) => EquTargets(E2, DOMAIN equ)
      BY <1>1, <1>4, <2>1 DEF EquTargets, IsJump
    <2> QED
      BY <2>2 DEF E2
  <1>7. VanishedIn(E) => VanishedIn(ToSet(m))
    <2> DEFINE E2 == ToSet(m)
    <2>1. E2 = (E \ {Current}) \cup {y}
      BY <1>4
    <2> HIDE DEF E, E2
    <2>2. \A k : Of(E, k) = {} => Of(E2, k) = {}
      BY <1>1, <1>4, <2>1 DEF Of
    <2>3. VanishedIn(E) => VanishedIn(E2)
      BY <2>2 DEF VanishedIn
    <2> QED
      BY <2>3 DEF E2
  <1>8. ~Chasing' => ~Chasing
    BY <1>1, <1>2, <1>4, <1>5, <1>6, <1>7, ChasingStays DEF Entries
  <1>9. ~Chasing => \A e \in ToSet(m) : SizeKept(e, labels)
    <2> SUFFICES ASSUME ~Chasing PROVE \A e \in ToSet(m) : SizeKept(e, labels)
      OBVIOUS
    <2>1. \A e \in E : SizeKept(e, labels)
      BY <1>1 DEF CInv, Sizes, Entries
    <2> HIDE DEF E, m
    <2>2. SizeKept(y, labels)
      BY <1>1, <1>4, <2>1 DEF SizeKept, Away
    <2> QED
      BY <1>4, <2>1, <2>2
  <1>10. ~Chasing => BudgetIn(t, m, seen + 1, labels, pass, needPass')
    <2> SUFFICES ASSUME ~Chasing PROVE BudgetIn(t, m, seen + 1, labels, pass, needPass')
      OBVIOUS
    <2>1. BudgetIn(equ, nodesOffsets, seen, labels, pass, needPass)
      BY <1>1 DEF CInv, Budget
    <2>2. needPass' = (needPass \/ EquChanged(t, EqusAt(Current.blob)))
      OBVIOUS
    <2>3. t = PassEqus(EqusAt(Current.blob))
      OBVIOUS
    <2> HIDE DEF t, m
    <2>4. Revalued(nodesOffsets, m, seen + 1, y)
      BY DEF m
    <2> QED
      BY <2>1, <2>2, <2>3, <2>4, StillBudgeted
  <1>11. ~Chasing' => BudgetIn(equ', nodesOffsets', seen', labels', pass', needPass')
    BY <1>2, <1>8, <1>10
  <1>12. Budget'
    BY <1>2, <1>11, BudgetSame
  <1> QED
    BY <1>1, <1>2, <1>3, <1>8, <1>9, <1>12, SecondBudget

\* A jump whose name is no EQU goes to the label.
LEMMA JumpTarget ==
  ASSUME nodesOffsets \in Seq(MapEntries), ~Chasing, NEW e \in Entries, IsJump(e.blob),
         NEW t, DOMAIN t = DOMAIN equ
  PROVE  e.blob.ast.ref \notin DOMAIN equ /\ Resolve(t, e.blob.ast.ref) = labels[e.blob.ast.ref]
  <1>1. ~EquTargets(Entries, DOMAIN equ)
    BY ChasingIs
  <1>2. e.blob.ast.ref \notin DOMAIN equ
    BY <1>1 DEF EquTargets
  <1> QED
    BY <1>2 DEF Resolve

LEMMA VisitEquBudget == FInv /\ CInv /\ VisitEqu => CInv'
  <1> SUFFICES ASSUME FInv, CInv, VisitEqu PROVE CInv'
    OBVIOUS
  <1>1. /\ IInv /\ Visit("EQU") /\ Visiting /\ equ' = PassEqus(EqusAt(Current.blob))
        /\ needPass' = (needPass \/ EquChanged(equ', EqusAt(Current.blob)))
        /\ nodesOffsets' = nodesOffsets /\ SameLayout /\ Current.blob.ast.kind = "EQU"
    BY DEF VisitEqu, Visit, FInv
  <1>2. Revalued(nodesOffsets, nodesOffsets', seen + 1, Current)
    <2> DEFINE i == seen + 1
    <2>1. i \in DOMAIN nodesOffsets /\ Current = nodesOffsets[i]
          /\ nodesOffsets \in Seq(MapEntries) /\ IsOnce(nodesOffsets)
      BY <1>1, VisitFacts
    <2> HIDE DEF i
    <2>2. Revalued(nodesOffsets, nodesOffsets, i, Current)
      BY <2>1, SameValue
    <2> QED
      BY <1>1, <2>2 DEF i
  <1>3. Final(Current, labels)
    BY <1>1 DEF Final, IsJump
  <1> QED
    BY <1>1, <1>2, <1>3, VisitBudget

LEMMA DefinitionBudget == FInv /\ CInv /\ VisitDefinition => CInv'
  <1> SUFFICES ASSUME FInv, CInv, VisitDefinition PROVE CInv'
    OBVIOUS
  <1> DEFINE b == Current.blob
             v == IF b.ast.ref = NoRef THEN 0 ELSE Resolve(equ', b.ast.ref)
             i == seen + 1
  <1>1. /\ IInv /\ Visit("DEFINE") /\ Visiting /\ equ' = PassEqus(b.slaves) /\ SameLayout
        /\ needPass' = (needPass \/ EquChanged(equ', b.slaves)) /\ b.ast.kind = "DEFINE"
    BY DEF VisitDefinition, Visit, FInv
  <1>2. equ' \in Tables(equ) /\ b.ast.ref \in Defined \cup {NoRef}
    BY <1>1, VisitPass
  <1>3. v \in Int
    <2>1. CASE b.ast.ref \in Defined
      <3>1. \A l \in DOMAIN labels : labels[l] \in Nat
        BY <1>1, VisitFacts
      <3>2. Resolve(equ', b.ast.ref) \in Int
        BY <1>2, <2>1, <3>1, Resolved
      <3> QED
        BY <3>2
    <2> QED
      BY <1>2, <2>1
  <1>4. \/ nodesOffsets' = nodesOffsets
        \/ nodesOffsets' = [nodesOffsets EXCEPT ![i].blob.val = v]
    BY DEF VisitDefinition
  <1>5. EqusAt(b) = b.slaves
    BY <1>1, SlavesOnly
  <1> HIDE DEF v, i
  <1>6. /\ i \in DOMAIN nodesOffsets /\ Current = nodesOffsets[i]
        /\ nodesOffsets \in Seq(MapEntries) /\ IsOnce(nodesOffsets)
        /\ \A d, e \in ToSet(nodesOffsets) : d.at = e.at => d = e
    BY <1>1, VisitFacts DEF i, Layout, Entries
  <1>7. \E y : Revalued(nodesOffsets, nodesOffsets', i, y)
    <2>1. CASE nodesOffsets' = nodesOffsets
      <3>1. Revalued(nodesOffsets, nodesOffsets, i, Current)
        BY <1>6, SameValue
      <3> QED
        BY <2>1, <3>1
    <2>2. CASE nodesOffsets' = [nodesOffsets EXCEPT ![i].blob.val = v]
      <3> DEFINE m == [nodesOffsets EXCEPT ![i].blob.val = v]
      <3>1. Revalued(nodesOffsets, m, i, m[i])
        BY <1>3, <1>6, ValueInPlace
      <3> HIDE DEF m
      <3>2. nodesOffsets' = m
        BY <2>2 DEF m
      <3> QED
        BY <3>1, <3>2
    <2> QED
      BY <1>4, <2>1, <2>2
  <1>8. PICK y : Revalued(nodesOffsets, nodesOffsets', i, y)
    BY <1>7
  <1>9. Final(y, labels)
    <2>1. y.blob.ast.kind = "DEFINE"
      BY <1>1, <1>6, <1>8 DEF Revalued
    <2> QED
      BY <2>1 DEF Final, IsJump
  <1>10. Revalued(nodesOffsets, nodesOffsets', seen + 1, y)
    BY <1>8 DEF i
  <1> HIDE DEF b
  <1>11. /\ equ' = PassEqus(EqusAt(Current.blob))
         /\ needPass' = (needPass \/ EquChanged(equ', EqusAt(Current.blob)))
    BY <1>1, <1>5 DEF b
  <1> QED
    BY <1>1, <1>9, <1>10, <1>11, VisitBudget

-----------------------------------------------------------------------------
(* Visits that resize.                                                     *)

LEMMA ReplacedChasing ==
  ASSUME NEW entries, Layout(entries), NEW x \in entries, x.blob.size > 0,
         NEW c, NEW n \in Nat, Fills(c, x, n), NEW new, new = Replaced(entries, x, c, n),
         IsJump(x.blob) => \E e \in c : e.blob.ast = x.blob.ast, NEW names
  PROVE  /\ EquTargets(entries, names) => EquTargets(new, names)
         /\ VanishedIn(entries) => VanishedIn(new)
  <1>1. PICK h : Carries(h, entries, x, c, new)
    BY Carried
  <1>2. EquTargets(entries, names) => EquTargets(new, names)
    <2> SUFFICES ASSUME NEW e \in entries, IsJump(e.blob), e.blob.ast.ref \in names
                 PROVE  EquTargets(new, names)
      BY DEF EquTargets
    <2>1. CASE e = x
      <3>1. PICK d \in c : d.blob.ast = x.blob.ast
        BY <2>1
      <3>2. d \in new
        BY <1>1 DEF Carries
      <3> QED
        BY <2>1, <3>1, <3>2 DEF EquTargets, IsJump
    <2>2. CASE e # x
      <3>1. h[e] \in new /\ h[e].blob = e.blob
        BY <1>1, <2>2 DEF Carries
      <3> QED
        BY <3>1 DEF EquTargets
    <2> QED
      BY <2>1, <2>2
  <1>3. VanishedIn(entries) => VanishedIn(new)
    <2>1. \A f \in new : \E e \in entries : f.blob.node = e.blob.node
      <3>1. \A f \in c : f.blob.node = x.blob.node
        BY DEF Fills
      <3>2. \A f \in new : f \in c \/ \E e \in entries : f.blob = e.blob
        BY <1>1 DEF Carries
      <3> QED
        BY <3>1, <3>2
    <2>2. \A k : Of(entries, k) = {} => Of(new, k) = {}
      BY <2>1 DEF Of
    <2> QED
      BY <2>2 DEF VanishedIn
  <1> QED
    BY <1>2, <1>3

\* A visit in which something grows.
LEMMA GrowBudget ==
  ASSUME FInv, CInv, Visiting, prog' = prog, phase' = phase, error' = error, pass' = pass,
         DOMAIN equ' = DOMAIN equ, NEW x, x = Current, x.blob.size > 0,
         NEW c, NEW n \in Nat, Fills(c, x, n),
         nodesOffsets' \in Seq(MapEntries), IsOnce(nodesOffsets'),
         ToSet(nodesOffsets') = Replaced(Entries, x, c, n),
         labels' = ResizedLabels(x.at, n - x.blob.size),
         IsJump(x.blob) => \E e \in c : e.blob.ast = x.blob.ast,
         ~Chasing => /\ n >= x.blob.size /\ ~Final(x, labels)
                     /\ Grown(ToSet(nodesOffsets')) >= Grown(Entries) + 1
                     /\ \A e \in c : SizeKept(e, labels')
  PROVE  CInv'
  <1> DEFINE E  == Entries
             E2 == ToSet(nodesOffsets')
             G  == Grown(E)
             G2 == Grown(E2)
  <1>1. /\ IInv /\ phase = "second" /\ x = nodesOffsets[seen + 1] /\ x \in E
        /\ nodesOffsets \in Seq(MapEntries) /\ IsOnce(nodesOffsets) /\ Layout(E)
        /\ prog \in Programs /\ \A l \in DOMAIN labels : labels[l] \in Nat
    BY VisitFacts DEF FInv
  <1>2. error = "none"
    BY <1>1, NoErrorYet
  <1>3. /\ EquTargets(E, DOMAIN equ) => EquTargets(E2, DOMAIN equ)
        /\ VanishedIn(E) => VanishedIn(E2)
    <2> HIDE DEF E, E2
    <2>1. E2 = Replaced(E, x, c, n)
      BY DEF E, E2
    <2> QED
      BY <1>1, <2>1, ReplacedChasing
  <1>4. ~Chasing' => ~Chasing
    BY <1>1, <1>3, ChasingStays
  <1>5. ~Chasing => \A e \in E2 : SizeKept(e, labels')
    <2> SUFFICES ASSUME ~Chasing PROVE \A e \in E2 : SizeKept(e, labels')
      OBVIOUS
    <2>1. \A e \in E : SizeKept(e, labels)
      BY <1>1 DEF CInv, Sizes
    <2>2. \A e \in c : SizeKept(e, ResizedLabels(x.at, n - x.blob.size))
      OBVIOUS
    <2>3. n >= x.blob.size
      OBVIOUS
    <2> HIDE DEF E
    <2>4. \A e \in Replaced(E, x, c, n) : SizeKept(e, ResizedLabels(x.at, n - x.blob.size))
      BY <1>1, <2>1, <2>2, <2>3, ReplacedKeeps
    <2> QED
      BY <2>4 DEF E
  <1>6. ~Chasing => pass + 1 <= G2
    <2> SUFFICES ASSUME ~Chasing PROVE pass + 1 <= G2
      OBVIOUS
    <2>1. BudgetIn(equ, nodesOffsets, seen, labels, pass, needPass)
      BY <1>1 DEF CInv, Budget
    <2>2. ~(\A e \in E : Final(e, labels)) /\ G2 >= G + 1
      BY <1>1
    <2>3. pass + 1 <= G \/ pass <= G
      BY <2>1, <2>2 DEF BudgetIn, Entries
    <2>4. G \in Nat
      <3>1. IsFiniteSet(E)
        BY <1>1, OnceCounts DEF Entries
      <3> QED
        BY <1>1, <3>1, GrownFinite
    <2>5. G2 \in Int
      <3>1. IsFiniteSet(E2)
        BY OnceCounts
      <3> QED
        BY <1>1, <3>1, GrownFinite
    <2>6. pass \in Nat
      BY <1>1, BoundsAssumption DEF IInv, Position
    <2> HIDE DEF G, G2
    <2> QED
      BY <2>2, <2>3, <2>4, <2>5, <2>6
  <1>7. Budget'
    <2>1. CASE Chasing'
      BY <2>1 DEF Budget
    <2>2. CASE ~Chasing'
      BY <1>4, <1>6, <2>2, BudgetGrown
    <2> QED
      BY <2>1, <2>2
  <1> QED
    BY <1>1, <1>2, <1>4, <1>5, <1>7, SecondBudget

LEMMA InstructionBudget == FInv /\ CInv /\ VisitInstruction => CInv'
  <1> SUFFICES ASSUME FInv, CInv, VisitInstruction PROVE CInv'
    OBVIOUS
  <1> DEFINE addr  == Current.at
             b     == Current.blob
             eqs   == PassEqus(b.slaves)
             val   == Resolve(eqs, b.ast.ref)
             sizes == SchemaSizes(b.ast.mn, val, addr)
             size  == Shortest(sizes)
             grow  == size - b.size
             blob  == [Blob(b.node, b.ast, size) EXCEPT !.val = val]
             r     == Resized(MapSet(nodesOffsets, addr, blob), addr, grow)
             i     == seen + 1
  <1>1. IInv /\ Visit("INSTRUCTION") /\ Visiting /\ b.ast.kind = "INSTRUCTION"
    BY DEF VisitInstruction, Visit, FInv
  <1>2. /\ phase = "second" /\ prog \in Programs
        /\ i \in DOMAIN nodesOffsets
        /\ nodesOffsets \in Seq(MapEntries) /\ IsOnce(nodesOffsets) /\ Layout(Entries)
        /\ Current = nodesOffsets[i] /\ Current \in Entries /\ Current \in MapEntries
        /\ addr \in Nat /\ b \in Blobs
        /\ b.ast \in Asts /\ b.size \in Nat /\ Sized(b)
        /\ \A l \in DOMAIN labels : labels[l] \in Nat
    BY <1>1, VisitFacts
  <1>3. eqs \in Tables(equ) /\ b.ast.ref \in Defined \cup {NoRef}
    BY <1>1, VisitPass
  <1>4. b.ast.mn # "fixed" => val \in Int /\ b.ast.ref \in Defined
    <2>1. b.ast \in ByteNodes /\ (b.ast.mn # "fixed" => b.ast.ref # NoRef)
      BY <1>1, <1>2 DEF Asts, EquNodes, ByteNodes, TimesNodes
    <2> HIDE DEF eqs
    <2> QED
      BY <1>2, <1>3, <2>1, Resolved
  <1>5. b.size > 0 /\ EqusAt(b) = b.slaves
    BY <1>1, <1>2, SlavesOnly DEF Sized
  <1>6. \A d, e \in ToSet(nodesOffsets) : d.at = e.at => d = e
    BY <1>2 DEF Layout, Entries
  <1>7. DOMAIN eqs = DOMAIN equ
    BY <1>3 DEF Tables
  <1> HIDE DEF eqs
  <1>8. ~Chasing /\ IsJump(b) =>
          b.ast.ref \notin DOMAIN equ /\ b.ast.ref \in DOMAIN labels /\ val = labels[b.ast.ref]
    <2> SUFFICES ASSUME ~Chasing, IsJump(b)
                 PROVE  b.ast.ref \notin DOMAIN equ /\ b.ast.ref \in DOMAIN labels
                        /\ val = labels[b.ast.ref]
      OBVIOUS
    <2>1. b.ast.ref \notin DOMAIN equ /\ Resolve(eqs, b.ast.ref) = labels[b.ast.ref]
      BY <1>2, <1>7, JumpTarget
    <2>2. b.ast.mn # "fixed"
      BY DEF IsJump, Jumps
    <2> QED
      BY <1>4, <2>1, <2>2 DEF Defined
  <1> HIDE DEF val
  <1>9. \/ /\ b.ast.mn = "fixed" /\ equ' = eqs /\ nodesOffsets' = nodesOffsets /\ SameLayout
           /\ needPass' = (needPass \/ EquChanged(eqs, b.slaves))
        \/ phase' = "error" /\ error' = "UNKNOWN_COMPILER_INSTRUCTION"
        \/ /\ b.ast.mn # "fixed" /\ sizes # {} /\ grow = 0 /\ equ' = eqs /\ SameLayout
           /\ nodesOffsets' = [nodesOffsets EXCEPT ![i].blob.val = val]
           /\ needPass' = (needPass \/ EquChanged(eqs, b.slaves))
        \/ /\ b.ast.mn # "fixed" /\ sizes # {} /\ grow # 0 /\ equ' = eqs /\ nodesOffsets' = r
           /\ labels' = ResizedLabels(addr, grow)
           /\ prog' = prog /\ phase' = phase /\ error' = error /\ pass' = pass
    BY DEF VisitInstruction, eqs, val
  <1>10. sizes # {} => size \in {2, 3, 4}
    BY SchemasAreFew, ShortestFacts
  <1>11. eqs = PassEqus(EqusAt(b))
    BY <1>5 DEF eqs
  <1> HIDE DEF sizes, r, i
  <1>12. CASE /\ b.ast.mn = "fixed" /\ equ' = eqs /\ nodesOffsets' = nodesOffsets /\ SameLayout
              /\ needPass' = (needPass \/ EquChanged(eqs, b.slaves))
    <2>1. Revalued(nodesOffsets, nodesOffsets, i, Current)
      BY <1>2, SameValue
    <2>2. Revalued(nodesOffsets, nodesOffsets', seen + 1, Current)
      BY <1>12, <2>1 DEF i
    <2>3. Final(Current, labels)
      BY <1>1, <1>12 DEF Final, IsJump, Jumps
    <2>4. needPass' = (needPass \/ EquChanged(equ', EqusAt(b))) /\ equ' = PassEqus(EqusAt(b))
      BY <1>5, <1>11, <1>12
    <2> QED
      BY <1>1, <1>12, <2>2, <2>3, <2>4, VisitBudget
  <1>13. CASE phase' = "error" /\ error' = "UNKNOWN_COMPILER_INSTRUCTION"
    BY <1>13, BudgetOver
  <1>14. CASE /\ b.ast.mn # "fixed" /\ sizes # {} /\ grow = 0 /\ equ' = eqs /\ SameLayout
              /\ nodesOffsets' = [nodesOffsets EXCEPT ![i].blob.val = val]
              /\ needPass' = (needPass \/ EquChanged(eqs, b.slaves))
    <2> DEFINE w == [nodesOffsets EXCEPT ![i].blob.val = val]
               y == w[i]
    <2>1. Revalued(nodesOffsets, w, i, y) /\ y.blob.val = val
      BY <1>2, <1>4, <1>6, <1>14, ValueInPlace
    <2>2. nodesOffsets' = w
      BY <1>14
    <2> HIDE DEF w
    <2>3. Revalued(nodesOffsets, nodesOffsets', seen + 1, y)
      BY <2>1, <2>2 DEF i
    <2>4. y.at = addr /\ y.blob.ast = b.ast /\ y.blob.size = b.size
      BY <1>2, <2>1 DEF Revalued
    <2>5. size = b.size
      <3>1. size \in Int
        BY <1>10, <1>14
      <3> HIDE DEF size
      <3> QED
        BY <1>2, <1>14, <3>1
    <2> HIDE DEF y
    <2>6. ~Chasing => Final(y, labels)
      <3> SUFFICES ASSUME ~Chasing PROVE Final(y, labels)
        OBVIOUS
      <3>1. y.blob.ast.kind # "TIMES"
        BY <1>1, <2>4
      <3>2. IsJump(y.blob) => y.blob.size = Shortest(SchemaSizes(b.ast.mn, labels[b.ast.ref], addr))
        <4> SUFFICES ASSUME IsJump(y.blob)
                     PROVE  y.blob.size = Shortest(SchemaSizes(b.ast.mn, labels[b.ast.ref], addr))
          OBVIOUS
        <4>1. IsJump(b)
          BY <2>4 DEF IsJump
        <4>2. val = labels[b.ast.ref]
          BY <1>8, <4>1
        <4> QED
          BY <2>4, <2>5, <4>2 DEF sizes
      <3> QED
        BY <2>4, <3>1, <3>2 DEF Final
    <2>7. needPass' = (needPass \/ EquChanged(equ', EqusAt(b))) /\ equ' = PassEqus(EqusAt(b))
      BY <1>5, <1>11, <1>14
    <2> QED
      BY <1>1, <1>14, <2>3, <2>6, <2>7, VisitBudget
  <1>15. CASE /\ b.ast.mn # "fixed" /\ sizes # {} /\ grow # 0 /\ equ' = eqs /\ nodesOffsets' = r
              /\ labels' = ResizedLabels(addr, grow)
              /\ prog' = prog /\ phase' = phase /\ error' = error /\ pass' = pass
    <2> DEFINE new == [at |-> addr, blob |-> blob]
               c   == {new}
    <2>1. size \in Nat /\ size > 0 /\ val \in Int /\ size \in {2, 3, 4} /\ size # b.size
      <3>1. size \in {2, 3, 4} /\ val \in Int
        BY <1>4, <1>10, <1>15
      <3> HIDE DEF size
      <3> QED
        BY <1>2, <1>15, <3>1
    <2>2. size = Shortest(SchemaSizes(b.ast.mn, val, addr)) /\ SchemaSizes(b.ast.mn, val, addr) # {}
      BY <1>15 DEF sizes
    <2> HIDE DEF size
    <2>3. /\ blob \in Blobs /\ blob.node = b.node /\ blob.size = size /\ blob.slaves = << >>
          /\ blob.ast = b.ast
      <3>1. b.node \in Nat
        BY <1>2 DEF Blobs
      <3> QED
        BY <1>2, <2>1, <3>1, ValuedBlob
    <2>4. Sized(blob)
      BY <1>1, <2>1, <2>3 DEF Sized
    <2> HIDE DEF blob
    <2>5. new \in MapEntries /\ new.at = addr /\ new.blob = blob
      BY <1>2, <2>3 DEF MapEntries
    <2>6. /\ r \in Seq(MapEntries) /\ IsOnce(r)
          /\ ToSet(r) = Replaced(Entries, Current, c, size)
          /\ Fills(c, Current, size)
      BY <1>2, <1>5, <2>1, <2>3, <2>4, ResizedEntry DEF Entries, r, grow
    <2>7. new \in c /\ \A e \in c : e = new
      OBVIOUS
    <2> HIDE DEF new, c
    <2>8. IsJump(b) => \E e \in c : e.blob.ast = b.ast
      BY <2>3, <2>5, <2>7
    <2>9. ASSUME ~Chasing
          PROVE  /\ size >= b.size /\ ~Final(Current, labels)
                 /\ Grown(ToSet(r)) >= Grown(Entries) + 1
                 /\ \A e \in c : SizeKept(e, labels')
      <3>1. SizeKept(Current, labels)
        BY <1>2, <2>9 DEF CInv, Sizes
      <3>2. IsJump(b)
        <4>1. b.ast.mn \in Jumps \/ b.ast.mn = "mov"
          BY <1>1, <1>2, <1>15 DEF Asts, EquNodes, ByteNodes, TimesNodes, Jumps
        <4>2. CASE b.ast.mn = "mov"
          <5>1. b.size = 3
            BY <1>1, <3>1, <4>2 DEF SizeKept
          <5>2. SchemaSizes(b.ast.mn, val, addr) = {3}
            BY <4>2 DEF SchemaSizes
          <5>3. size = 3
            BY <2>2, <5>2, ShortestIs
          <5> QED
            BY <2>1, <5>1, <5>3
        <4> QED
          BY <1>1, <4>1, <4>2 DEF IsJump
      <3>3. b.ast.ref \in DOMAIN labels /\ val = labels[b.ast.ref]
        BY <1>8, <2>9, <3>2
      <3>4. /\ b.size = 2 /\ size \in {3, 4}
            /\ b.ast.mn \in {"jmp", "jcc"} =>
                 size = (IF b.ast.mn = "jmp" THEN 3 ELSE 4) /\ Away(labels, Current) > ShortMax
            /\ b.ast.mn \notin {"jmp", "jcc"} => b.ast.mn = "near" /\ size = 3
        BY <1>1, <1>2, <1>15, <2>1, <2>2, <3>1, <3>3, Grows, ZenonT(40)
      <3>5. ~Final(Current, labels)
        BY <2>1, <2>2, <3>2, <3>3 DEF Final
      <3>6. IsJump(blob) /\ blob.size > 2
        BY <2>3, <3>2, <3>4 DEF IsJump
      <3>7. Grown(ToSet(r)) >= Grown(Entries) + 1
        <4> DEFINE E  == Entries
                   E2 == ToSet(r)
        <4>1. IsFiniteSet(E) /\ IsFiniteSet(E2)
          BY <1>2, <2>6, OnceCounts DEF Entries
        <4>2. c = {new}
          BY DEF c
        <4>3. E2 = Replaced(E, Current, c, size) /\ Layout(E) /\ Current \in E
          BY <1>2, <2>6
        <4> HIDE DEF E, E2
        <4>4. Grown(E2) >= Grown(E) + 1
          BY <1>2, <2>1, <2>5, <2>6, <3>4, <3>6, <4>1, <4>2, <4>3, ResizeGrows
        <4> QED
          BY <4>4 DEF E, E2
      <3>8. SizeKept(new, labels)
        <4>1. new.blob.ast = b.ast /\ new.blob.size = size /\ new.at = addr
          BY <2>3, <2>5
        <4>2. Away(labels, new) = Away(labels, Current)
          BY <4>1 DEF Away
        <4> QED
          BY <3>2, <3>3, <3>4, <4>1, <4>2 DEF SizeKept, IsJump, Jumps
      <3>9. SizeKept(new, labels')
        <4>1. grow \in Nat /\ addr = Moved(addr, addr, grow)
          BY <1>2, <3>4 DEF Moved
        <4> HIDE DEF grow
        <4>2. SizeKept(new, ResizedLabels(addr, grow))
          BY <1>2, <2>5, <3>8, <4>1, ShiftedKeeps
        <4> QED
          BY <1>15, <4>2
      <3> QED
        BY <2>7, <3>4, <3>5, <3>7, <3>9
    <2>10. DOMAIN equ' = DOMAIN equ
      BY <1>7, <1>15
    <2>11. nodesOffsets' = r /\ labels' = ResizedLabels(addr, size - b.size)
      BY <1>15
    <2>12. /\ nodesOffsets' \in Seq(MapEntries) /\ IsOnce(nodesOffsets')
           /\ ToSet(nodesOffsets') = Replaced(Entries, Current, c, size)
           /\ ~Chasing => Grown(ToSet(nodesOffsets')) >= Grown(Entries) + 1
      BY <2>6, <2>9, <2>11
    <2> QED
      BY <1>1, <1>5, <1>15, <2>1, <2>6, <2>8, <2>9, <2>10, <2>11, <2>12, GrowBudget
  <1> QED
    BY <1>9, <1>12, <1>13, <1>14, <1>15

\* A TIMES that is gone, without a copy of its body.
LEMMA VanishedChases ==
  ASSUME prog' = prog, VanishedIn(ToSet(nodesOffsets'))
  PROVE  Chasing'
  <1>1. TimesVanished'
    BY DEF TimesVanished, VanishedIn, Of, Entries
  <1> QED
    BY <1>1 DEF Chasing

\* A TIMES that is visited is the one entry of its node.
LEMMA TimesAlone ==
  ASSUME FInv, Visiting, Current.blob.ast.kind = "TIMES"
  PROVE  LET k == Current.blob.node IN
         /\ k \in DOMAIN prog /\ prog[k].kind = "TIMES"
         /\ \A e \in Of(Entries, k) : e = Current
  <1> DEFINE k == Current.blob.node
             A == Of(Entries, k)
  <1>1. /\ prog \in Programs /\ Current \in Entries /\ Owned(Current.blob, next, DOMAIN equ)
        /\ nodesOffsets \in Seq(MapEntries) /\ IsOnce(nodesOffsets)
    BY VisitFacts DEF FInv
  <1>2. k \in DOMAIN prog /\ k < next /\ prog[k].kind # "LABEL"
    BY <1>1 DEF Owned
  <1>3. Made(Entries, k)
    BY <1>2 DEF FInv, Kept, KeptMap, MadeBefore, Entries
  <1>4. prog[k].kind = "TIMES" /\ Cardinality(A) = 1
    BY <1>1, <1>2, <1>3, KindFacts
  <1>5. IsFiniteSet(A) /\ Current \in A
    <2>1. IsFiniteSet(Entries)
      BY <1>1, OnceCounts DEF Entries
    <2>2. Current \in A
      BY <1>1 DEF Of
    <2> QED
      BY <2>1, <2>2, OfFinite
  <1> HIDE DEF A
  <1>6. \E e : A = {e}
    BY <1>4, <1>5, FS_Singleton
  <1>7. \A e \in A : e = Current
    BY <1>5, <1>6
  <1> QED
    BY <1>2, <1>4, <1>7 DEF A

LEMMA TimesBudget == FInv /\ CInv /\ VisitTimes => CInv'
  <1> SUFFICES ASSUME FInv, CInv, VisitTimes PROVE CInv'
    OBVIOUS
  <1> DEFINE addr == Current.at
             b    == Current.blob
             n    == Repetitions(b.ast, addr)
             body == b.ast.body
             N    == n * body.size
             d    == N - 1
             i    == seen + 1
             E    == ToSet(nodesOffsets)
             rest == Only(nodesOffsets, {e \in E : e.at # addr})
             room == Resized(rest, addr, d)
             q    == CopiesOf(Current, body, n)
  <1>1. IInv /\ Visit("TIMES") /\ Visiting /\ b.ast.kind = "TIMES"
    BY DEF VisitTimes, Visit, FInv
  <1>2. /\ phase = "second" /\ prog \in Programs /\ i \in DOMAIN nodesOffsets
        /\ nodesOffsets \in Seq(MapEntries) /\ IsOnce(nodesOffsets) /\ Layout(E)
        /\ Current = nodesOffsets[i] /\ Current \in E /\ Current \in MapEntries
        /\ addr \in Nat /\ b \in Blobs /\ b.ast \in Asts /\ Sized(b)
        /\ Owned(b, next, DOMAIN equ)
    BY <1>1, VisitFacts DEF Entries
  <1>3. b.size = 1
    BY <1>1, <1>2 DEF Sized
  <1>4. b.ast.count \in Int /\ body \in ByteNodes
    BY <1>1, <1>2 DEF Asts, EquNodes, ByteNodes, TimesNodes
  <1>5. n \in Int
    BY <1>2, <1>4, OriginIsNat DEF Repetitions
  <1>6. ~b.ast.pad => n = b.ast.count
    BY DEF Repetitions
  <1>7. /\ b.node \in DOMAIN prog /\ prog[b.node].kind = "TIMES"
        /\ \A e \in Of(E, b.node) : e = Current
    BY <1>1, TimesAlone DEF Entries
  <1>8. DOMAIN PassEqus(b.slaves) = DOMAIN equ
    <2>1. PassEqus(b.slaves) \in Tables(equ)
      BY <1>1, VisitPass
    <2> QED
      BY <2>1 DEF Tables
  <1>9. \/ phase' = "error" /\ error' = "INCORRECT_TIMES_VALUE"
        \/ /\ n >= 0 /\ prog' = prog /\ phase' = phase /\ error' = error /\ pass' = pass
           /\ equ' = PassEqus(b.slaves) /\ labels' = ResizedLabels(addr, d)
           /\ \/ n = 0 /\ nodesOffsets' = room
              \/ n > 0 /\ nodesOffsets' = room \o q
    BY DEF VisitTimes, CopiesOf
  <1> HIDE DEF n, i
  <1>10. CASE phase' = "error" /\ error' = "INCORRECT_TIMES_VALUE"
    BY <1>10, BudgetOver
  <1>11. CASE /\ n >= 0 /\ prog' = prog /\ phase' = phase /\ error' = error /\ pass' = pass
              /\ equ' = PassEqus(b.slaves) /\ labels' = ResizedLabels(addr, d)
              /\ \/ n = 0 /\ nodesOffsets' = room
                 \/ n > 0 /\ nodesOffsets' = room \o q
    <2>1. n \in Nat /\ (n = 0 \/ n > 0)
      BY <1>5, <1>11
    <2>2. /\ N \in Nat
          /\ n = 0 => Fills({}, Current, N) /\ ToSet(room) = Replaced(E, Current, {}, N)
          /\ n > 0 =>
               /\ room \o q \in Seq(MapEntries) /\ IsOnce(room \o q)
               /\ Fills(ToSet(q), Current, N)
               /\ ToSet(room \o q) = Replaced(E, Current, ToSet(q), N)
               /\ \A e \in ToSet(q) : e.blob = Blob(b.node, body, body.size)
      <3>1. Expanded(nodesOffsets, i, Current, body, n)
        BY <1>2, <1>3, <1>4, <2>1, ExpandedEntry
      <3> QED
        BY <3>1, Zenon DEF Expanded
    <2>3. n > 0 => N >= 1
      <3>1. body.size \in Nat /\ body.size >= 1
        BY <1>4 DEF ByteNodes
      <3> DEFINE s == body.size
      <3> HIDE DEF s
      <3>2. n > 0 => n * s >= s
        BY <2>1, <3>1, Multiples DEF s
      <3> QED
        BY <2>1, <3>1, <3>2 DEF s
    <2> HIDE DEF q, N
    <2>4. CASE n = 0 /\ nodesOffsets' = room
      <3> DEFINE c == {}
      <3>1. Fills(c, Current, N) /\ ToSet(nodesOffsets') = Replaced(E, Current, c, N)
        BY <2>2, <2>4
      <3>2. /\ \A e \in c : e.blob.ast = b.ast.body
            /\ ~b.ast.pad => Cardinality(c) = b.ast.count
        BY <1>6, <2>4, FS_EmptySet
      <3>3. IsFiniteSet(E) /\ MadeBefore(E, next)
        BY <1>2, OnceCounts DEF FInv, Kept, KeptMap
      <3>4. c = {}
        OBVIOUS
      <3> HIDE DEF E, c
      <3>5. VanishedIn(Replaced(E, Current, c, N))
        BY <1>1, <1>2, <1>3, <2>2, <3>1, <3>2, <3>3, <3>4, TimesMade
      <3>6. Chasing'
        BY <1>11, <3>1, <3>5, VanishedChases
      <3>7. error = "none"
        BY <1>1, <1>2, NoErrorYet
      <3> QED
        BY <1>2, <1>11, <3>6, <3>7, SecondBudget DEF Budget
    <2>5. CASE n > 0 /\ nodesOffsets' = room \o q
      <3> DEFINE c  == ToSet(q)
                 nb == Blob(b.node, body, body.size)
                 E2 == ToSet(nodesOffsets')
      <3>1. /\ nodesOffsets' \in Seq(MapEntries) /\ IsOnce(nodesOffsets')
            /\ Fills(c, Current, N) /\ E2 = Replaced(E, Current, c, N)
            /\ \A e \in c : e.blob = nb
        BY <2>2, <2>5
      <3>2. /\ nb.ast = body /\ nb.size = body.size
        BY DEF Blob
      <3> HIDE DEF nb, c
      <3>3. \A e \in c : e.blob.ast.kind # "TIMES"
        <4>1. body.kind # "TIMES"
          BY <1>4 DEF ByteNodes
        <4> QED
          BY <3>1, <3>2, <4>1
      <3>4. \A e \in c : SizeKept(e, labels')
        <4>1. body.kind = "INSTRUCTION" =>
                /\ body.mn \in Jumps => body.size = 2
                /\ body.mn = "mov" => body.size = 3
          BY <1>4 DEF ByteNodes, Jumps
        <4>2. ASSUME NEW e \in c PROVE SizeKept(e, labels')
          <5>1. e.blob.ast = body /\ e.blob.size = body.size
            BY <3>1, <3>2
          <5> HIDE DEF body
          <5> QED
            BY <4>1, <5>1 DEF SizeKept, Jumps
        <4> QED
          BY <4>2
      <3>5. ~Final(Current, labels) /\ ~IsJump(Current.blob)
        BY <1>1 DEF Final, IsJump
      <3>6. Grown(E2) >= Grown(E) + 1
        <4>1. IsFiniteSet(E) /\ IsFiniteSet(E2)
          BY <1>2, <3>1, OnceCounts
        <4>2. /\ prog \in Programs /\ Layout(E) /\ Current \in E /\ Current.blob.size > 0
              /\ Current.blob.ast.kind = "TIMES" /\ Current.blob.node \in DOMAIN prog
              /\ prog[Current.blob.node].kind = "TIMES"
              /\ \A e \in Of(E, Current.blob.node) : e = Current
          BY <1>1, <1>2, <1>3, <1>7
        <4>3. N \in Nat /\ Fills(c, Current, N) /\ E2 = Replaced(E, Current, c, N)
          BY <2>2, <3>1
        <4> HIDE DEF E, E2
        <4> QED
          BY <3>3, <4>1, <4>2, <4>3, ExpandGrows
      <3>7. labels' = ResizedLabels(addr, N - b.size)
        BY <1>3, <1>11
      <3>8. N >= b.size
        BY <1>3, <2>3, <2>5
      <3>9. DOMAIN equ' = DOMAIN equ
        BY <1>8, <1>11
      <3>10. b.size > 0
        BY <1>3
      <3>11. ToSet(nodesOffsets') = Replaced(Entries, Current, c, N)
             /\ Grown(ToSet(nodesOffsets')) >= Grown(Entries) + 1
        BY <3>1, <3>6 DEF Entries
      <3> HIDE DEF E, E2
      <3> QED
        BY <1>1, <1>11, <2>2, <3>1, <3>4, <3>5, <3>7, <3>8, <3>9, <3>10, <3>11, GrowBudget
    <2> QED
      BY <1>11, <2>4, <2>5
  <1> QED
    BY <1>9, <1>10, <1>11

-----------------------------------------------------------------------------
(* The end of a pass.                                                      *)

\* Nothing grows more often than there are jumps and TIMES, and there are no
\* more certain EQUs than EQUs.
LEMMA GrowthIsBounded ==
  ASSUME FInv, phase = "second"
  PROVE  /\ Grown(Entries) \in Nat /\ Cardinality(Certain(equ, Entries)) \in Nat
         /\ Cardinality(JumpEntries) \in Nat /\ Cardinality(UnstableNodes) \in Nat
         /\ Grown(Entries) + Cardinality(Certain(equ, Entries))
              <= Cardinality(JumpEntries) + Cardinality(UnstableNodes)
  <1> DEFINE E == ToSet(nodesOffsets)
             J == {e \in E : IsJump(e.blob)}
             A == GrownJumps(E)
             B == Unrolled(E)
             C == Certain(equ, E)
             T == {k \in DOMAIN prog : prog[k].kind = "TIMES"}
             Q == {k \in DOMAIN prog : prog[k].kind = "EQU"}
  <1>1. /\ prog \in Programs /\ nodesOffsets \in Seq(MapEntries) /\ IsOnce(nodesOffsets)
        /\ EqusGood(equ, Len(prog) + 1) /\ E = Entries
    BY DEF FInv, IInv, MapGood, Position, Entries
  <1>2. IsFiniteSet(E)
    BY <1>1, OnceCounts
  <1>3. Cardinality(JumpEntries) = Cardinality(J) /\ IsFiniteSet(J)
    <2>1. {i \in DOMAIN nodesOffsets : nodesOffsets[i] \in J} = JumpEntries
      BY <1>1, InMap DEF JumpEntries
    <2>2. E \cap J = J /\ J \in SUBSET E
      OBVIOUS
    <2> HIDE DEF J
    <2>3. Cardinality({i \in DOMAIN nodesOffsets : nodesOffsets[i] \in J}) = Cardinality(ToSet(nodesOffsets) \cap J)
      BY <1>1, PlacesCount
    <2>4. ToSet(nodesOffsets) \cap J = J
      BY <2>2
    <2>5. Cardinality(JumpEntries) = Cardinality(J)
      BY <2>1, <2>3, <2>4, Zenon
    <2> HIDE DEF E
    <2>6. IsFiniteSet(J)
      BY <1>2, <2>2, FS_Subset
    <2> QED
      BY <2>5, <2>6
  <1>4. A \subseteq J /\ B \subseteq T
    BY DEF GrownJumps, Unrolled
  <1>5. IsFiniteSet(T) /\ IsFiniteSet(Q)
    <2>1. DOMAIN prog = 1 .. Len(prog) /\ Len(prog) \in Nat
      BY <1>1, NodeFacts
    <2>2. IsFiniteSet(DOMAIN prog)
      BY <2>1, UptoFacts
    <2>3. T \in SUBSET DOMAIN prog /\ Q \in SUBSET DOMAIN prog
      OBVIOUS
    <2> HIDE DEF T, Q
    <2> QED
      BY <2>2, <2>3, FS_Subset
  <1>6. /\ IsFiniteSet(DOMAIN equ) /\ Cardinality(DOMAIN equ) <= Cardinality(Q)
        /\ C \subseteq DOMAIN equ
    BY <1>1, EqusFinite, CertainClosed
  <1>7. T \cup Q = UnstableNodes /\ T \cap Q = {}
    BY DEF UnstableNodes
  <1>8. Grown(E) = Cardinality(A) + Cardinality(B)
    BY DEF Grown
  <1> HIDE DEF A, B, C, J, T, Q, E
  <1>9. /\ Cardinality(A) \in Nat /\ Cardinality(J) \in Nat /\ Cardinality(A) <= Cardinality(J)
        /\ Cardinality(B) \in Nat /\ Cardinality(T) \in Nat /\ Cardinality(B) <= Cardinality(T)
    BY <1>3, <1>4, <1>5, OneMoreIn
  <1>10. /\ Cardinality(C) \in Nat /\ Cardinality(DOMAIN equ) \in Nat
         /\ Cardinality(C) <= Cardinality(DOMAIN equ)
    BY <1>6, OneMoreIn
  <1>11. Cardinality(Q) \in Nat
    BY <1>5, FS_CardinalityType
  <1>12. Cardinality(UnstableNodes) = Cardinality(T) + Cardinality(Q)
    <2>1. Cardinality(T \cup Q) = Cardinality(T) + Cardinality(Q) - Cardinality(T \cap Q)
      BY <1>5, FS_Union
    <2>2. Cardinality(T \cap Q) = 0
      BY <1>7, FS_EmptySet
    <2>3. Cardinality(UnstableNodes) = Cardinality(T) + Cardinality(Q) - 0
      BY <1>7, <2>1, <2>2, Zenon
    <2> DEFINE m == Cardinality(T)
               n == Cardinality(Q)
    <2>4. m \in Nat /\ n \in Nat
      BY <1>9, <1>11
    <2> HIDE DEF m, n
    <2>5. m + n - 0 = m + n
      BY <2>4
    <2> QED
      BY <2>3, <2>5 DEF m, n
  <1> DEFINE a == Cardinality(A)
             b == Cardinality(B)
             c == Cardinality(C)
             j == Cardinality(J)
             t == Cardinality(T)
             q == Cardinality(Q)
             u == Cardinality(DOMAIN equ)
  <1>13. /\ a \in Nat /\ j \in Nat /\ a <= j /\ b \in Nat /\ t \in Nat /\ b <= t
         /\ c \in Nat /\ u \in Nat /\ c <= u /\ q \in Nat /\ u <= q
    BY <1>6, <1>9, <1>10, <1>11
  <1>14. Grown(E) = a + b /\ Cardinality(UnstableNodes) = t + q /\ Cardinality(JumpEntries) = j
    BY <1>3, <1>8, <1>12
  <1> HIDE DEF a, b, j, t, q, u
  <1>15. /\ Grown(E) \in Nat /\ Cardinality(UnstableNodes) \in Nat /\ Cardinality(JumpEntries) \in Nat
    BY <1>13, <1>14
  <1>16. (a + b) + c <= j + (t + q)
    <2> HIDE DEF c
    <2> QED
      BY <1>13
  <1>17. Grown(E) + c <= Cardinality(JumpEntries) + Cardinality(UnstableNodes)
    BY <1>14, <1>16
  <1> QED
    BY <1>1, <1>13, <1>15, <1>17 DEF C

\* The pass has come to its end: what it did was worth it.
LEMMA PassIsPaid ==
  ASSUME FInv, CInv, phase = "second", ~Chasing, seen = Len(nodesOffsets), needPass
  PROVE  \/ pass + 1 <= Grown(Entries)
         \/ /\ \A e \in Entries : Final(e, labels)
            /\ pass + 1 <= Grown(Entries) + Cardinality(Certain(equ, Entries))
  <1>1. nodesOffsets \in Seq(MapEntries)
    BY DEF FInv, IInv, MapGood
  <1>2. DOMAIN nodesOffsets = 1 .. seen /\ seen \in Nat
    BY <1>1
  <1>3. First(nodesOffsets, seen) = Entries
    BY <1>2 DEF First, Entries, ToSet
  <1>4. \A name : ~PendingIn(equ, nodesOffsets, seen, name)
    <2>1. \A j \in DOMAIN nodesOffsets : ~(j > seen)
      BY <1>2
    <2> QED
      BY <2>1 DEF PendingIn
  <1>5. BudgetIn(equ, nodesOffsets, seen, labels, pass, needPass)
    BY DEF CInv, Budget
  <1> QED
    BY <1>3, <1>4, <1>5 DEF BudgetIn, Awaited, Entries

LEMMA NextPassBudget == FInv /\ CInv /\ NextPass => CInv'
  <1> SUFFICES ASSUME FInv, CInv, NextPass PROVE CInv'
    OBVIOUS
  <1>1. /\ IInv /\ phase = "second" /\ seen = Len(nodesOffsets) /\ needPass
        /\ prog' = prog /\ labels' = labels /\ equ' = equ /\ nodesOffsets' = nodesOffsets
        /\ pass' = pass + 1 /\ seen' = 0 /\ ~needPass'
    BY DEF NextPass, FInv
  <1>2. Chasing' <=> Chasing
    BY <1>1 DEF Chasing, SelfDefined, JumpsToEqu, TimesVanished, JumpEntries, IsJump, Entries, EquAst
  <1>3. ~Chasing => \/ pass + 1 <= Grown(Entries)
                    \/ /\ \A e \in Entries : Final(e, labels)
                       /\ pass + 1 <= Grown(Entries) + Cardinality(Certain(equ, Entries))
    BY <1>1, PassIsPaid
  <1>4. CASE phase' = "second" /\ error' = error
    <2>1. ~Chasing' => BudgetIn(equ', nodesOffsets', seen', labels', pass', needPass')
      <3> SUFFICES ASSUME ~Chasing
                   PROVE  BudgetIn(equ', nodesOffsets', seen', labels', pass', needPass')
        BY <1>2
      <3>1. First(nodesOffsets, 0) = {}
        <4>1. nodesOffsets \in Seq(MapEntries)
          BY <1>1 DEF IInv, MapGood
        <4> QED
          BY <4>1 DEF First
      <3>2. BudgetIn(equ, nodesOffsets, 0, labels, pass + 1, FALSE)
        BY <1>3, <3>1 DEF BudgetIn, Awaited, Entries
      <3>3. needPass' = FALSE
        BY DEF NextPass
      <3> QED
        BY <1>1, <3>2, <3>3, Zenon
    <2>2. Budget'
      BY <1>1, <2>1, BudgetSame
    <2>3. ~Chasing' => \A e \in ToSet(nodesOffsets') : SizeKept(e, labels')
      BY <1>1, <1>2 DEF CInv, Sizes, Entries
    <2>4. error' = "none"
      BY <1>1, <1>4, NoErrorYet
    <2> QED
      BY <1>4, <2>2, <2>3, <2>4, SecondBudget
  <1>5. CASE phase' = "error" /\ pass + 1 >= MaxPasses
    <2>1. ~Chasing => Cardinality(JumpEntries) + Cardinality(UnstableNodes) >= MaxPasses
      <3> SUFFICES ASSUME ~Chasing
                   PROVE  Cardinality(JumpEntries) + Cardinality(UnstableNodes) >= MaxPasses
        OBVIOUS
      <3> DEFINE g == Grown(Entries)
                 c == Cardinality(Certain(equ, Entries))
                 j == Cardinality(JumpEntries)
                 u == Cardinality(UnstableNodes)
      <3>1. g \in Nat /\ c \in Nat /\ j \in Nat /\ u \in Nat /\ g + c <= j + u
        BY <1>1, GrowthIsBounded
      <3>2. pass + 1 <= g \/ pass + 1 <= g + c
        BY <1>3
      <3>3. pass \in Nat /\ MaxPasses \in Nat
        BY <1>1, BoundsAssumption DEF IInv, Position
      <3> HIDE DEF g, c, j, u
      <3>4. j + u >= MaxPasses
        BY <1>5, <3>1, <3>2, <3>3
      <3> QED
        BY <3>4 DEF j, u
    <2>2. JumpEntries' = JumpEntries /\ UnstableNodes' = UnstableNodes
      BY <1>1 DEF JumpEntries, UnstableNodes, IsJump
    <2>3. GivesUpForCause'
      BY <1>2, <2>1, <2>2 DEF GivesUpForCause
    <2> QED
      BY <1>5, <2>3 DEF CInv, Sizes, Budget
  <1>6. (phase' = "second" /\ error' = error) \/ (phase' = "error" /\ pass + 1 >= MaxPasses)
    <2>1. pass \in Nat /\ MaxPasses \in Nat
      BY <1>1, BoundsAssumption DEF IInv, Position
    <2> QED
      BY <1>1, <2>1 DEF NextPass
  <1> QED
    BY <1>4, <1>5, <1>6

LEMMA EmitBudget == FInv /\ CInv /\ Emit => CInv'
  <1> SUFFICES ASSUME FInv, CInv, Emit PROVE CInv'
    OBVIOUS
  <1>1. /\ IInv /\ phase = "second" /\ phase' = "done" /\ error' = error
    BY DEF Emit, FInv
  <1>2. error' = "none"
    BY <1>1, NoErrorYet
  <1> QED
    BY <1>1, <1>2, BudgetOver

LEMMA UnknownBudget == UnknownKeyword => CInv'
  BY FailBudget DEF UnknownKeyword

LEMMA StutterBudget == CInv /\ UNCHANGED vars => CInv'
  <1> SUFFICES ASSUME CInv, UNCHANGED vars PROVE CInv'
    OBVIOUS
  <1>1. /\ prog' = prog /\ phase' = phase /\ error' = error /\ labels' = labels
        /\ equ' = equ /\ nodesOffsets' = nodesOffsets /\ pass' = pass /\ seen' = seen
        /\ needPass' = needPass
    BY DEF vars, firstVars, passVars
  <1>2. Chasing' <=> Chasing
    BY <1>1 DEF Chasing, SelfDefined, JumpsToEqu, TimesVanished, JumpEntries, IsJump, Entries, EquAst
  <1>3. JumpEntries' = JumpEntries /\ UnstableNodes' = UnstableNodes
    BY <1>1 DEF JumpEntries, UnstableNodes, IsJump
  <1>4. GivesUpForCause'
    BY <1>1, <1>2, <1>3 DEF CInv, GivesUpForCause
  <1>5. Sizes'
    BY <1>1, <1>2 DEF CInv, Sizes, Entries, Small, SizeKept, Away, Reach
  <1>6. Budget'
    <2>1. CASE phase = "second"
      <3>1. ~Chasing' => BudgetIn(equ', nodesOffsets', seen', labels', pass', needPass')
        <4>1. ~Chasing => BudgetIn(equ, nodesOffsets, seen, labels, pass, needPass)
          BY <2>1 DEF CInv, Budget
        <4> QED
          BY <1>1, <1>2, <4>1, Zenon
      <3> QED
        BY <1>1, <3>1, BudgetSame
    <2>2. CASE phase # "second"
      BY <1>1, <2>2 DEF Budget
    <2> QED
      BY <2>1, <2>2
  <1> QED
    BY <1>4, <1>5, <1>6 DEF CInv

LEMMA BudgetStep == FInv /\ CInv /\ [Next]_vars => CInv'
  <1> SUFFICES ASSUME FInv, CInv, [Next]_vars PROVE CInv'
    OBVIOUS
  <1>1. CASE FirstPassSized
    BY <1>1, SizedBudget
  <1>2. CASE FirstPassEqu
    BY <1>2, FirstEquBudget
  <1>3. CASE FirstPassLabel
    BY <1>3, LabelBudget
  <1>4. CASE BeginSecondPass
    BY <1>4, BeginBudget
  <1>5. CASE UnknownKeyword
    BY <1>5, UnknownBudget
  <1>6. CASE VisitEqu
    BY <1>6, VisitEquBudget
  <1>7. CASE VisitDefinition
    BY <1>7, DefinitionBudget
  <1>8. CASE VisitInstruction
    BY <1>8, InstructionBudget
  <1>9. CASE VisitTimes
    BY <1>9, TimesBudget
  <1>10. CASE NextPass
    BY <1>10, NextPassBudget
  <1>11. CASE Emit
    BY <1>11, EmitBudget
  <1>12. CASE UNCHANGED vars
    BY <1>12, StutterBudget
  <1>13. CASE Ended
    BY <1>13, StutterBudget DEF Ended
  <1> QED
    BY <1>1, <1>2, <1>3, <1>4, <1>5, <1>6, <1>7, <1>8, <1>9, <1>10, <1>11, <1>12, <1>13 DEF Next

\* A compilation gives up only for cause: but for the programs whose passes
\* chase each other, each pass of secondPass that sets needPass has grown a jump
\* or expanded a TIMES for good, or, when nothing grows any more, an EQU has got
\* its last value; so UNABLE_TO_COMPILE_FILE means at least maxPasses of those.
THEOREM GivingUpHasCause == Spec => []GivesUpForCause
  <1>1. CInv => GivesUpForCause
    BY DEF CInv
  <1> QED
    BY <1>1, FixStarts, BudgetStarts, FixInvariant, BudgetStep, PTL DEF Spec

=============================================================================
