---------------------------- MODULE ScopeLemmas ----------------------------
(***************************************************************************)
(* What the loop of find_project_root (Scope) comes to: the marked         *)
(* directory nearest to where it began; and what loops and sequences of    *)
(* sequences come to in general.  What a loop computes is proved without a *)
(* rule of induction: the least number for which it went wrong, if there   *)
(* were one, would be one more than a number for which it went right.      *)
(***************************************************************************)
EXTENDS Scope, SequenceTheorems, FiniteSetTheorems, WellFoundedInduction, TLAPS

(* Any numbers have a least among them: the sets 0..n are finite, so none of
   them has smaller ones below it without end. *)
LEMMA LeastNatural ==
    ASSUME NEW S \in SUBSET Nat, S # {}
    PROVE  \E n \in S : \A m \in S : n <= m
<1> DEFINE below == {0..n : n \in S}
<1>1. below \subseteq FiniteSubsetsOf(Nat) /\ below # {}
  <2>1. \A n \in S : 0..n \in SUBSET Nat /\ IsFiniteSet(0..n)
    BY FS_Interval
  <2>2. \A n \in S : 0..n \in FiniteSubsetsOf(Nat)
    BY <2>1 DEF FiniteSubsetsOf
  <2> QED
    BY <2>2
<1>2. IsWellFoundedOn(StrictSubsetOrdering(Nat), FiniteSubsetsOf(Nat))
  BY FS_StrictSubsetOrderingWellFounded
<1>3. PICK b \in below : \A c \in below : <<c, b>> \notin StrictSubsetOrdering(Nat)
  <2> HIDE DEF below
  <2> QED
    BY <1>1, <1>2, WFMin
<1>4. PICK n \in S : b = 0..n
  OBVIOUS
<1>5. ASSUME NEW m \in S, m < n
      PROVE  FALSE
  <2>1. 0..m \in below
    OBVIOUS
  <2>2. 0..m \subseteq 0..n /\ n \in 0..n /\ n \notin 0..m
    BY <1>5
  <2>3. <<0..m, b>> \in StrictSubsetOrdering(Nat)
    BY <1>4, <2>2 DEF StrictSubsetOrdering
  <2> QED
    BY <1>3, <2>1, <2>3
<1> QED
  BY <1>5

(* What holds of 0, and of n + 1 if of n, holds up to any bound. *)
LEMMA Upward ==
    ASSUME NEW bound \in Nat, NEW S \in SUBSET (0..bound), 0 \in S,
           \A n \in S : n < bound => n + 1 \in S
    PROVE  S = 0..bound
<1> DEFINE wrong == (0..bound) \ S
<1>1. SUFFICES ASSUME wrong # {} PROVE FALSE
  OBVIOUS
<1>2. PICK n \in wrong : \A m \in wrong : n <= m
  <2>1. wrong \in SUBSET Nat
    OBVIOUS
  <2> HIDE DEF wrong
  <2> QED
    BY <1>1, <2>1, LeastNatural
<1>3. n \in 1..bound /\ n - 1 \in 0..bound /\ n - 1 \notin wrong /\ (n - 1) + 1 = n
  BY <1>2
<1> QED
  BY <1>2, <1>3

(* Two runs that begin alike and go on alike are alike. *)
GoAlike(f, g, bound) ==
    f[0] = g[0] /\ \A n \in 1..bound : f[n - 1] = g[n - 1] => f[n] = g[n]

LEMMA SameRuns ==
    ASSUME NEW bound \in Nat, NEW f, NEW g, GoAlike(f, g, bound)
    PROVE  \A n \in 0..bound : f[n] = g[n]
<1> DEFINE S == {n \in 0..bound : f[n] = g[n]}
<1>1. S \in SUBSET (0..bound) /\ 0 \in S
  BY DEF GoAlike
<1>2. ASSUME NEW n \in S, n < bound
      PROVE  n + 1 \in S
  <2>1. n \in 0..bound /\ f[n] = g[n]
    OBVIOUS
  <2>2. n + 1 \in 1..bound /\ (n + 1) - 1 = n
    BY <1>2, <2>1
  <2>3. f[n + 1] = g[n + 1]
    BY <2>1, <2>2 DEF GoAlike
  <2> QED
    BY <2>2, <2>3
<1>3. S = 0..bound
  <2> HIDE DEF S
  <2> QED
    BY <1>1, <1>2, Upward
<1> QED
  BY <1>3

(* ... and those below a bound a greatest. *)
LEMMA GreatestBelow ==
    ASSUME NEW bound \in Nat, NEW S \in SUBSET (0..bound), S # {}
    PROVE  \E n \in S : \A m \in S : m <= n
<1> DEFINE mirrored == {bound - n : n \in S}
<1>1. mirrored \in SUBSET Nat /\ mirrored # {}
  <2>1. \A n \in S : bound - n \in Nat
    OBVIOUS
  <2> QED
    BY <2>1
<1>2. PICK k \in mirrored : \A l \in mirrored : k <= l
  <2> HIDE DEF mirrored
  <2> QED
    BY <1>1, LeastNatural
<1>3. PICK n \in S : k = bound - n
  OBVIOUS
<1>4. ASSUME NEW m \in S
      PROVE  m <= n
  <2>1. bound - m \in mirrored
    OBVIOUS
  <2>2. bound - n <= bound - m
    BY <1>2, <1>3, <2>1
  <2> QED
    BY <2>2
<1> QED
  BY <1>4

(* The greatest of some numbers is one of them. *)
LEMMA MaxIn ==
    ASSUME NEW n \in Nat, NEW s \in SUBSET (1..n), s # {}
    PROVE  Max(s) \in s /\ \A i \in s : i <= Max(s)
<1>1. \E m \in s : \A i \in s : i <= m
  <2>1. s \in SUBSET (0..n)
    OBVIOUS
  <2> QED
    BY <2>1, GreatestBelow
<1>2. \E m \in s : \A i \in s : m >= i
  BY <1>1
<1>3. Max(s) \in s /\ \A i \in s : Max(s) >= i
  BY <1>2, Zenon DEF Max
<1> QED
  BY <1>3
-----------------------------------------------------------------------------
(* Loops *)

(* A loop over the states D with values in V: a state of size 0 is at its end,
   any other goes on below. *)
IsLoop(D, V, size, below, end, step) ==
    /\ size \in [D -> Nat] /\ below \in [D -> D]
    /\ end \in [D -> V] /\ step \in [V \X D -> V]
    /\ \A d \in D : size[d] > 0 => size[below[d]] < size[d]
    /\ \E bound \in Nat : \A d \in D : size[d] <= bound

ComesTo(D, size, below, end, step, f) ==
    \A d \in D : f[d] = IF size[d] = 0 THEN end[d] ELSE step[<<f[below[d]], d>>]

(* A loop whose states get smaller comes to something from each of them. *)
LEMMA LoopRuns ==
    ASSUME NEW D, NEW V, NEW size, NEW below, NEW end, NEW step,
           IsLoop(D, V, size, below, end, step)
    PROVE  \E f \in [D -> V] : ComesTo(D, size, below, end, step, f)
<1>0. PICK bound \in Nat : \A d \in D : size[d] <= bound
  BY DEF IsLoop
<1> USE DEF IsLoop
<1> DEFINE Turn(f, d) == IF size[d] = 0 THEN end[d] ELSE step[<<f[below[d]], d>>]
           Runs(n) == \E f \in [D -> V] : \A d \in D : size[d] <= n => f[d] = Turn(f, d)
           wrong == {n \in Nat : ~Runs(n)}
<1>1. Runs(0)
  <2>1. \A d \in D : size[d] <= 0 => end[d] = Turn(end, d)
    OBVIOUS
  <2> QED
    BY <2>1
<1>2. ASSUME NEW n \in Nat, Runs(n)
      PROVE  Runs(n + 1)
  <2>1. PICK f \in [D -> V] : \A d \in D : size[d] <= n => f[d] = Turn(f, d)
    BY <1>2
  <2> DEFINE g == [d \in D |-> Turn(f, d)]
  <2>2. g \in [D -> V]
    OBVIOUS
  <2>3. ASSUME NEW d \in D, size[d] <= n + 1
        PROVE  g[d] = Turn(g, d)
    <3>1. CASE size[d] = 0
      BY <3>1
    <3>2. CASE size[d] # 0
      <4>1. below[d] \in D /\ size[below[d]] <= n
        BY <2>3, <3>2
      <4>2. g[below[d]] = f[below[d]]
        BY <2>1, <4>1
      <4> QED
        BY <3>2, <4>2
    <3> QED
      BY <3>1, <3>2
  <2> HIDE DEF g, Turn
  <2> QED
    BY <2>2, <2>3
<1> HIDE DEF Runs
<1>3. wrong = {}
  <2>1. SUFFICES ASSUME wrong # {} PROVE FALSE
    OBVIOUS
  <2>2. PICK n \in wrong : \A m \in wrong : n <= m
    <3>1. wrong \in SUBSET Nat
      OBVIOUS
    <3> HIDE DEF wrong
    <3> QED
      BY <2>1, <3>1, LeastNatural
  <2>3. n \in Nat /\ n # 0 /\ n - 1 \in Nat /\ n - 1 \notin wrong /\ (n - 1) + 1 = n
    BY <1>1, <2>2
  <2>4. Runs(n - 1)
    BY <2>3
  <2>5. Runs((n - 1) + 1)
    BY <1>2, <2>3, <2>4
  <2> QED
    BY <2>3, <2>5
<1>4. Runs(bound)
  BY <1>3
<1> QED
  BY <1>0, <1>4 DEF Runs, Turn, ComesTo

(* What holds of a state when it holds of all smaller ones holds of all. *)
Inherited(D, size, G) ==
    /\ size \in [D -> Nat] /\ G \in SUBSET D
    /\ \A d \in D : (\A e \in D : size[e] < size[d] => e \in G) => d \in G

LEMMA Descent ==
    ASSUME NEW D, NEW size, NEW G, Inherited(D, size, G)
    PROVE  G = D
<1> USE DEF Inherited
<1> DEFINE wrong == {size[d] : d \in D \ G}
<1>1. SUFFICES ASSUME wrong # {} PROVE FALSE
  OBVIOUS
<1>2. PICK n \in wrong : \A m \in wrong : n <= m
  <2>1. wrong \in SUBSET Nat
    OBVIOUS
  <2> HIDE DEF wrong
  <2> QED
    BY <1>1, <2>1, LeastNatural
<1>3. PICK d \in D \ G : n = size[d]
  OBVIOUS
<1>4. \A e \in D : size[e] < size[d] => e \in G
  BY <1>2, <1>3
<1> QED
  BY <1>3, <1>4

(* Sequences of sequences in a row: what is in any of them, and nothing else. *)
LEMMA FlattenAll ==
    ASSUME NEW V, NEW seqs \in Seq(Seq(V))
    PROVE  /\ FlattenSeq(seqs) \in Seq(V)
           /\ ToSet(FlattenSeq(seqs)) = UNION {ToSet(seqs[i]) : i \in 1..Len(seqs)}
<1>1. CASE Len(seqs) = 0
  <2>1. seqs = <<>> /\ FlattenSeq(seqs) = seqs
    BY <1>1, EmptySeq DEF FlattenSeq
  <2>2. <<>> \in Seq(V) /\ ToSet(<<>>) = {}
    BY DEF ToSet
  <2>3. UNION {ToSet(seqs[i]) : i \in 1..Len(seqs)} = {}
    BY <1>1
  <2> QED
    BY <2>1, <2>2, <2>3
<1>2. CASE Len(seqs) # 0
  <2> DEFINE D == 1..Len(seqs)
             size == [i \in D |-> i - 1]
             below == [i \in D |-> IF i = 1 THEN 1 ELSE i - 1]
             end == [i \in D |-> seqs[1]]
             step == [vi \in Seq(V) \X D |-> vi[1] \o seqs[vi[2]]]
             Join(f, i) == IF i = 1 THEN seqs[i] ELSE f[i - 1] \o seqs[i]
             flat == CHOOSE f : f = [i \in D |-> Join(f, i)]
  <2>1. FlattenSeq(seqs) = flat[Len(seqs)]
    BY <1>2 DEF FlattenSeq
  <2>2. Len(seqs) \in Nat /\ Len(seqs) \in D /\ 1 \in D /\ \A i \in D : seqs[i] \in Seq(V)
    BY <1>2
  <2>3. \E f : f = [i \in D |-> Join(f, i)]
    <3>1. size \in [D -> Nat] /\ below \in [D -> D] /\ end \in [D -> Seq(V)]
      BY <2>2
    <3>2. step \in [Seq(V) \X D -> Seq(V)]
      <4>1. \A v \in Seq(V), i \in D : v \o seqs[i] \in Seq(V)
        BY <2>2, ConcatProperties
      <4> HIDE DEF D
      <4> QED
        BY <4>1
    <3>3. \A i \in D : size[i] > 0 => size[below[i]] < size[i]
      BY <2>2
    <3>4. \E bound \in Nat : \A i \in D : size[i] <= bound
      <4>1. \A i \in D : size[i] <= Len(seqs)
        BY <2>2
      <4> QED
        BY <2>2, <4>1
    <3>5. PICK f \in [D -> Seq(V)] : ComesTo(D, size, below, end, step, f)
      <4> HIDE DEF D, size, below, end, step
      <4>1. IsLoop(D, Seq(V), size, below, end, step)
        BY <3>1, <3>2, <3>3, <3>4 DEF IsLoop
      <4> QED
        BY <4>1, LoopRuns
    <3>6. ASSUME NEW i \in D
          PROVE  f[i] = Join(f, i)
      <4>1. CASE i = 1
        <5>1. size[i] = 0 /\ end[i] = seqs[1]
          BY <4>1
        <5> QED
          BY <3>5, <4>1, <5>1 DEF ComesTo
      <4>2. CASE i # 1
        <5>1. size[i] # 0 /\ below[i] = i - 1 /\ i - 1 \in D
          BY <2>2, <4>2
        <5>2. f[i] = step[<<f[i - 1], i>>]
          BY <3>5, <5>1 DEF ComesTo
        <5>3. step[<<f[i - 1], i>>] = f[i - 1] \o seqs[i]
          BY <5>1
        <5> QED
          BY <4>2, <5>2, <5>3
      <4> QED
        BY <4>1, <4>2
    <3> QED
      BY <3>6
  <2>4. flat = [i \in D |-> Join(flat, i)]
    BY <2>3
  <2> HIDE DEF flat
  <2> DEFINE G == {i \in D : /\ flat[i] \in Seq(V)
                             /\ ToSet(flat[i]) = UNION {ToSet(seqs[j]) : j \in 1..i}}
  <2>5. ASSUME NEW i \in D, \A e \in D : size[e] < size[i] => e \in G
        PROVE  i \in G
    <3>1. CASE i = 1
      <4>1. flat[i] = seqs[i]
        BY <2>4, <3>1
      <4>2. {ToSet(seqs[j]) : j \in 1..i} = {ToSet(seqs[i])}
        BY <3>1
      <4> QED
        BY <2>2, <4>1, <4>2
    <3>2. CASE i # 1
      <4>1. i - 1 \in D /\ size[i - 1] < size[i]
        BY <2>2, <3>2
      <4>2. /\ flat[i - 1] \in Seq(V)
            /\ ToSet(flat[i - 1]) = UNION {ToSet(seqs[j]) : j \in 1..i - 1}
        BY <2>5, <4>1
      <4>3. flat[i] = flat[i - 1] \o seqs[i]
        BY <2>4, <3>2
      <4>4. /\ flat[i - 1] \o seqs[i] \in Seq(V)
            /\ ToSet(flat[i - 1] \o seqs[i]) = ToSet(flat[i - 1]) \cup ToSet(seqs[i])
        <5> DEFINE s == flat[i - 1]
                   t == seqs[i]
        <5>1. s \in Seq(V) /\ t \in Seq(V) /\ Len(s) \in Nat /\ Len(t) \in Nat
          BY <2>2, <4>2
        <5> HIDE DEF s, t
        <5>2. /\ s \o t \in Seq(V) /\ Len(s \o t) = Len(s) + Len(t)
              /\ \A k \in 1..Len(s) + Len(t) :
                     (s \o t)[k] = IF k <= Len(s) THEN s[k] ELSE t[k - Len(s)]
          BY <5>1, ConcatProperties
        <5>3. /\ DOMAIN (s \o t) = 1..Len(s) + Len(t)
              /\ DOMAIN s = 1..Len(s) /\ DOMAIN t = 1..Len(t)
          BY <5>1, <5>2
        <5>4. ToSet(s \o t) \subseteq ToSet(s) \cup ToSet(t)
          BY <5>1, <5>2, <5>3 DEF ToSet
        <5>5. ToSet(s) \subseteq ToSet(s \o t)
          BY <5>1, <5>2, <5>3 DEF ToSet
        <5>6. ASSUME NEW k \in 1..Len(t)
              PROVE  t[k] \in ToSet(s \o t)
          <6>1. /\ Len(s) + k \in 1..Len(s) + Len(t) /\ ~(Len(s) + k <= Len(s))
                /\ (Len(s) + k) - Len(s) = k
            BY <5>1
          <6>2. (s \o t)[Len(s) + k] = t[k]
            BY <5>2, <6>1
          <6> QED
            BY <5>3, <6>1, <6>2 DEF ToSet
        <5>7. ToSet(t) \subseteq ToSet(s \o t)
          BY <5>3, <5>6 DEF ToSet
        <5> QED
          BY <5>2, <5>4, <5>5, <5>7 DEF s, t
      <4>5. 1..i = (1..i - 1) \cup {i}
        BY <2>2
      <4>6. UNION {ToSet(seqs[j]) : j \in 1..i}
                = (UNION {ToSet(seqs[j]) : j \in 1..i - 1}) \cup ToSet(seqs[i])
        BY <4>5
      <4> QED
        BY <4>2, <4>3, <4>4, <4>6
    <3> QED
      BY <3>1, <3>2
  <2>6. G = D
    <3>1. size \in [D -> Nat] /\ G \in SUBSET D
      BY <2>2
    <3>2. \A i \in D : (\A e \in D : size[e] < size[i] => e \in G) => i \in G
      BY <2>5
    <3> HIDE DEF D, size, G
    <3>3. Inherited(D, size, G)
      BY <3>1, <3>2 DEF Inherited
    <3> QED
      BY <3>3, Descent
  <2>7. Len(seqs) \in G
    <3> HIDE DEF G, D
    <3> QED
      BY <2>2, <2>6
  <2> QED
    BY <2>1, <2>7
<1> QED
  BY <1>1, <1>2
-----------------------------------------------------------------------------
(* Paths, of components from C *)

(* A prefix, component by component. *)
LEMMA Prefix ==
    ASSUME NEW C, NEW s \in Seq(C), NEW t \in Seq(C)
    PROVE  IsPrefix(s, t) <=> Len(s) <= Len(t) /\ \A i \in 1..Len(s) : s[i] = t[i]
<1>1. CASE ~(Len(s) <= Len(t))
  BY <1>1 DEF IsPrefix
<1>2. CASE Len(s) <= Len(t)
  <2> DEFINE cut == SubSeq(t, 1, Len(s))
  <2>1. Len(s) \in Nat /\ \A i \in 1..Len(s) : s[i] \in C /\ t[i] \in C
    BY <1>2
  <2>2. /\ cut \in Seq(C) /\ Len(cut) = Len(s)
        /\ \A i \in 1..Len(s) : cut[i] = t[i]
    <3>1. \A i \in 1..Len(s) : t[i] \in C
      BY <2>1
    <3>2. /\ cut \in Seq(C)
          /\ Len(cut) = IF 1 <= Len(s) THEN Len(s) - 1 + 1 ELSE 0
          /\ \A i \in 1..Len(s) - 1 + 1 : cut[i] = t[1 + i - 1]
      BY <2>1, <3>1, SubSeqProperties
    <3> QED
      BY <2>1, <3>2
  <2>3. SubSeq(s, 1, Len(s)) = s
    BY SubSeqFull
  <2>4. s = cut <=> \A i \in 1..Len(s) : s[i] = cut[i]
    <3> HIDE DEF cut
    <3> QED
      BY <2>2, SeqEqual
  <2> QED
    BY <1>2, <2>2, <2>3, <2>4 DEF IsPrefix
<1> QED
  BY <1>1, <1>2

(* The first n components of a path. *)
LEMMA Cut ==
    ASSUME NEW C, NEW t \in Seq(C), NEW n \in 0..Len(t)
    PROVE  /\ SubSeq(t, 1, n) \in Seq(C) /\ Len(SubSeq(t, 1, n)) = n
           /\ \A i \in 1..n : SubSeq(t, 1, n)[i] = t[i]
<1>1. n \in Nat /\ \A i \in 1..n : t[i] \in C
  OBVIOUS
<1>2. /\ SubSeq(t, 1, n) \in Seq(C)
      /\ Len(SubSeq(t, 1, n)) = IF 1 <= n THEN n - 1 + 1 ELSE 0
      /\ \A i \in 1..n - 1 + 1 : SubSeq(t, 1, n)[i] = t[1 + i - 1]
  BY <1>1, SubSeqProperties
<1> QED
  BY <1>1, <1>2

(* A directory above a path is the path cut off, at its own length. *)
LEMMA Above ==
    ASSUME NEW C, NEW s \in Seq(C), NEW t \in Seq(C)
    PROVE  IsPrefix(s, t) <=> Len(s) <= Len(t) /\ s = SubSeq(t, 1, Len(s))
<1>1. Len(s) \in Nat /\ Len(t) \in Nat
  OBVIOUS
<1>2. SubSeq(s, 1, Len(s)) = s
  BY SubSeqFull
<1> QED
  BY <1>1, <1>2 DEF IsPrefix

LEMMA CutAbove ==
    ASSUME NEW C, NEW s \in Seq(C), NEW t \in Seq(C), NEW n \in 0..Len(t)
    PROVE  IsPrefix(s, SubSeq(t, 1, n)) <=> Len(s) <= n /\ IsPrefix(s, t)
<1>1. Len(s) \in Nat /\ Len(t) \in Nat
  OBVIOUS
<1>2. /\ SubSeq(t, 1, n) \in Seq(C) /\ Len(SubSeq(t, 1, n)) = n
      /\ \A i \in 1..n : SubSeq(t, 1, n)[i] = t[i]
  BY Cut
<1>3. IsPrefix(s, SubSeq(t, 1, n)) <=> Len(s) <= n /\ \A i \in 1..Len(s) : s[i] = SubSeq(t, 1, n)[i]
  <2> DEFINE cut == SubSeq(t, 1, n)
  <2>1. cut \in Seq(C) /\ Len(cut) = n
    BY <1>2
  <2> HIDE DEF cut
  <2>2. IsPrefix(s, cut) <=> Len(s) <= Len(cut) /\ \A i \in 1..Len(s) : s[i] = cut[i]
    BY <2>1, Prefix
  <2> QED
    BY <2>1, <2>2 DEF cut
<1>4. IsPrefix(s, t) <=> Len(s) <= Len(t) /\ \A i \in 1..Len(s) : s[i] = t[i]
  BY Prefix
<1> QED
  BY <1>1, <1>2, <1>3, <1>4

(* Of two directories above a path one is above the other. *)
LEMMA Comparable ==
    ASSUME NEW C, NEW r \in Seq(C), NEW s \in Seq(C), NEW t \in Seq(C),
           IsPrefix(r, t), IsPrefix(s, t)
    PROVE  IsPrefix(r, s) \/ IsPrefix(s, r)
<1>1. Len(r) \in Nat /\ Len(s) \in Nat /\ Len(t) \in Nat
  OBVIOUS
<1>2. /\ Len(r) <= Len(t) /\ \A i \in 1..Len(r) : r[i] = t[i]
      /\ Len(s) <= Len(t) /\ \A i \in 1..Len(s) : s[i] = t[i]
  BY Prefix
<1>3. \/ Len(r) <= Len(s) /\ \A i \in 1..Len(r) : r[i] = s[i]
      \/ Len(s) <= Len(r) /\ \A i \in 1..Len(s) : s[i] = r[i]
  BY <1>1, <1>2
<1> QED
  BY <1>3, Prefix

(* A file, as a name in a directory. *)
LEMMA FrontOfAppend ==
    ASSUME NEW C, NEW d \in Seq(C), NEW n \in C
    PROVE  Front(Append(d, n)) = d
<1> DEFINE p == Append(d, n)
<1>1. /\ p \in Seq(C) /\ Len(p) = Len(d) + 1 /\ Len(d) \in Nat
      /\ \A i \in 1..Len(d) : p[i] = d[i]
  BY AppendProperties
<1> HIDE DEF p
<1>2. Len(d) \in 0..Len(p) /\ Len(p) - 1 = Len(d)
  BY <1>1
<1>3. /\ SubSeq(p, 1, Len(d)) \in Seq(C) /\ Len(SubSeq(p, 1, Len(d))) = Len(d)
      /\ \A i \in 1..Len(d) : SubSeq(p, 1, Len(d))[i] = p[i]
  BY <1>1, <1>2, Cut
<1> DEFINE q == SubSeq(p, 1, Len(d))
<1>4. q \in Seq(C) /\ Len(q) = Len(d) /\ \A i \in 1..Len(d) : q[i] = d[i]
  BY <1>1, <1>3
<1>5. Front(p) = q
  BY <1>2 DEF Front
<1> HIDE DEF q
<1>6. q = d
  BY <1>4, SeqEqual
<1> QED
  BY <1>5, <1>6 DEF p

LEMMA PrefixOfAppend ==
    ASSUME NEW C, NEW s \in Seq(C), NEW d \in Seq(C), NEW n \in C,
           IsPrefix(s, Append(d, n)), s # Append(d, n)
    PROVE  IsPrefix(s, d)
<1> DEFINE p == Append(d, n)
<1>1. /\ p \in Seq(C) /\ Len(p) = Len(d) + 1 /\ Len(d) \in Nat /\ Len(s) \in Nat
      /\ \A i \in 1..Len(d) : p[i] = d[i]
  BY AppendProperties
<1> HIDE DEF p
<1>2. Len(s) <= Len(p) /\ \A i \in 1..Len(s) : s[i] = p[i]
  <2>1. IsPrefix(s, p)
    BY DEF p
  <2> QED
    BY <1>1, <2>1, Prefix
<1>3. Len(s) # Len(p)
  <2> SUFFICES ASSUME Len(s) = Len(p) PROVE FALSE
    OBVIOUS
  <2>1. s = p
    BY <1>1, <1>2, SeqEqual
  <2> QED
    BY <2>1 DEF p
<1>4. Len(s) <= Len(d) /\ \A i \in 1..Len(s) : s[i] = d[i]
  BY <1>1, <1>2, <1>3
<1> QED
  BY <1>4, Prefix
-----------------------------------------------------------------------------
(* The loop of find_project_root *)

(* How long the marked directories are that lie at or above the first n
   components of cur and at or below top, and the longest of them. *)
Hits(marks, top, cur, n) ==
    {m \in 0..n : IsPrefix(top, SubSeq(cur, 1, m)) /\ SubSeq(cur, 1, m) \in marks}

IsNearest(marks, top, cur, n, dir) ==
    \/ Hits(marks, top, cur, n) = {} /\ dir = <<>>
    \/ \E m \in Hits(marks, top, cur, n) : /\ dir = SubSeq(cur, 1, m)
                                           /\ \A k \in Hits(marks, top, cur, n) : k <= m

(* One turn of the loop, at the first n components of cur; `up` is where the
   turns after it come to. *)
Turn(marks, top, cur, up, n) ==
    LET dir == SubSeq(cur, 1, n)
    IN  IF ~IsPrefix(top, dir)    THEN <<>>
        ELSE IF dir \in marks THEN dir
        ELSE IF dir = top \/ n = 0  THEN <<>>
        ELSE up[n - 1]

LEMMA NearestExists ==
    ASSUME NEW C, NEW marks, NEW top \in Seq(C), NEW cur \in Seq(C), NEW n \in 0..Len(cur)
    PROVE  /\ \E dir : IsNearest(marks, top, cur, n, dir)
           /\ \A d, e : IsNearest(marks, top, cur, n, d) /\ IsNearest(marks, top, cur, n, e)
                        => d = e
<1> DEFINE H == Hits(marks, top, cur, n)
<1>1. H \in SUBSET (0..n) /\ n \in Nat
  BY DEF Hits
<1> HIDE DEF H
<1>2. H # {} => \E m \in H : \A k \in H : k <= m
  BY <1>1, GreatestBelow
<1>3. \A d : IsNearest(marks, top, cur, n, d) <=>
             \/ H = {} /\ d = <<>>
             \/ \E m \in H : d = SubSeq(cur, 1, m) /\ \A k \in H : k <= m
  BY DEF IsNearest, H
<1>4. ASSUME NEW l \in H, NEW m \in H, \A k \in H : k <= l, \A k \in H : k <= m
      PROVE  l = m
  <2>1. l <= m /\ m <= l /\ l \in 0..n /\ m \in 0..n
    BY <1>1, <1>4
  <2> QED
    BY <1>1, <2>1
<1>5. \E dir : IsNearest(marks, top, cur, n, dir)
  BY <1>2, <1>3
<1>6. ASSUME NEW d, NEW e,
             IsNearest(marks, top, cur, n, d), IsNearest(marks, top, cur, n, e)
      PROVE  d = e
  <2>1. CASE H = {}
    BY <1>3, <1>6, <2>1
  <2>2. CASE H # {}
    <3>1. PICK l \in H : d = SubSeq(cur, 1, l) /\ \A k \in H : k <= l
      BY <1>3, <1>6, <2>2
    <3>2. PICK m \in H : e = SubSeq(cur, 1, m) /\ \A k \in H : k <= m
      BY <1>3, <1>6, <2>2
    <3>3. l = m
      BY <1>4, <3>1, <3>2
    <3> QED
      BY <3>1, <3>2, <3>3
  <2> QED
    BY <2>1, <2>2
<1> QED
  BY <1>5, <1>6

(* What is nearest at n follows from what is nearest at n - 1 by one turn. *)
LEMMA NearestTurn ==
    ASSUME NEW C, NEW marks, NEW top \in Seq(C), NEW cur \in Seq(C), NEW n \in 0..Len(cur), NEW up,
           n > 0 => IsNearest(marks, top, cur, n - 1, up[n - 1])
    PROVE  IsNearest(marks, top, cur, n, Turn(marks, top, cur, up, n))
<1> DEFINE dir == SubSeq(cur, 1, n)
           H(k) == Hits(marks, top, cur, k)
<1>1. /\ n \in Nat /\ Len(top) \in Nat /\ Len(cur) \in Nat
      /\ \A k \in 0..n : k \in 0..Len(cur)
  OBVIOUS
<1>2. \A k \in 0..n : IsPrefix(top, SubSeq(cur, 1, k)) <=> Len(top) <= k /\ IsPrefix(top, cur)
  BY <1>1, CutAbove
<1>3. dir \in Seq(C) /\ Len(dir) = n
  BY Cut
<1>4. CASE ~IsPrefix(top, dir)
  <2>1. H(n) = {}
    BY <1>1, <1>2, <1>4 DEF Hits
  <2> QED
    BY <1>4, <2>1 DEF IsNearest, Turn
<1>5. CASE IsPrefix(top, dir) /\ dir \in marks
  <2>1. n \in H(n) /\ \A k \in H(n) : k <= n
    BY <1>1, <1>5 DEF Hits
  <2> QED
    BY <1>5, <2>1 DEF IsNearest, Turn
<1>6. CASE IsPrefix(top, dir) /\ dir \notin marks /\ (dir = top \/ n = 0)
  <2>1. \A k \in H(n) : k < n /\ Len(top) <= k
    BY <1>1, <1>2, <1>6 DEF Hits
  <2>2. H(n) = {}
    BY <1>1, <1>3, <1>6, <2>1 DEF Hits
  <2> QED
    BY <1>6, <2>2 DEF IsNearest, Turn
<1>7. CASE IsPrefix(top, dir) /\ dir \notin marks /\ dir # top /\ n > 0
  <2>1. H(n) = H(n - 1)
    BY <1>1, <1>7 DEF Hits
  <2>2. Turn(marks, top, cur, up, n) = up[n - 1]
    BY <1>7 DEF Turn
  <2> QED
    BY <1>7, <2>1, <2>2 DEF IsNearest
<1> QED
  BY <1>1, <1>4, <1>5, <1>6, <1>7

(* The loop ends at the marked directory nearest to where it began. *)
LEMMA LoopFinds ==
    ASSUME NEW C, NEW marks, NEW top \in Seq(C), NEW cur \in Seq(C), NEW up,
           up = CHOOSE f : f = [n \in 0..Len(cur) |-> Turn(marks, top, cur, f, n)]
    PROVE  IsNearest(marks, top, cur, Len(cur), up[Len(cur)])
<1> DEFINE Near(n, dir) == IsNearest(marks, top, cur, n, dir)
           Loop(f) == [n \in 0..Len(cur) |-> Turn(marks, top, cur, f, n)]
           found == [n \in 0..Len(cur) |-> CHOOSE dir : Near(n, dir)]
<1>1. Len(cur) \in Nat
  OBVIOUS
<1>2. \A n \in 0..Len(cur) : Near(n, found[n])
  BY NearestExists
<1>3. found = Loop(found)
  <2>1. ASSUME NEW n \in 0..Len(cur)
        PROVE  found[n] = Turn(marks, top, cur, found, n)
    <3>1. n > 0 => Near(n - 1, found[n - 1])
      BY <1>1, <1>2
    <3>2. Near(n, Turn(marks, top, cur, found, n))
      <4> HIDE DEF found
      <4> QED
        BY <3>1, NearestTurn
    <3> QED
      BY <1>2, <3>2, NearestExists
  <2> QED
    BY <2>1
<1>4. up = Loop(up)
  <2> HIDE DEF found
  <2> QED
    BY <1>3
<1>5. ASSUME NEW n \in 0..Len(cur), n > 0 => Near(n - 1, up[n - 1])
      PROVE  Near(n, up[n])
  <2>1. Near(n, Turn(marks, top, cur, up, n))
    BY <1>5, NearestTurn
  <2> QED
    BY <1>4, <2>1
<1> DEFINE wrong == {n \in 0..Len(cur) : ~Near(n, up[n])}
<1>6. wrong = {}
  <2>1. SUFFICES ASSUME wrong # {} PROVE FALSE
    OBVIOUS
  <2>2. wrong \in SUBSET Nat
    BY <1>1
  <2>3. PICK n \in wrong : \A m \in wrong : n <= m
    <3> HIDE DEF wrong
    <3> QED
      BY <2>1, <2>2, LeastNatural
  <2>4. n > 0 => Near(n - 1, up[n - 1])
    <3> HIDE DEF Near
    <3> QED
      BY <1>1, <2>3
  <2> QED
    BY <1>5, <2>4
<1> QED
  BY <1>1, <1>6

(* In a folder that has a name, "no project" means that none is marked. *)
LEMMA NoneFound ==
    ASSUME NEW C, NEW marks, NEW top \in Seq(C), top # <<>>, NEW cur \in Seq(C), NEW dir,
           IsNearest(marks, top, cur, Len(cur), dir)
    PROVE  dir = <<>> <=> Hits(marks, top, cur, Len(cur)) = {}
<1>1. ASSUME NEW m \in Hits(marks, top, cur, Len(cur))
      PROVE  SubSeq(cur, 1, m) # <<>>
  <2>1. m \in 0..Len(cur) /\ IsPrefix(top, SubSeq(cur, 1, m))
    BY DEF Hits
  <2>2. SubSeq(cur, 1, m) \in Seq(C)
    BY <2>1, Cut
  <2>3. Len(top) <= Len(SubSeq(cur, 1, m)) /\ Len(top) \in Nat \ {0}
    BY <2>1, <2>2, Prefix, EmptySeq
  <2>4. Len(SubSeq(cur, 1, m)) \in Nat /\ Len(SubSeq(cur, 1, m)) > 0
    BY <2>2, <2>3
  <2>5. ASSUME NEW s, s = <<>>
        PROVE  ~(Len(s) > 0)
    BY <2>5
  <2> QED
    BY <2>4, <2>5
<1> QED
  BY <1>1 DEF IsNearest

(* find_project_root is that loop. *)
LEMMA RootFound ==
    ASSUME NEW C, NEW t, NEW path, NEW root,
           SearchStart(t, path) \in Seq(C), t.canon[root] \in Seq(C)
    PROVE  IsNearest(t.marked, t.canon[root], SearchStart(t, path),
                     Len(SearchStart(t, path)), find_project_root(t, path, root))
<1> DEFINE cur == SearchStart(t, path)
           top == t.canon[root]
           up  == CHOOSE f : f = [n \in 0..Len(cur) |-> Turn(t.marked, top, cur, f, n)]
<1>1. find_project_root(t, path, root) = up[Len(cur)]
  BY DEF find_project_root, Turn
<1> QED
  BY <1>1, LoopFinds
=============================================================================
