---------------------------- MODULE EditorProofs ----------------------------
(***************************************************************************)
(* Proofs about the dialogs of RuleEditor, for every tree of directories,  *)
(* every rule that was written by hand, whatever is chosen and typed and   *)
(* however often.                                                          *)
(***************************************************************************)
EXTENDS RuleEditor, ScopeLemmas

(* Texts with commas *)

(* Values of a list as csv_values makes them, of the tokens V. *)
NoComma(V) == V \ {","}
HasComma(V) == "," \in V
Clean(V) == {v \in Seq(NoComma(V)) : v # <<>> /\ v[1] # "."}

LEMMA DotsGone ==
    ASSUME NEW V, NEW text \in Seq(NoComma(V))
    PROVE  WithoutDots(text) # <<>> => WithoutDots(text) \in Clean(V)
<1> DEFINE rest == {i \in DOMAIN text : text[i] # "."}
<1>1. CASE rest = {}
  BY <1>1 DEF WithoutDots
<1>2. CASE rest # {}
  <2>1. DOMAIN text = 1..Len(text) /\ Len(text) \in Nat
    OBVIOUS
  <2>2. \E i \in rest : \A j \in rest : i <= j
    <3>1. rest \in SUBSET Nat
      BY <2>1
    <3> HIDE DEF rest
    <3> QED
      BY <1>2, <3>1, LeastNatural
  <2> DEFINE first == CHOOSE i \in rest : \A j \in rest : i <= j
  <2>3. first \in rest
    BY <2>2
  <2>4. WithoutDots(text) = SubSeq(text, first, Len(text))
    BY <1>2 DEF WithoutDots
  <2> HIDE DEF first
  <2>5. first \in 1..Len(text) /\ text[first] # "."
    BY <2>1, <2>3
  <2>6. /\ SubSeq(text, first, Len(text)) \in Seq(NoComma(V))
        /\ SubSeq(text, first, Len(text)) # <<>>
        /\ SubSeq(text, first, Len(text))[1] = text[first]
    <3>1. \A i \in first..Len(text) : text[i] \in NoComma(V)
      BY <2>1, <2>5
    <3> QED
      BY <2>1, <2>5, <3>1, SubSeqProperties
  <2> QED
    BY <2>4, <2>5, <2>6 DEF Clean
<1> QED
  BY <1>1, <1>2

LEMMA CleanStays ==
    ASSUME NEW V, NEW v \in Clean(V)
    PROVE  WithoutDots(v) = v /\ v # <<>>
<1> DEFINE rest == {i \in DOMAIN v : v[i] # "."}
<1>1. /\ v \in Seq(NoComma(V)) /\ v # <<>> /\ v[1] # "." /\ Len(v) \in Nat /\ Len(v) > 0
      /\ DOMAIN v = 1..Len(v)
  BY DEF Clean
<1>2. 1 \in rest /\ \A j \in rest : j \in Nat /\ 1 <= j
  BY <1>1
<1> DEFINE first == CHOOSE i \in rest : \A j \in rest : i <= j
<1>3. first \in rest /\ \A j \in rest : first <= j
  <2>1. \E i \in rest : \A j \in rest : i <= j
    BY <1>2
  <2> QED
    BY <2>1
<1>4. first = 1
  BY <1>2, <1>3
<1>5. WithoutDots(v) = SubSeq(v, first, Len(v))
  BY <1>2 DEF WithoutDots
<1> HIDE DEF first
<1>6. SubSeq(v, 1, Len(v)) = v
  BY <1>1
<1> QED
  BY <1>1, <1>4, <1>5, <1>6

(* csv_values, token by token. *)
Keep(values, part) == IF WithoutDots(part) = <<>> THEN values
                      ELSE Append(values, WithoutDots(part))
Parting(V) == [values : Seq(Clean(V)), part : Seq(NoComma(V))]
Part(values, part) == [values |-> values, part |-> part]
Parted(before, token) ==
    IF token = "," THEN Part(Keep(before.values, before.part), <<>>)
    ELSE Part(before.values, Append(before.part, token))
IsCut(text, c) ==
    /\ c[0] = Part(<<>>, <<>>)
    /\ \A n \in 1..Len(text) : c[n] = Parted(c[n - 1], text[n])

LEMMA KeepType ==
    ASSUME NEW V, NEW values \in Seq(Clean(V)), NEW part \in Seq(NoComma(V))
    PROVE  Keep(values, part) \in Seq(Clean(V))
<1>1. CASE WithoutDots(part) = <<>>
  BY <1>1 DEF Keep
<1>2. CASE WithoutDots(part) # <<>>
  <2>1. WithoutDots(part) \in Clean(V)
    BY <1>2, DotsGone
  <2> QED
    BY <1>2, <2>1 DEF Keep
<1> QED
  BY <1>1, <1>2

LEMMA PartedType ==
    ASSUME NEW V, NEW before \in Parting(V), NEW token \in V
    PROVE  Parted(before, token) \in Parting(V)
<1>1. before.values \in Seq(Clean(V)) /\ before.part \in Seq(NoComma(V))
  BY DEF Parting
<1>2. CASE token = ","
  <2>1. Keep(before.values, before.part) \in Seq(Clean(V)) /\ <<>> \in Seq(NoComma(V))
    BY <1>1, KeepType
  <2> QED
    BY <1>2, <2>1 DEF Parted, Part, Parting
<1>3. CASE token # ","
  <2>0. token \in NoComma(V)
    BY <1>3 DEF NoComma
  <2>1. Append(before.part, token) \in Seq(NoComma(V))
    BY <1>1, <2>0
  <2> QED
    BY <1>1, <1>3, <2>1 DEF Parted, Part, Parting
<1> QED
  BY <1>2, <1>3

LEMMA CutRuns ==
    ASSUME NEW V, NEW text \in Seq(V)
    PROVE  \E c \in [0..Len(text) -> Parting(V)] :
              /\ IsCut(text, c)
              /\ csv_values(text) = Keep(c[Len(text)].values, c[Len(text)].part)
<1> DEFINE D == 0..Len(text)
           size  == [n \in D |-> n]
           below == [n \in D |-> IF n = 0 THEN 0 ELSE n - 1]
           end   == [n \in D |-> Part(<<>>, <<>>)]
           step  == [sn \in Parting(V) \X D |->
                       IF sn[2] = 0 THEN sn[1] ELSE Parted(sn[1], text[sn[2]])]
           CutAt(f, n) ==
               IF n = 0 THEN [values |-> <<>>, part |-> <<>>]
               ELSE IF text[n] = "," THEN [values |-> Keep(f[n - 1].values, f[n - 1].part),
                                           part |-> <<>>]
               ELSE [values |-> f[n - 1].values, part |-> Append(f[n - 1].part, text[n])]
           cut == CHOOSE f : f = [n \in D |-> CutAt(f, n)]
<1>1. Len(text) \in Nat /\ Len(text) \in D /\ 0 \in D /\ \A n \in 1..Len(text) : text[n] \in V
  OBVIOUS
<1>2. csv_values(text) = Keep(cut[Len(text)].values, cut[Len(text)].part)
  BY DEF csv_values, Keep
<1>3. PICK f \in [D -> Parting(V)] : ComesTo(D, size, below, end, step, f)
  <2>1. size \in [D -> Nat] /\ below \in [D -> D]
    BY <1>1
  <2>2. end \in [D -> Parting(V)]
    <3>1. Part(<<>>, <<>>) \in Parting(V)
      BY DEF Part, Parting
    <3> HIDE DEF D
    <3> QED
      BY <3>1
  <2>3. step \in [Parting(V) \X D -> Parting(V)]
    <3>1. ASSUME NEW s \in Parting(V), NEW n \in D
          PROVE  (IF n = 0 THEN s ELSE Parted(s, text[n])) \in Parting(V)
      <4>1. CASE n = 0
        BY <4>1
      <4>2. CASE n # 0
        <5>1. text[n] \in V
          BY <1>1, <4>2
        <5> QED
          BY <4>2, <5>1, PartedType
      <4> QED
        BY <4>1, <4>2
    <3> HIDE DEF D
    <3> QED
      BY <3>1
  <2>4. \A n \in D : size[n] > 0 => size[below[n]] < size[n]
    BY <1>1
  <2>5. \E bound \in Nat : \A n \in D : size[n] <= bound
    <3>1. \A n \in D : size[n] <= Len(text)
      BY <1>1
    <3> QED
      BY <1>1, <3>1
  <2> HIDE DEF D, size, below, end, step
  <2>6. IsLoop(D, Parting(V), size, below, end, step)
    BY <2>1, <2>2, <2>3, <2>4, <2>5 DEF IsLoop
  <2> QED
    BY <2>6, LoopRuns
<1>4. f[0] = Part(<<>>, <<>>)
  <2>1. size[0] = 0 /\ end[0] = Part(<<>>, <<>>)
    BY <1>1
  <2> QED
    BY <1>1, <1>3, <2>1 DEF ComesTo
<1>5. ASSUME NEW n \in 1..Len(text)
      PROVE  f[n] = Parted(f[n - 1], text[n])
  <2>1. n \in D /\ n - 1 \in D /\ size[n] # 0 /\ below[n] = n - 1
    BY <1>1
  <2>2. f[n] = step[<<f[n - 1], n>>]
    BY <1>3, <2>1 DEF ComesTo
  <2>3. f[n - 1] \in Parting(V) /\ n # 0
    BY <1>3, <2>1
  <2>4. step[<<f[n - 1], n>>] = Parted(f[n - 1], text[n])
    <3>1. <<f[n - 1], n>> \in Parting(V) \X D
      BY <2>1, <2>3
    <3> HIDE DEF D
    <3> QED
      BY <2>3, <3>1
  <2> QED
    BY <2>2, <2>4
<1>6. f = [n \in D |-> CutAt(f, n)]
  <2>1. ASSUME NEW n \in D
        PROVE  f[n] = CutAt(f, n)
    <3>1. CASE n = 0
      BY <1>4, <3>1 DEF Part
    <3>2. CASE n # 0
      <4>1. n \in 1..Len(text)
        BY <1>1, <3>2
      <4>2. f[n] = Parted(f[n - 1], text[n])
        BY <4>1, <1>5
      <4> QED
        BY <3>2, <4>2 DEF Parted, Part
    <3> QED
      BY <3>1, <3>2
  <2> HIDE DEF CutAt, D
  <2> QED
    BY <1>3, <2>1
<1>7. cut = [n \in D |-> CutAt(cut, n)]
  <2> HIDE DEF D, CutAt
  <2> QED
    BY <1>6
<1>8. cut = f
  <2>1. cut[0] = CutAt(cut, 0) /\ f[0] = CutAt(f, 0)
    <3> HIDE DEF CutAt, cut, D
    <3> QED
      BY <1>1, <1>6, <1>7
  <2>2. cut[0] = f[0]
    BY <2>1
  <2>3. ASSUME NEW n \in 1..Len(text), cut[n - 1] = f[n - 1]
        PROVE  cut[n] = f[n]
    <3>1. n \in D /\ n # 0
      BY <1>1
    <3>2. cut[n] = CutAt(cut, n) /\ f[n] = CutAt(f, n)
      <4> HIDE DEF CutAt, cut, D
      <4> QED
        BY <3>1, <1>6, <1>7
    <3>3. CutAt(cut, n) = CutAt(f, n)
      <4> HIDE DEF cut
      <4> QED
        BY <2>3, <3>1
    <3> QED
      BY <3>2, <3>3
  <2>4. \A n \in D : cut[n] = f[n]
    <3> HIDE DEF cut
    <3>1. \A n \in 1..Len(text) : cut[n - 1] = f[n - 1] => cut[n] = f[n]
      BY <2>3
    <3>2. Len(text) \in Nat
      BY <1>1
    <3> HIDE DEF CutAt, D, size, below, end, step
    <3>3. GoAlike(cut, f, Len(text))
      BY <2>2, <3>1 DEF GoAlike
    <3>4. \A n \in 0..Len(text) : cut[n] = f[n]
      BY <3>2, <3>3, SameRuns, Zenon
    <3> QED
      BY <3>4 DEF D
  <2> HIDE DEF cut, CutAt
  <2> HIDE DEF D
  <2> QED
    BY <1>6, <1>7, <2>4
<1> QED
  <2> HIDE DEF cut
  <2>1. IsCut(text, f)
    BY <1>4, <1>5 DEF IsCut
  <2> QED
    BY <1>2, <1>3, <1>8, <2>1

(* What is cut out of a text are clean values. *)
LEMMA ValuesClean ==
    ASSUME NEW V, NEW text \in Seq(V)
    PROVE  csv_values(text) \in Seq(Clean(V))
<1>1. PICK c \in [0..Len(text) -> Parting(V)] :
        csv_values(text) = Keep(c[Len(text)].values, c[Len(text)].part)
  BY CutRuns
<1>2. c[Len(text)] \in Parting(V)
  OBVIOUS
<1> QED
  BY <1>1, <1>2, KeepType DEF Parting

(* value_as_entry_text, text by text. *)
IsJoined(texts, j) ==
    /\ j[0] = <<>> /\ (Len(texts) > 0 => j[1] = texts[1])
    /\ \A n \in 2..Len(texts) : j[n] = j[n - 1] \o <<",">> \o texts[n]

(* Lists of these texts can be written as one of them. *)
Joins(T) == <<>> \in T /\ \A s, t \in T : s \o <<",">> \o t \in T

LEMMA JoinRuns ==
    ASSUME NEW T, Joins(T), NEW texts \in Seq(T)
    PROVE  \E j \in [0..Len(texts) -> T] :
              IsJoined(texts, j) /\ value_as_entry_text(texts) = j[Len(texts)]
<1> DEFINE D == 0..Len(texts)
           size  == [n \in D |-> n]
           below == [n \in D |-> IF n = 0 THEN 0 ELSE n - 1]
           end   == [n \in D |-> <<>>]
           More(s, n) == IF n = 0 THEN <<>> ELSE IF n = 1 THEN texts[1]
                         ELSE s \o <<",">> \o texts[n]
           step  == [sn \in T \X D |-> More(sn[1], sn[2])]
           CutAt(f, n) == IF n = 0 THEN <<>> ELSE IF n = 1 THEN texts[1]
                         ELSE f[n - 1] \o <<",">> \o texts[n]
           joined == CHOOSE f : f = [n \in D |-> CutAt(f, n)]
<1>1. Len(texts) \in Nat /\ Len(texts) \in D /\ 0 \in D
      /\ \A n \in 1..Len(texts) : texts[n] \in T
  OBVIOUS
<1>2. value_as_entry_text(texts) = joined[Len(texts)]
  BY DEF value_as_entry_text
<1>3. PICK f \in [D -> T] : ComesTo(D, size, below, end, step, f)
  <2>1. size \in [D -> Nat] /\ below \in [D -> D]
    BY <1>1
  <2>2. end \in [D -> T]
    <3> HIDE DEF D
    <3> QED
      BY DEF Joins
  <2>3. step \in [T \X D -> T]
    <3>1. ASSUME NEW s \in T, NEW n \in D
          PROVE  More(s, n) \in T
      <4>1. CASE n = 0
        BY <4>1 DEF Joins
      <4>2. CASE n = 1
        BY <1>1, <4>2
      <4>3. CASE n # 0 /\ n # 1
        <5>1. texts[n] \in T
          BY <1>1, <4>3
        <5> QED
          BY <4>3, <5>1 DEF Joins
      <4> QED
        BY <4>1, <4>2, <4>3
    <3> HIDE DEF D, More
    <3> QED
      BY <3>1
  <2>4. \A n \in D : size[n] > 0 => size[below[n]] < size[n]
    BY <1>1
  <2>5. \E bound \in Nat : \A n \in D : size[n] <= bound
    <3>1. \A n \in D : size[n] <= Len(texts)
      BY <1>1
    <3> QED
      BY <1>1, <3>1
  <2> HIDE DEF D, size, below, end, step
  <2>6. IsLoop(D, T, size, below, end, step)
    BY <2>1, <2>2, <2>3, <2>4, <2>5 DEF IsLoop
  <2> QED
    BY <2>6, LoopRuns
<1>4. f[0] = <<>>
  <2>1. size[0] = 0 /\ end[0] = <<>>
    BY <1>1
  <2> QED
    BY <1>1, <1>3, <2>1 DEF ComesTo
<1>5. ASSUME NEW n \in 1..Len(texts)
      PROVE  f[n] = More(f[n - 1], n)
  <2>1. n \in D /\ n - 1 \in D /\ size[n] # 0 /\ below[n] = n - 1
    BY <1>1
  <2>2. f[n] = step[<<f[n - 1], n>>]
    BY <1>3, <2>1 DEF ComesTo
  <2>3. f[n - 1] \in T
    BY <1>3, <2>1
  <2>4. step[<<f[n - 1], n>>] = More(f[n - 1], n)
    <3>1. <<f[n - 1], n>> \in T \X D
      BY <2>1, <2>3
    <3> HIDE DEF D, More
    <3> QED
      BY <2>3, <3>1
  <2> QED
    BY <2>2, <2>4
<1>6. f = [n \in D |-> CutAt(f, n)]
  <2>1. ASSUME NEW n \in D
        PROVE  f[n] = CutAt(f, n)
    <3>1. CASE n = 0
      BY <1>4, <3>1
    <3>2. CASE n # 0
      <4>1. n \in 1..Len(texts)
        BY <1>1, <3>2
      <4> QED
        BY <3>2, <4>1, <1>5
    <3> QED
      BY <3>1, <3>2
  <2> HIDE DEF CutAt, D
  <2> QED
    BY <1>3, <2>1
<1>7. joined = [n \in D |-> CutAt(joined, n)]
  <2> HIDE DEF D, CutAt
  <2> QED
    BY <1>6
<1>8. joined = f
  <2>1. joined[0] = CutAt(joined, 0) /\ f[0] = CutAt(f, 0)
    <3> HIDE DEF CutAt, joined, D
    <3> QED
      BY <1>1, <1>6, <1>7
  <2>2. joined[0] = f[0]
    BY <2>1
  <2>3. ASSUME NEW n \in 1..Len(texts), joined[n - 1] = f[n - 1]
        PROVE  joined[n] = f[n]
    <3>1. n \in D /\ n # 0
      BY <1>1
    <3>2. joined[n] = CutAt(joined, n) /\ f[n] = CutAt(f, n)
      <4> HIDE DEF CutAt, joined, D
      <4> QED
        BY <3>1, <1>6, <1>7
    <3>3. CutAt(joined, n) = CutAt(f, n)
      <4> HIDE DEF joined
      <4> QED
        BY <2>3, <3>1
    <3> QED
      BY <3>2, <3>3
  <2>4. \A n \in D : joined[n] = f[n]
    <3> HIDE DEF joined
    <3>1. \A n \in 1..Len(texts) : joined[n - 1] = f[n - 1] => joined[n] = f[n]
      BY <2>3
    <3>2. Len(texts) \in Nat
      BY <1>1
    <3> HIDE DEF CutAt, D, size, below, end, step
    <3>3. GoAlike(joined, f, Len(texts))
      BY <2>2, <3>1 DEF GoAlike
    <3>4. \A n \in 0..Len(texts) : joined[n] = f[n]
      BY <3>2, <3>3, SameRuns, Zenon
    <3> QED
      BY <3>4 DEF D
  <2> HIDE DEF joined, CutAt
  <2> HIDE DEF D
  <2> QED
    BY <1>6, <1>7, <2>4
<1> QED
  <2> HIDE DEF joined
  <2>1. Len(texts) > 0 => f[1] = texts[1]
    <3>1. 1 # 0 /\ (Len(texts) > 0 => 1 \in 1..Len(texts))
      BY <1>1
    <3> QED
      BY <3>1, <1>5
  <2>2. ASSUME NEW n \in 2..Len(texts)
        PROVE  f[n] = f[n - 1] \o <<",">> \o texts[n]
    <3>1. n \in 1..Len(texts) /\ n # 0 /\ n # 1
      BY <1>1
    <3> QED
      BY <3>1, <1>5
  <2>3. IsJoined(texts, f)
    BY <1>4, <2>1, <2>2 DEF IsJoined
  <2> QED
    BY <1>2, <1>3, <1>8, <2>3

LEMMA OneMore ==
    ASSUME NEW W, NEW v \in Seq(W), NEW i \in 1..Len(v)
    PROVE  SubSeq(v, 1, i) = Append(SubSeq(v, 1, i - 1), v[i])
<1>1. Len(v) \in Nat /\ i \in Int /\ i - 1 \in Int
  OBVIOUS
<1>2. v[i] \in W /\ \A k \in 1..(i - 1) : v[k] \in W
  BY <1>1
<1>3. SubSeq(v, 1, i - 1) \in Seq(W)
  BY <1>1, <1>2, SubSeqProperties
<1>4. SubSeq(v, 1, i) = SubSeq(v, 1, i - 1) \o <<v[i]>>
  <2>1. 1 \in 1..Len(v) /\ i \in 1..Len(v)
    BY <1>1
  <2> QED
    BY <2>1, SubSeqRecursiveSecond
<1>5. Append(SubSeq(v, 1, i - 1), v[i]) = SubSeq(v, 1, i - 1) \o <<v[i]>>
  BY <1>2, <1>3, AppendIsConcat, Zenon
<1> QED
  BY <1>4, <1>5

(* A value without a comma is cut out in one piece. *)
LEMMA CutMore ==
    ASSUME NEW V, NEW v \in Seq(NoComma(V)), NEW m \in Nat, NEW c, NEW values,
           c[m] = Part(values, <<>>),
           \A i \in 1..Len(v) : c[m + i] = Parted(c[m + i - 1], v[i])
    PROVE  c[m + Len(v)] = Part(values, v)
<1> DEFINE S == {i \in 0..Len(v) : c[m + i] = Part(values, SubSeq(v, 1, i))}
<1>1. Len(v) \in Nat /\ 0 \in 0..Len(v) /\ Len(v) \in 0..Len(v) /\ m + 0 = m
  OBVIOUS
<1>2. S \in SUBSET (0..Len(v)) /\ 0 \in S
  <2>1. SubSeq(v, 1, 0) = <<>>
    BY SubSeqEmpty
  <2> QED
    BY <1>1, <2>1
<1>3. ASSUME NEW n \in S, n < Len(v)
      PROVE  n + 1 \in S
  <2> DEFINE i == n + 1
  <2>1. n \in 0..Len(v) /\ c[m + n] = Part(values, SubSeq(v, 1, n))
    OBVIOUS
  <2>2. i \in 1..Len(v) /\ i \in 0..Len(v) /\ i - 1 = n /\ m + i - 1 = m + n
    BY <1>1, <1>3, <2>1
  <2> HIDE DEF i
  <2>3. c[m + i] = Parted(Part(values, SubSeq(v, 1, n)), v[i])
    BY <2>1, <2>2
  <2>4. v[i] # ","
    <3>1. v[i] \in NoComma(V)
      BY <1>1, <2>2
    <3> QED
      BY <3>1 DEF NoComma
  <2>5. c[m + i] = Part(values, Append(SubSeq(v, 1, n), v[i]))
    BY <2>3, <2>4 DEF Parted, Part
  <2>6. c[m + i] = Part(values, SubSeq(v, 1, i))
    BY <2>2, <2>5, OneMore
  <2>7. i \in S
    BY <2>2, <2>6
  <2> QED
    BY <2>7 DEF i
<1>4. S = 0..Len(v)
  <2> HIDE DEF S
  <2> QED
    BY <1>1, <1>2, <1>3, Upward
<1>5. SubSeq(v, 1, Len(v)) = v
  BY SubSeqFull
<1>6. c[m + Len(v)] = Part(values, SubSeq(v, 1, Len(v)))
  BY <1>1, <1>4
<1> QED
  BY <1>5, <1>6

LEMMA CleanIs ==
    ASSUME NEW V, NEW v \in Clean(V)
    PROVE  v \in Seq(NoComma(V)) /\ v \in Seq(V) /\ v # <<>>
<1>1. v \in Seq(NoComma(V)) /\ v # <<>>
  BY DEF Clean
<1>2. v \in Seq(V)
  <2>1. NoComma(V) \subseteq V
    BY DEF NoComma
  <2> QED
    BY <1>1, <2>1
<1> QED
  BY <1>1, <1>2

LEMMA ShortTexts ==
    ASSUME NEW V, NEW v \in V
    PROVE  <<>> \in Seq(V) /\ <<v>> \in Seq(V)
OBVIOUS

LEMMA TextsJoin ==
    ASSUME NEW V, HasComma(V)
    PROVE  Joins(Seq(V))
<1>1. <<>> \in Seq(V) /\ <<",">> \in Seq(V)
  BY ShortTexts, Zenon DEF HasComma
<1>2. ASSUME NEW s \in Seq(V), NEW t \in Seq(V)
      PROVE  s \o <<",">> \o t \in Seq(V)
  <2>1. s \o <<",">> \in Seq(V)
    BY <1>1, ConcatProperties, Zenon
  <2> QED
    BY <2>1, ConcatProperties, Zenon
<1> QED
  BY <1>1, <1>2 DEF Joins

Spliced(all, s, mark, t) ==
    /\ Len(all) = Len(s) + 1 + Len(t)
    /\ \A i \in 1..Len(s) : all[i] = s[i]
    /\ all[Len(s) + 1] = mark
    /\ \A i \in 1..Len(t) : all[Len(s) + 1 + i] = t[i]

LEMMA Between ==
    ASSUME NEW V, NEW s \in Seq(V), NEW mark \in Seq(V), Len(mark) = 1, NEW t \in Seq(V)
    PROVE  Spliced(s \o mark \o t, s, mark[1], t)
<1> DEFINE left == s \o mark
           all == left \o t
<1>1. /\ left \in Seq(V) /\ Len(left) = Len(s) + 1 /\ Len(s) \in Nat /\ Len(t) \in Nat
      /\ \A i \in 1..Len(s) + 1 : left[i] = IF i <= Len(s) THEN s[i] ELSE mark[i - Len(s)]
  <2>1. /\ left \in Seq(V) /\ Len(left) = Len(s) + Len(mark)
        /\ \A i \in 1..Len(s) + Len(mark) :
              left[i] = IF i <= Len(s) THEN s[i] ELSE mark[i - Len(s)]
    BY ConcatProperties, Zenon
  <2>2. Len(s) \in Nat /\ Len(t) \in Nat
    OBVIOUS
  <2> HIDE DEF left
  <2> QED
    BY <2>1, <2>2
<1> HIDE DEF left
<1>3. /\ Len(all) = Len(left) + Len(t)
      /\ \A i \in 1..Len(left) + Len(t) :
            all[i] = IF i <= Len(left) THEN left[i] ELSE t[i - Len(left)]
  <2>1. left \in Seq(V) /\ t \in Seq(V)
    BY <1>1
  <2> QED
    BY <2>1, ConcatProperties, Zenon
<1> HIDE DEF all
<1>4. ASSUME NEW i \in 1..Len(s) PROVE all[i] = s[i]
  BY <1>1, <1>3
<1>5. all[Len(s) + 1] = mark[1]
  <2>1. /\ Len(s) + 1 \in 1..Len(s) + 1 /\ ~(Len(s) + 1 <= Len(s))
        /\ Len(s) + 1 - Len(s) = 1
        /\ Len(s) + 1 \in 1..Len(left) + Len(t) /\ Len(s) + 1 <= Len(left)
    BY <1>1
  <2> QED
    BY <1>1, <1>3, <2>1
<1>6. ASSUME NEW i \in 1..Len(t) PROVE all[Len(s) + 1 + i] = t[i]
  <2>1. /\ Len(s) + 1 + i \in 1..Len(left) + Len(t) /\ ~(Len(s) + 1 + i <= Len(left))
        /\ Len(s) + 1 + i - Len(left) = i
    BY <1>1
  <2> QED
    BY <1>3, <2>1
<1> QED
  <2>1. Spliced(all, s, mark[1], t)
    BY <1>1, <1>3, <1>4, <1>5, <1>6 DEF Spliced
  <2> QED
    BY <2>1 DEF all, left

(* A list of values is read back from the text it is shown as. *)
LEMMA ReadBack ==
    ASSUME NEW V, HasComma(V), NEW texts \in Seq(Clean(V)), texts # <<>>
    PROVE  /\ csv_values(value_as_entry_text(texts)) = texts
           /\ value_as_entry_text(texts) \in Seq(V)
           /\ value_as_entry_text(texts) # <<>>
<1> DEFINE N == Len(texts)
<1>1. N \in Nat /\ N > 0 /\ \A n \in 1..N : texts[n] \in Clean(V)
  OBVIOUS
<1>2. texts \in Seq(Seq(V)) /\ Joins(Seq(V))
  <2>1. Clean(V) \subseteq Seq(V)
    BY CleanIs
  <2>2. texts \in Seq(Seq(V))
    BY <2>1
  <2> QED
    BY <2>2, TextsJoin
<1>3. PICK j \in [0..N -> Seq(V)] :
        IsJoined(texts, j) /\ value_as_entry_text(texts) = j[N]
  BY <1>2, JoinRuns, Zenon
<1> DEFINE Ends(n) == \A c : IsCut(j[n], c) =>
                         c[Len(j[n])] = Part(SubSeq(texts, 1, n - 1), texts[n])
<1>4. Ends(1)
  <2> SUFFICES ASSUME NEW c, IsCut(j[1], c)
               PROVE  c[Len(j[1])] = Part(SubSeq(texts, 1, 0), texts[1])
    OBVIOUS
  <2>1. j[1] = texts[1] /\ texts[1] \in Clean(V) /\ texts[1] \in Seq(NoComma(V))
    <3>1. 1 \in 1..N
      BY <1>1
    <3>2. texts[1] \in Clean(V)
      BY <1>1, <3>1
    <3>3. j[1] = texts[1]
      BY <1>1, <1>3, Zenon DEF IsJoined
    <3>4. texts[1] \in Seq(NoComma(V))
      BY <3>2, CleanIs, Zenon
    <3> QED
      BY <3>2, <3>3, <3>4
  <2>2. c[0] = Part(<<>>, <<>>) /\ \A i \in 1..Len(texts[1]) : c[i] = Parted(c[i - 1], texts[1][i])
    BY <2>1 DEF IsCut
  <2>3. Len(texts[1]) \in Nat
    BY <2>1
  <2>4. \A i \in 1..Len(texts[1]) : c[0 + i] = Parted(c[0 + i - 1], texts[1][i])
    BY <2>2, <2>3
  <2>5. c[0 + Len(texts[1])] = Part(<<>>, texts[1])
    <3> DEFINE v == texts[1]
    <3>1. v \in Seq(NoComma(V)) /\ \A i \in 1..Len(v) : c[0 + i] = Parted(c[0 + i - 1], v[i])
      BY <2>1, <2>4
    <3> HIDE DEF v
    <3>2. c[0 + Len(v)] = Part(<<>>, v)
      BY <2>2, <3>1, CutMore
    <3> QED
      BY <3>2 DEF v
  <2>6. SubSeq(texts, 1, 0) = <<>>
    BY SubSeqEmpty
  <2>7. 0 + Len(texts[1]) = Len(texts[1])
    BY <2>3
  <2> QED
    BY <2>1, <2>5, <2>6, <2>7, Zenon
<1>5. ASSUME NEW n \in 1..N, n < N, Ends(n)
      PROVE  Ends(n + 1)
  <2> SUFFICES ASSUME NEW c, IsCut(j[n + 1], c)
               PROVE  c[Len(j[n + 1])] = Part(SubSeq(texts, 1, (n + 1) - 1), texts[n + 1])
    OBVIOUS
  <2> DEFINE before == j[n]
             m == Len(before)
             v == texts[n + 1]
  <2>1. n + 1 \in 2..N /\ n \in 0..N /\ (n + 1) - 1 = n
    BY <1>1, <1>5
  <2>2. before \in Seq(V) /\ m \in Nat
    BY <1>3, <2>1
  <2>3. v \in Seq(NoComma(V)) /\ v \in Seq(V) /\ Len(v) \in Nat
    BY <1>1, <2>1, CleanIs
  <2> DEFINE mark == <<",">>
             all == before \o mark \o v
  <2>4. j[n + 1] = all
    BY <1>3, <2>1 DEF IsJoined
  <2>13. mark \in Seq(V) /\ Len(mark) = 1 /\ mark[1] = ","
    BY ShortTexts, Zenon DEF HasComma
  <2> HIDE DEF before, v, mark
  <2>5. /\ Len(all) = m + 1 + Len(v)
        /\ \A i \in 1..m : all[i] = before[i]
        /\ all[m + 1] = mark[1]
        /\ \A i \in 1..Len(v) : all[m + 1 + i] = v[i]
    <3>1. before \in Seq(V) /\ mark \in Seq(V) /\ v \in Seq(V) /\ Len(mark) = 1
      BY <2>2, <2>3, <2>13
    <3>2. Spliced(all, before, mark[1], v)
      BY <3>1, Between, Zenon
    <3> HIDE DEF all
    <3> QED
      BY <3>2, Zenon DEF Spliced
  <2>10. c[0] = Part(<<>>, <<>>) /\ \A i \in 1..Len(all) : c[i] = Parted(c[i - 1], all[i])
    BY <2>4 DEF IsCut
  <2> HIDE DEF all
  <2>6. IsCut(before, c)
    <3>1. \A i \in 1..m : i \in 1..Len(all) /\ all[i] = before[i]
      BY <2>2, <2>3, <2>5
    <3>2. \A i \in 1..m : c[i] = Parted(c[i - 1], before[i])
      BY <2>10, <3>1
    <3> QED
      BY <2>10, <3>2 DEF IsCut
  <2>7. c[m] = Part(SubSeq(texts, 1, n - 1), texts[n])
    BY <1>5, <2>6 DEF before
  <2>8. c[m + 1] = Part(SubSeq(texts, 1, n), <<>>)
    <3>1. m + 1 \in 1..Len(all) /\ (m + 1) - 1 = m
      BY <2>2, <2>3, <2>5
    <3>2. c[m + 1] = Parted(c[m], all[m + 1])
      BY <2>10, <3>1
    <3>3. c[m + 1] = Part(Keep(SubSeq(texts, 1, n - 1), texts[n]), <<>>)
      <4>1. c[m].values = SubSeq(texts, 1, n - 1) /\ c[m].part = texts[n]
        BY <2>7 DEF Part
      <4>2. c[m + 1] = Part(Keep(c[m].values, c[m].part), <<>>)
        BY <2>5, <2>13, <3>2, Zenon DEF Parted
      <4> QED
        BY <4>1, <4>2, Zenon
    <3>4. texts[n] \in Clean(V)
      BY <1>1
    <3>5. Keep(SubSeq(texts, 1, n - 1), texts[n]) = Append(SubSeq(texts, 1, n - 1), texts[n])
      BY <3>4, CleanStays DEF Keep
    <3>6. SubSeq(texts, 1, n) = Append(SubSeq(texts, 1, n - 1), texts[n])
      BY OneMore
    <3> QED
      BY <3>3, <3>5, <3>6
  <2>9. c[m + 1 + Len(v)] = Part(SubSeq(texts, 1, n), v)
    <3>1. m + 1 \in Nat
      BY <2>2
    <3>2. ASSUME NEW i \in 1..Len(v)
          PROVE  c[(m + 1) + i] = Parted(c[(m + 1) + i - 1], v[i])
      <4>1. all[m + 1 + i] = v[i]
        BY <2>5, Zenon
      <4>2. (m + 1) + i \in 1..(m + 1 + Len(v)) /\ (m + 1) + i = m + 1 + i
        <5>1. m \in Nat /\ Len(v) \in Nat /\ i \in 1..Len(v)
          BY <2>2, <2>3, Zenon
        <5> HIDE DEF m
        <5> QED
          BY <5>1
      <4>3. (m + 1) + i \in 1..Len(all) /\ all[(m + 1) + i] = v[i]
        BY <2>5, <4>1, <4>2, Zenon
      <4> QED
        BY <2>10, <4>3
    <3> QED
      BY <2>3, <2>8, <3>1, <3>2, CutMore
  <2>12. Len(j[n + 1]) = m + 1 + Len(v)
    BY <2>4, <2>5 DEF all
  <2> QED
    BY <2>1, <2>9, <2>12 DEF v
<1>6. Ends(N)
  <2> DEFINE S == {n \in 0..N : n > 0 => Ends(n)}
  <2> HIDE DEF Ends
  <2>1. S \in SUBSET (0..N) /\ 0 \in S
    BY <1>1
  <2>2. ASSUME NEW n \in S, n < N
        PROVE  n + 1 \in S
    <3>1. n \in 0..N /\ (n > 0 => Ends(n))
      OBVIOUS
    <3>2. n + 1 \in 0..N
      BY <1>1, <2>2, <3>1
    <3>3. CASE n = 0
      BY <1>4, <3>2, <3>3
    <3>4. CASE n > 0
      BY <1>5, <2>2, <3>1, <3>2, <3>4
    <3> QED
      BY <3>1, <3>3, <3>4
  <2>3. S = 0..N
    <3> HIDE DEF S, N
    <3> QED
      BY <1>1, <2>1, <2>2, Upward
  <2>4. N \in S
    BY <1>1, <2>3
  <2> QED
    BY <1>1, <2>4
<1>7. j[N] \in Seq(V) /\ j[N] # <<>>
  <2>1. j[N] \in Seq(V)
    BY <1>1, <1>3
  <2>2. texts[N] \in Seq(NoComma(V)) /\ texts[N] \in Seq(V) /\ texts[N] # <<>>
    BY <1>1, CleanIs
  <2>3. CASE N = 1
    <3>1. j[1] = texts[1]
      BY <1>1, <1>3, Zenon DEF IsJoined
    <3> QED
      BY <2>1, <2>2, <2>3, <3>1
  <2>4. CASE N # 1
    <3> DEFINE before == j[N - 1]
               mark == <<",">>
               v == texts[N]
    <3>1. N \in 2..N /\ N - 1 \in 0..N
      BY <1>1, <2>4
    <3>2. j[N] = before \o mark \o v
      BY <1>3, <3>1 DEF IsJoined
    <3>3. before \in Seq(V) /\ v \in Seq(V)
      BY <1>3, <2>2, <3>1
    <3>6. mark \in Seq(V) /\ Len(mark) = 1
      BY ShortTexts, Zenon DEF HasComma
    <3> HIDE DEF before, mark, v
    <3>4. Len(j[N]) = Len(before) + 1 + Len(v)
      <4>1. Spliced(before \o mark \o v, before, mark[1], v)
        BY <3>3, <3>6, Between, Zenon
      <4> QED
        BY <3>2, <4>1, Zenon DEF Spliced
    <3>5. Len(j[N]) > 0
      <4>1. Len(before) \in Nat /\ Len(v) \in Nat
        BY <3>3
      <4> QED
        BY <3>4, <4>1
    <3> QED
      BY <2>1, <3>5
  <2> QED
    BY <2>3, <2>4
<1>8. csv_values(j[N]) = texts
  <2>1. PICK c \in [0..Len(j[N]) -> Parting(V)] :
            /\ IsCut(j[N], c)
            /\ csv_values(j[N]) = Keep(c[Len(j[N])].values, c[Len(j[N])].part)
    BY <1>7, CutRuns
  <2>2. c[Len(j[N])] = Part(SubSeq(texts, 1, N - 1), texts[N])
    BY <1>6, <2>1
  <2>3. csv_values(j[N]) = Keep(SubSeq(texts, 1, N - 1), texts[N])
    BY <2>1, <2>2 DEF Part
  <2>4. Keep(SubSeq(texts, 1, N - 1), texts[N]) = Append(SubSeq(texts, 1, N - 1), texts[N])
    BY <1>1, CleanStays DEF Keep
  <2>5. Append(SubSeq(texts, 1, N - 1), texts[N]) = texts
    <3>1. N \in 1..Len(texts) /\ SubSeq(texts, 1, N) = texts
      BY <1>1, SubSeqFull
    <3> QED
      BY <3>1, OneMore
  <2> QED
    BY <2>3, <2>4, <2>5
<1> QED
  BY <1>3, <1>7, <1>8

-----------------------------------------------------------------------------
(* Forms *)

FormRows ==
    {"name", "priority", "enabled", "folder", "custom", "recursive", "depth", "on_add",
     "on_modify", "match", "field", "operator", "value", "unit", "action", "text", "conflict",
     "continue_matching"}
QuestionRows == {"operator", "value", "unit"}
FolderRows   == {"folder", "custom", "recursive", "depth"}
ActionRows   == {"action", "text", "conflict"}

(* A form as it is shown, but for what the entry of the condition holds. *)
IsForm(f) ==
    /\ DOMAIN f = FormRows
    /\ f.folder \in DOMAIN StandardFolders \cup {"Custom"}
    /\ f.custom \in UserPaths \cup {<<>>} /\ f.recursive \in BOOLEAN
    /\ f.depth \in 1..25 /\ f.priority \in -100..100
    /\ f.field \in Fields /\ f.operator \in Operators /\ f.unit \in Units
    /\ f.action \in Actions

(* The forms f and g differ in these rows only. *)
Differ(f, g, rows) == DOMAIN g = DOMAIN f /\ \A row \in DOMAIN f \ rows : g[row] = f[row]

LEMMA RowNames ==
    /\ QuestionRows \subseteq FormRows /\ FolderRows \subseteq FormRows
    /\ ActionRows \subseteq FormRows
BY DEF FormRows, QuestionRows, FolderRows, ActionRows

LEMMA DifferMore ==
    ASSUME NEW f, NEW g, NEW h, NEW rows, NEW others, Differ(f, g, rows), Differ(g, h, others)
    PROVE  Differ(f, h, rows \cup others)
BY DEF Differ

LEMMA FormRead ==
    ASSUME NEW f, IsForm(f)
    PROVE  /\ DOMAIN f = FormRows
           /\ f.field \in Fields /\ f.operator \in Operators /\ f.unit \in Units
           /\ f.action \in Actions
BY Zenon DEF IsForm

(* What of a form does not concern its folders and its condition. *)
LEMMA SameForm ==
    ASSUME NEW f, NEW g, IsForm(f),
           Differ(f, g, QuestionRows \cup {"field"} \cup ActionRows),
           g.field \in Fields, g.operator \in Operators, g.unit \in Units,
           g.action \in Actions
    PROVE  IsForm(g)
<1>1. DOMAIN g = FormRows /\ DOMAIN f = FormRows
  BY DEF IsForm, Differ
<1>2. FolderRows \cup {"priority"} \subseteq
        FormRows \ (QuestionRows \cup {"field"} \cup ActionRows)
  BY DEF FormRows, QuestionRows, FolderRows, ActionRows
<1>3. /\ g.folder = f.folder /\ g.custom = f.custom /\ g.recursive = f.recursive
      /\ g.depth = f.depth /\ g.priority = f.priority
  BY <1>1, <1>2 DEF Differ, FolderRows
<1> QED
  BY <1>1, <1>3, Zenon DEF IsForm

(* Writing some rows of a form. *)
LEMMA WriteQuestion ==
    ASSUME NEW f, DOMAIN f = FormRows, NEW o, NEW v, NEW u
    PROVE  /\ Differ(f, [f EXCEPT !.value = v], QuestionRows)
           /\ [f EXCEPT !.value = v].value = v
           /\ Differ(f, [f EXCEPT !.operator = o, !.value = v], QuestionRows)
           /\ [f EXCEPT !.operator = o, !.value = v].operator = o
           /\ [f EXCEPT !.operator = o, !.value = v].value = v
           /\ Differ(f, [f EXCEPT !.operator = o, !.value = v, !.unit = u], QuestionRows)
           /\ [f EXCEPT !.operator = o, !.value = v, !.unit = u].operator = o
           /\ [f EXCEPT !.operator = o, !.value = v, !.unit = u].value = v
           /\ [f EXCEPT !.operator = o, !.value = v, !.unit = u].unit = u
<1>1. "operator" \in FormRows /\ "value" \in FormRows /\ "unit" \in FormRows
  BY DEF FormRows
<1> QED
  BY <1>1 DEF Differ, QuestionRows

LEMMA WriteField ==
    ASSUME NEW f, DOMAIN f = FormRows, NEW v
    PROVE  Differ(f, [f EXCEPT !.field = v], {"field"}) /\ [f EXCEPT !.field = v].field = v
<1>1. "field" \in FormRows
  BY DEF FormRows
<1> QED
  BY <1>1 DEF Differ

Acting(f, t, c) == [f EXCEPT !.text = t, !.conflict = c]

LEMMA WriteActions ==
    ASSUME NEW f, DOMAIN f = FormRows
    PROVE  /\ \A a :
                 /\ Differ(f, [f EXCEPT !.action = a], ActionRows)
                 /\ [f EXCEPT !.action = a].action = a
           /\ \A t :
                 /\ Differ(f, [f EXCEPT !.text = t], ActionRows)
                 /\ [f EXCEPT !.text = t].text = t
                 /\ [f EXCEPT !.text = t].action = f.action
           /\ \A t : \A c :
                 /\ Differ(f, Acting(f, t, c), ActionRows)
                 /\ Acting(f, t, c).text = t
                 /\ Acting(f, t, c).conflict = c
                 /\ Acting(f, t, c).action = f.action
<1>1. "action" \in FormRows /\ "text" \in FormRows /\ "conflict" \in FormRows
  BY DEF FormRows
<1>2. ASSUME NEW a
      PROVE  /\ Differ(f, [f EXCEPT !.action = a], ActionRows)
             /\ [f EXCEPT !.action = a].action = a
  BY <1>1 DEF Differ, ActionRows
<1>3. ASSUME NEW t
      PROVE  /\ Differ(f, [f EXCEPT !.text = t], ActionRows)
             /\ [f EXCEPT !.text = t].text = t
             /\ [f EXCEPT !.text = t].action = f.action
  BY <1>1 DEF Differ, ActionRows
<1>4. ASSUME NEW t, NEW c
      PROVE  /\ Differ(f, Acting(f, t, c), ActionRows)
             /\ Acting(f, t, c).text = t
             /\ Acting(f, t, c).conflict = c
             /\ Acting(f, t, c).action = f.action
  BY <1>1 DEF Differ, ActionRows, Acting
<1> QED
  BY <1>2, <1>3, <1>4, Zenon

(* configure_condition_rows, case by case. *)
Filling(f, g) ==
    /\ Differ(f, g, QuestionRows) /\ g.field = f.field
    /\ g.operator \in Operators /\ g.unit \in Units /\ g.value \in FirstTexts

LEMMA FirstTextsAre ==
    {<<>>, <<"*">>, <<"invoice">>, <<"pdf">>, <<"pdf", ",", "docx">>, <<"document">>,
     <<"file">>, <<"folder">>, <<"4">>, <<"10">>} \subseteq FirstTexts
<1>1. "4" \in DOMAIN Numerals /\ "10" \in DOMAIN Numerals
  BY DEF Numerals
<1>2. {<<"4">>, <<"10">>} \subseteq FirstTexts
  BY <1>1 DEF FirstTexts
<1> QED
  BY <1>2, Zenon DEF FirstTexts

LEMMA NotDates ==
    \A l \in {"Any file", "Name", "Extension", "Kind", "Size", "Contents", "Folder or file"} :
        l \notin DOMAIN DateTypes
BY DEF DateTypes

LEMMA ConditionRows ==
    ASSUME NEW f, IsForm(f)
    PROVE  Filling(f, configure_condition_rows(f))
<1> DEFINE g == configure_condition_rows(f)
<1>1. /\ DOMAIN f = FormRows /\ f.field \in Fields /\ f.operator \in Operators
      /\ f.unit \in Units
  BY FormRead, Zenon
<1>2. /\ \/ \E v \in FirstTexts : g = [f EXCEPT !.value = v]
         \/ \E o \in Operators, v \in FirstTexts : g = [f EXCEPT !.operator = o, !.value = v]
         \/ \E o \in Operators, v \in FirstTexts, u \in Units :
               g = [f EXCEPT !.operator = o, !.value = v, !.unit = u]
  <2>0. /\ {"contains", "is", "is larger than", "is not in the last"} \subseteq Operators
        /\ {"MB", "weeks"} \subseteq Units
    BY DEF Operators, Units
  <2>1. CASE f.field \in DOMAIN DateTypes
    <3>1. g = [f EXCEPT !.operator = "is not in the last", !.value = <<"4">>, !.unit = "weeks"]
      BY <2>1, NotDates, Zenon DEF configure_condition_rows
    <3> QED
      BY <2>0, <3>1, FirstTextsAre, Zenon
  <2>2. CASE f.field = "Any file"
    <3>1. g = [f EXCEPT !.value = <<>>]
      BY <2>2, NotDates, Zenon DEF configure_condition_rows
    <3> QED
      BY <3>1, FirstTextsAre, Zenon
  <2>3. CASE f.field = "Name"
    <3>1. g = [f EXCEPT !.operator = "contains", !.value = <<"invoice">>]
      BY <2>3, NotDates, Zenon DEF configure_condition_rows
    <3> QED
      BY <2>0, <3>1, FirstTextsAre, Zenon
  <2>4. CASE f.field = "Extension"
    <3>1. g = [f EXCEPT !.operator = "is", !.value = <<"pdf", ",", "docx">>]
      BY <2>4, NotDates, Zenon DEF configure_condition_rows
    <3> QED
      BY <2>0, <3>1, FirstTextsAre, Zenon
  <2>5. CASE f.field = "Kind"
    <3>1. g = [f EXCEPT !.operator = "is", !.value = <<"document">>]
      BY <2>5, NotDates, Zenon DEF configure_condition_rows
    <3> QED
      BY <2>0, <3>1, FirstTextsAre, Zenon
  <2>6. CASE f.field = "Size"
    <3>1. g = [f EXCEPT !.operator = "is larger than", !.value = <<"10">>, !.unit = "MB"]
      BY <2>6, NotDates, Zenon DEF configure_condition_rows
    <3> QED
      BY <2>0, <3>1, FirstTextsAre, Zenon
  <2>7. CASE f.field = "Contents"
    <3>1. g = [f EXCEPT !.operator = "contains", !.value = <<>>]
      BY <2>7, NotDates, Zenon DEF configure_condition_rows
    <3> QED
      BY <2>0, <3>1, FirstTextsAre, Zenon
  <2>8. CASE f.field = "Folder or file"
    <3>1. g = [f EXCEPT !.operator = "is", !.value = <<"file">>]
      BY <2>8, NotDates, Zenon DEF configure_condition_rows
    <3> QED
      BY <2>0, <3>1, FirstTextsAre, Zenon
  <2> QED
    BY <1>1, <2>1, <2>2, <2>3, <2>4, <2>5, <2>6, <2>7, <2>8 DEF Fields
<1> HIDE DEF g
<1>3. PICK o \in Operators, v \in FirstTexts, u \in Units :
        \/ g = [f EXCEPT !.value = v]
        \/ g = [f EXCEPT !.operator = o, !.value = v]
        \/ g = [f EXCEPT !.operator = o, !.value = v, !.unit = u]
  BY <1>1, <1>2, Zenon
<1>4. /\ Differ(f, g, QuestionRows) /\ g.value = v
      /\ g.operator \in Operators /\ g.unit \in Units
  <2>1. "operator" \in FormRows /\ "value" \in FormRows /\ "unit" \in FormRows
    BY DEF FormRows
  <2>2. CASE g = [f EXCEPT !.value = v]
    BY <1>1, <2>1, <2>2 DEF Differ, QuestionRows
  <2>3. CASE g = [f EXCEPT !.operator = o, !.value = v]
    BY <1>1, <2>1, <2>3 DEF Differ, QuestionRows
  <2>4. CASE g = [f EXCEPT !.operator = o, !.value = v, !.unit = u]
    BY <1>1, <2>1, <2>4 DEF Differ, QuestionRows
  <2> QED
    BY <1>3, <2>2, <2>3, <2>4
<1>5. g.field = f.field
  <2>1. "field" \in FormRows \ QuestionRows
    BY DEF FormRows, QuestionRows
  <2> QED
    BY <1>1, <1>4, <2>1 DEF Differ
<1> QED
  BY <1>4, <1>5, Zenon DEF Filling, g

LEMMA FilledForm ==
    ASSUME NEW f, NEW g, IsForm(f), Filling(f, g)
    PROVE  IsForm(g)
<1>1. Differ(f, g, QuestionRows \cup {"field"} \cup ActionRows)
  BY DEF Filling, Differ
<1>2. g.action = f.action
  <2>1. "action" \in FormRows \ QuestionRows
    BY DEF FormRows, QuestionRows
  <2> QED
    BY <2>1, FormRead DEF Filling, Differ
<1> QED
  BY <1>1, <1>2, FormRead, SameForm, Zenon DEF Filling

LEMMA ActionFilled ==
    ASSUME NEW f, IsForm(f)
    PROVE  /\ Differ(f, configure_action_rows(f), ActionRows)
           /\ configure_action_rows(f).action = f.action
           /\ IsForm(configure_action_rows(f))
<1> DEFINE g == configure_action_rows(f)
<1>1. DOMAIN f = FormRows
  BY DEF IsForm
<1>2. Differ(f, g, ActionRows) /\ g.action = f.action
  <2>1. CASE f.action \in DOMAIN ActionTexts
    <3>1. g = [f EXCEPT !.text = ActionTexts[f.action]]
      BY <2>1 DEF configure_action_rows
    <3> HIDE DEF g
    <3> QED
      BY <1>1, <3>1, WriteActions, Zenon
  <2>2. CASE f.action \notin DOMAIN ActionTexts
    <3>1. g = f
      BY <2>2 DEF configure_action_rows
    <3> QED
      BY <3>1 DEF Differ
  <2> QED
    BY <2>1, <2>2
<1> HIDE DEF g
<1>3. IsForm(g)
  <2>1. Differ(f, g, QuestionRows \cup {"field"} \cup ActionRows)
    BY <1>2 DEF Differ
  <2>2. {"field", "operator", "unit"} \subseteq FormRows \ ActionRows
    BY DEF FormRows, ActionRows
  <2>3. g.field = f.field /\ g.operator = f.operator /\ g.unit = f.unit
    BY <1>1, <1>2, <2>2 DEF Differ
  <2> QED
    BY <1>2, <2>1, <2>3, FormRead, SameForm, Zenon
<1> QED
  BY <1>2, <1>3 DEF g

(* load_condition_widgets: a field of the form, and what is filled in. *)
LEMMA LabelsAre ==
    ASSUME NEW op
    PROVE  /\ string_op_index(op) \in Operators /\ list_op_index(op) \in Operators
           /\ age_op_index(op) \in Operators /\ size_op_index(op) \in Operators
           /\ text_op_index(op) \in Operators
           /\ TimeLabel(op) \in Units /\ SizeLabel(op) \in Units
BY DEF string_op_index, list_op_index, age_op_index, size_op_index, text_op_index, TimeLabel,
       SizeLabel, Operators, Units

LEMMA FieldIs == \A c : FieldOf(c) \in Fields
BY DEF FieldOf, Fields, DateTypes

Asking(f, g) == Differ(f, g, QuestionRows) /\ g.operator \in Operators /\ g.unit \in Units

LEMMA AskingIs ==
    ASSUME NEW f, IsForm(f), NEW o \in Operators, NEW v, NEW u \in Units
    PROVE  /\ Asking(f, f) /\ Asking(f, [f EXCEPT !.value = v])
           /\ Asking(f, [f EXCEPT !.operator = o, !.value = v])
           /\ Asking(f, [f EXCEPT !.operator = o, !.value = v, !.unit = u])
<1>1. DOMAIN f = FormRows /\ f.operator \in Operators /\ f.unit \in Units
  BY FormRead, Zenon
<1>2. "operator" \in FormRows /\ "value" \in FormRows /\ "unit" \in FormRows
  BY DEF FormRows
<1> QED
  BY <1>1, <1>2 DEF Asking, Differ, QuestionRows

LEMMA AskedForm ==
    ASSUME NEW f, IsForm(f), NEW c
    PROVE  /\ Differ(f, load_condition_widgets(f, c), QuestionRows \cup {"field"})
           /\ load_condition_widgets(f, c).field = FieldOf(c)
           /\ IsForm(load_condition_widgets(f, c))
<1> DEFINE asked == [f EXCEPT !.field = FieldOf(c)]
           rows  == configure_condition_rows(asked)
           g     == load_condition_widgets(f, c)
<1>1. DOMAIN f = FormRows /\ IsForm(f) /\ FieldOf(c) \in Fields
  BY FormRead, FieldIs, Zenon
<1>2. /\ Differ(f, asked, {"field"}) /\ asked.field = FieldOf(c) /\ DOMAIN asked = FormRows
  BY <1>1, WriteField
<1>3. IsForm(asked)
  <2> HIDE DEF asked
  <2>1. Differ(f, asked, QuestionRows \cup {"field"} \cup ActionRows)
    BY <1>2 DEF Differ
  <2>2. {"operator", "unit", "action"} \subseteq FormRows \ {"field"}
    BY DEF FormRows
  <2>3. asked.operator = f.operator /\ asked.unit = f.unit /\ asked.action = f.action
    BY <1>1, <1>2, <2>2 DEF Differ
  <2> QED
    BY <1>1, <1>2, <2>1, <2>3, FormRead, SameForm, Zenon
<1> HIDE DEF asked
<1>4. Filling(asked, rows) /\ IsForm(rows) /\ DOMAIN rows = FormRows
  BY <1>3, ConditionRows, FilledForm, FormRead, Zenon
<1> HIDE DEF rows
<1>5. /\ Differ(rows, g, QuestionRows)
      /\ g.operator \in Operators /\ g.unit \in Units
  <2> DEFINE Asks == Asking(rows, g)
  <2>1. \E o \in Operators, u \in Units : TRUE
    BY LabelsAre
  <2>2. /\ Asking(rows, rows) /\ \A v : Asking(rows, [rows EXCEPT !.value = v])
        /\ \A o \in Operators : \A v : Asking(rows, [rows EXCEPT !.operator = o, !.value = v])
        /\ \A o \in Operators, u \in Units : \A v :
               Asking(rows, [rows EXCEPT !.operator = o, !.value = v, !.unit = u])
    BY <1>4, <2>1, AskingIs, Zenon
  <2>3. ASSUME c.type = "name" PROVE Asks
    <3>1. g = [rows EXCEPT !.operator = string_op_index(c.operator),
                              !.value = value_as_entry_text(c.value)]
      BY <2>3, Zenon DEF load_condition_widgets, rows, asked
    <3>2. string_op_index(c.operator) \in Operators
      BY LabelsAre, Zenon
    <3> QED
      BY <2>2, <3>1, <3>2, Zenon
  <2>4. ASSUME c.type \in {"extension", "kind"} PROVE Asks
    <3>1. g = [rows EXCEPT !.operator = list_op_index(c.operator),
                              !.value = value_as_entry_text(c.value)]
      BY <2>4, Zenon DEF load_condition_widgets, rows, asked
    <3>2. list_op_index(c.operator) \in Operators
      BY LabelsAre, Zenon
    <3> QED
      BY <2>2, <3>1, <3>2, Zenon
  <2>5. ASSUME c.type = "age" PROVE Asks
    <3>1. g = [rows EXCEPT !.operator = age_op_index(c.operator),
                              !.value = numeric_text(c.value), !.unit = TimeLabel(c.unit)]
      BY <2>5, Zenon DEF load_condition_widgets, rows, asked
    <3>2. age_op_index(c.operator) \in Operators /\ TimeLabel(c.unit) \in Units
      BY LabelsAre, Zenon
    <3>3. \A o \in Operators : \A v :
             Asking(rows, [rows EXCEPT !.operator = o, !.value = v, !.unit = TimeLabel(c.unit)])
      BY <2>2, <3>2, Zenon
    <3> QED
      BY <3>1, <3>2, <3>3, Zenon
  <2>6. ASSUME c.type = "size" PROVE Asks
    <3> DEFINE shown == IF c.range THEN <<"10">> ELSE numeric_text(c.value[1])
    <3>1. g = [rows EXCEPT !.operator = size_op_index(c.operator),
                              !.value = shown,
                              !.unit = SizeLabel(c.unit)]
      BY <2>6, Zenon DEF load_condition_widgets, rows, asked
    <3> HIDE DEF shown
    <3>2. size_op_index(c.operator) \in Operators /\ SizeLabel(c.unit) \in Units
      BY LabelsAre, Zenon
    <3>3. \A o \in Operators : \A v :
             Asking(rows, [rows EXCEPT !.operator = o, !.value = v, !.unit = SizeLabel(c.unit)])
      BY <2>2, <3>2, Zenon
    <3> QED
      BY <3>1, <3>2, <3>3, Zenon
  <2>7. ASSUME c.type = "content" PROVE Asks
    <3>1. g = [rows EXCEPT !.operator = text_op_index(c.operator), !.value = c.value]
      BY <2>7, Zenon DEF load_condition_widgets, rows, asked
    <3>2. text_op_index(c.operator) \in Operators
      BY LabelsAre, Zenon
    <3>3. \A v : Asking(rows, [rows EXCEPT !.operator = text_op_index(c.operator), !.value = v])
      BY <2>2, <3>2, Zenon
    <3> QED
      BY <3>1, <3>3, Zenon
  <2>8. ASSUME c.type = "is_directory" PROVE Asks
    <3>1. g = [rows EXCEPT !.value = IF c.value THEN <<"folder">> ELSE <<"file">>]
      BY <2>8, Zenon DEF load_condition_widgets, rows, asked
    <3> QED
      BY <2>2, <3>1, Zenon
  <2>9. ASSUME c.type \notin {"name", "extension", "kind", "age", "size", "content",
                             "is_directory"} PROVE Asks
    <3>1. g = rows
      BY <2>9, Zenon DEF load_condition_widgets, rows, asked
    <3> QED
      BY <2>2, <3>1, Zenon
  <2> HIDE DEF Asks
  <2>10. Asks
    BY <2>3, <2>4, <2>5, <2>6, <2>7, <2>8, <2>9, Zenon
  <2> QED
    BY <2>10 DEF Asks, Asking
<1> HIDE DEF g
<1>6. Differ(f, g, QuestionRows \cup {"field"})
  BY <1>2, <1>4, <1>5 DEF Differ, Filling
<1>7. g.field = FieldOf(c) /\ g.action = f.action
  <2>1. {"field", "action"} \subseteq FormRows \ QuestionRows
        /\ "action" \in FormRows \ (QuestionRows \cup {"field"})
    BY DEF FormRows, QuestionRows
  <2>2. g.field = rows.field
    BY <1>4, <1>5, <2>1 DEF Differ
  <2>3. g.action = f.action
    BY <1>1, <1>6, <2>1 DEF Differ
  <2> QED
    BY <1>2, <1>4, <2>2, <2>3 DEF Filling
<1>8. IsForm(g)
  <2>1. Differ(f, g, QuestionRows \cup {"field"} \cup ActionRows)
    BY <1>6 DEF Differ
  <2> QED
    BY <1>1, <1>5, <1>7, <2>1, FormRead, SameForm, Zenon
<1> QED
  BY <1>6, <1>7, <1>8 DEF g

LEMMA ActedForm ==
    ASSUME NEW f, IsForm(f), NEW a
    PROVE  /\ Differ(f, load_action_widgets(f, a), ActionRows)
           /\ IsForm(load_action_widgets(f, a))
<1> DEFINE label == IF a.type \in DOMAIN ActionLabels THEN ActionLabels[a.type] ELSE "Ignore"
           shown == [f EXCEPT !.action = label]
           rows  == configure_action_rows(shown)
           g     == load_action_widgets(f, a)
<1>1. DOMAIN f = FormRows
  BY FormRead, Zenon
<1>2. label \in Actions
  <2>1. CASE a.type \in DOMAIN ActionLabels
    <3>1. \A type \in DOMAIN ActionLabels :
             ActionLabels[type] \in {"Move", "Copy", "Rename", "Trash", "Delete permanently",
                                    "Display notification", "Run shell script", "Log", "Open"}
      <4>1. DOMAIN ActionLabels = {"move", "copy", "rename", "trash", "delete", "notify",
                                   "run_script", "log", "open"}
        BY Zenon DEF ActionLabels
      <4>2. /\ ActionLabels.move = "Move" /\ ActionLabels.copy = "Copy"
            /\ ActionLabels.rename = "Rename" /\ ActionLabels.trash = "Trash"
            /\ ActionLabels.delete = "Delete permanently"
            /\ ActionLabels.notify = "Display notification"
            /\ ActionLabels.run_script = "Run shell script"
            /\ ActionLabels.log = "Log" /\ ActionLabels.open = "Open"
        BY Zenon DEF ActionLabels
      <4> QED
        BY <4>1, <4>2
    <3>2. {"Move", "Copy", "Rename", "Trash", "Delete permanently", "Display notification",
           "Run shell script", "Log", "Open"} \subseteq Actions
      BY DEF Actions, ActionTexts
    <3>3. ActionLabels[a.type] \in Actions
      BY <2>1, <3>1, <3>2
    <3> QED
      BY <2>1, <3>3
  <2>2. CASE a.type \notin DOMAIN ActionLabels
    BY <2>2 DEF Actions
  <2> QED
    BY <2>1, <2>2
<1> HIDE DEF label
<1>3. Differ(f, shown, ActionRows) /\ shown.action = label
  BY <1>1, WriteActions, Zenon
<1> HIDE DEF shown
<1>4. ASSUME NEW h, Differ(f, h, ActionRows), h.action = label
      PROVE  IsForm(h)
  <2>1. Differ(f, h, QuestionRows \cup {"field"} \cup ActionRows)
    BY <1>4 DEF Differ
  <2>2. {"field", "operator", "unit"} \subseteq FormRows \ ActionRows
    BY DEF FormRows, ActionRows
  <2>3. h.field = f.field /\ h.operator = f.operator /\ h.unit = f.unit
    BY <1>1, <1>4, <2>2 DEF Differ
  <2> QED
    BY <1>2, <1>4, <2>1, <2>3, FormRead, SameForm, Zenon
<1>5. IsForm(shown)
  BY <1>3, <1>4
<1>6. Differ(shown, rows, ActionRows) /\ rows.action = label /\ DOMAIN rows = FormRows
  BY <1>3, <1>5, ActionFilled, FormRead, Zenon
<1> DEFINE Acts(h) == Differ(rows, h, ActionRows) /\ h.action = label
<1>7. /\ Acts(rows) /\ \A t : Acts([rows EXCEPT !.text = t])
      /\ \A t : \A c : Acts(Acting(rows, t, c))
  <2>1. Acts(rows)
    BY <1>6 DEF Differ
  <2> HIDE DEF rows
  <2>2. ASSUME NEW t
        PROVE  Acts([rows EXCEPT !.text = t])
    BY <1>6, WriteActions, Zenon
  <2>3. ASSUME NEW t, NEW c
        PROVE  Acts(Acting(rows, t, c))
    <3> DEFINE h == Acting(rows, t, c)
    <3>1. Differ(rows, h, ActionRows) /\ h.action = rows.action
      BY <1>6, WriteActions
    <3> HIDE DEF h
    <3>2. Acts(h)
      BY <1>6, <3>1
    <3> HIDE DEF Acts
    <3> QED
      BY <3>2 DEF h
  <2> HIDE DEF Acts
  <2> QED
    BY <2>1, <2>2, <2>3
<1>8. Acts(g)
  <2> HIDE DEF Acts, rows
  <2>1. CASE a.type \in {"move", "copy"}
    <3> DEFINE t == a.destination
               c == a.on_conflict
    <3>1. g = Acting(rows, t, c)
      BY <2>1, Zenon DEF load_action_widgets, rows, shown, label, Acting
    <3> HIDE DEF t, c
    <3> QED
      BY <1>7, <3>1
  <2>2. CASE a.type = "rename"
    <3> DEFINE t == a.pattern
               c == a.on_conflict
    <3>1. g = Acting(rows, t, c)
      BY <2>2, Zenon DEF load_action_widgets, rows, shown, label, Acting
    <3> HIDE DEF t, c
    <3> QED
      BY <1>7, <3>1
  <2>3. CASE a.type = "notify"
    <3>1. g = [rows EXCEPT !.text = a.body]
      BY <2>3, Zenon DEF load_action_widgets, rows, shown, label
    <3> QED
      BY <1>7, <3>1, Zenon
  <2>4. CASE a.type = "run_script"
    <3>1. g = [rows EXCEPT !.text = a.command]
      BY <2>4, Zenon DEF load_action_widgets, rows, shown, label
    <3> QED
      BY <1>7, <3>1, Zenon
  <2>5. CASE a.type = "log"
    <3>1. g = [rows EXCEPT !.text = a.message]
      BY <2>5, Zenon DEF load_action_widgets, rows, shown, label
    <3> QED
      BY <1>7, <3>1, Zenon
  <2>6. CASE a.type \notin {"move", "copy", "rename", "notify", "run_script", "log"}
    <3>1. g = rows
      BY <2>6, Zenon DEF load_action_widgets, rows, shown, label
    <3> QED
      BY <1>7, <3>1, Zenon
  <2> QED
    BY <2>1, <2>2, <2>3, <2>4, <2>5, <2>6, Zenon
<1> HIDE DEF g, rows
<1>9. Differ(f, g, ActionRows)
  BY <1>3, <1>6, <1>8 DEF Differ
<1> QED
  BY <1>4, <1>8, <1>9 DEF g

(* load_rule, part by part. *)
IsGroup(r) == serialize(r.conditions).type = "group"
Basics(r) ==
    [NewForm EXCEPT !.name = r.name, !.priority = Clamp(r.priority, -100, 100),
        !.enabled = r.enabled, !.on_add = r.triggers.on_add, !.on_modify = r.triggers.on_modify,
        !.continue_matching = r.continue_matching,
        !.match = IF IsGroup(r) THEN serialize(r.conditions).match ELSE @]
Placed(r) ==
    IF r.folders = <<>> THEN Basics(r)
    ELSE [set_folder_choice(Basics(r), r.folders[1].path) EXCEPT
             !.recursive = r.folders[1].recursive, !.depth = Clamp(r.folders[1].depth, 1, 25)]
Asked(r) ==
    IF IsGroup(r) /\ serialize(r.conditions).items # <<>>
    THEN load_condition_widgets(Placed(r), serialize(r.conditions).items[1])
    ELSE configure_condition_rows(Placed(r))

LEMMA LoadIs ==
    ASSUME NEW r
    PROVE  load_rule(r) = IF r.actions # <<>> THEN load_action_widgets(Asked(r), r.actions[1])
                          ELSE configure_action_rows(Asked(r))
BY Zenon DEF load_rule, IsGroup, Basics, Placed, Asked

LEMMA StandardAreUsers ==
    /\ \A n \in DOMAIN StandardFolders : StandardFolders[n] \in UserPaths \ {<<>>}
    /\ "Downloads" \in DOMAIN StandardFolders /\ "Custom" \notin DOMAIN StandardFolders
    /\ StandardFolders["Downloads"] = Home("Downloads")
<1>1. \A n \in DOMAIN StandardFolders : StandardFolders[n] = Home(n) /\ Home(n) # <<>>
  BY DEF StandardFolders, Home
<1>2. \A n \in DOMAIN StandardFolders : StandardFolders[n] \in UserPaths
  BY EditorAssumption
<1> QED
  BY <1>1, <1>2 DEF StandardFolders

LEMMA NewRows ==
    /\ DOMAIN NewForm = FormRows /\ NewForm.field = "Date modified" /\ NewForm.match = "all"
    /\ NewForm.value = <<"4">>
    /\ NewForm.folder = "Downloads" /\ NewForm.custom = Home("Downloads")
    /\ NewForm.recursive = FALSE /\ NewForm.depth = 1 /\ NewForm.priority = 0
    /\ NewForm.operator = "is not in the last" /\ NewForm.unit = "weeks"
    /\ NewForm.action = "Sort into subfolder"
<1>1. DOMAIN NewForm = FormRows
  BY DEF NewForm, FormRows
<1> QED
  BY <1>1, Zenon DEF NewForm

LEMMA NewFormIs == IsForm(NewForm) /\ NewForm.value \in FirstTexts
<1>1. NewForm.depth \in 1..25 /\ NewForm.priority \in -100..100
  <2>1. NewForm.depth = 1 /\ NewForm.priority = 0
    BY NewRows, Zenon
  <2> QED
    BY <2>1
<1>2. NewForm.recursive \in BOOLEAN
  BY NewRows
<1>3. NewForm.field \in Fields
  <2>1. "Date modified" \in Fields
    BY DEF Fields, DateTypes
  <2> QED
    BY <2>1, NewRows, Zenon
<1>4. NewForm.operator \in Operators /\ NewForm.unit \in Units /\ NewForm.action \in Actions
  <2>1. /\ "is not in the last" \in Operators /\ "weeks" \in Units
        /\ "Sort into subfolder" \in Actions
    BY DEF Operators, Units, Actions, ActionTexts
  <2> QED
    BY <2>1, NewRows, Zenon
<1>5. NewForm.folder \in DOMAIN StandardFolders /\ NewForm.custom \in UserPaths
  BY NewRows, StandardAreUsers, Zenon
<1>6. NewForm.value \in FirstTexts
  BY NewRows, FirstTextsAre, Zenon
<1> QED
  BY <1>1, <1>2, <1>3, <1>4, <1>5, <1>6, NewRows DEF IsForm

(* Rules whose folders exist. *)
IsRule(r) == r.folders \in Seq(UserFolders) /\ r.priority \in Int

LEMMA ClampIs ==
    ASSUME NEW n \in Int, NEW low \in Int, NEW high \in Int, low <= high
    PROVE  /\ Clamp(n, low, high) \in low..high
           /\ n \in low..high => Clamp(n, low, high) = n
BY DEF Clamp

LEMMA BasicsAre ==
    ASSUME NEW r, IsRule(r)
    PROVE  /\ IsForm(Basics(r)) /\ Basics(r).field = "Date modified"
           /\ Basics(r).name = r.name /\ Basics(r).priority = Clamp(r.priority, -100, 100)
           /\ Basics(r).enabled = r.enabled /\ Basics(r).on_add = r.triggers.on_add
           /\ Basics(r).on_modify = r.triggers.on_modify
           /\ Basics(r).continue_matching = r.continue_matching
           /\ IsGroup(r) => Basics(r).match = serialize(r.conditions).match
<1> DEFINE basics == Basics(r)
           match == IF IsGroup(r) THEN serialize(r.conditions).match ELSE NewForm.match
           priority == Clamp(r.priority, -100, 100)
           rows == {"name", "priority", "enabled", "on_add", "on_modify", "continue_matching",
                    "match"}
<1>1. basics = [NewForm EXCEPT !.name = r.name, !.priority = priority,
                   !.enabled = r.enabled, !.on_add = r.triggers.on_add,
                   !.on_modify = r.triggers.on_modify,
                   !.continue_matching = r.continue_matching, !.match = match]
  BY Zenon DEF Basics
<1>2. DOMAIN NewForm = FormRows
  BY NewRows, Zenon
<1>3. priority \in -100..100
  <2>1. r.priority \in Int
    BY DEF IsRule
  <2> QED
    BY <2>1 DEF Clamp
<1> HIDE DEF basics, match, priority
<1>4. rows \subseteq FormRows
  BY DEF FormRows
<1>5. /\ basics.name = r.name /\ basics.priority = priority /\ basics.enabled = r.enabled
      /\ basics.on_add = r.triggers.on_add /\ basics.on_modify = r.triggers.on_modify
      /\ basics.continue_matching = r.continue_matching /\ basics.match = match
  BY <1>1, <1>2, <1>4
<1>6. Differ(NewForm, basics, rows)
  BY <1>1 DEF Differ
<1>7. IsForm(basics) /\ basics.field = "Date modified"
  <2>1. {"folder", "custom", "recursive", "depth", "field", "operator", "unit", "action"}
           \subseteq FormRows \ rows
    BY DEF FormRows
  <2>2. /\ DOMAIN basics = FormRows
        /\ basics.folder = NewForm.folder /\ basics.custom = NewForm.custom
        /\ basics.recursive = NewForm.recursive /\ basics.depth = NewForm.depth
        /\ basics.field = NewForm.field /\ basics.operator = NewForm.operator
        /\ basics.unit = NewForm.unit /\ basics.action = NewForm.action
    BY <1>2, <1>6, <2>1 DEF Differ
  <2>3. IsForm(basics)
    BY <1>3, <1>5, <2>2, NewFormIs, Zenon DEF IsForm
  <2> QED
    BY <2>2, <2>3, NewRows, Zenon
<1> QED
  BY <1>5, <1>7, Zenon DEF basics, match, priority

LEMMA PlacedIs ==
    ASSUME NEW r, IsRule(r)
    PROVE  /\ IsForm(Placed(r)) /\ Differ(Basics(r), Placed(r), FolderRows)
           /\ r.folders # <<>> =>
                /\ folder_path(Placed(r)) = r.folders[1].path
                /\ Placed(r).recursive = r.folders[1].recursive
                /\ Placed(r).depth = Clamp(r.folders[1].depth, 1, 25)
<1> DEFINE basics == Basics(r)
           first  == r.folders[1]
           chosen == set_folder_choice(basics, first.path)
           placed == Placed(r)
           labels == {n \in DOMAIN StandardFolders : StandardFolders[n] = first.path}
<1>1. IsForm(basics) /\ DOMAIN basics = FormRows
  BY BasicsAre, FormRead, Zenon
<1>2. CASE r.folders = <<>>
  BY <1>1, <1>2 DEF Placed, Differ
<1>3. CASE r.folders # <<>>
  <2>1. first \in UserFolders
    BY <1>3 DEF IsRule
  <2>2. /\ first.path \in UserPaths \ {<<>>} /\ first.recursive \in BOOLEAN
        /\ Clamp(first.depth, 1, 25) \in 1..25
    <3>1. first.depth \in Int
      BY <2>1 DEF UserFolders
    <3>2. Clamp(first.depth, 1, 25) \in 1..25
      BY <3>1 DEF Clamp
    <3> QED
      BY <2>1, <3>2 DEF UserFolders
  <2>3. FolderRows \subseteq FormRows
    BY RowNames, Zenon
  <2>4. placed = [chosen EXCEPT !.recursive = first.recursive,
                                !.depth = Clamp(first.depth, 1, 25)]
    BY <1>3, Zenon DEF Placed
  <2> HIDE DEF first, placed
  <2>5. /\ chosen.folder \in DOMAIN StandardFolders \cup {"Custom"}
        /\ chosen.custom \in UserPaths \cup {<<>>}
        /\ chosen.folder # "Custom" => StandardFolders[chosen.folder] = first.path
        /\ chosen.folder = "Custom" => chosen.custom = first.path
        /\ Differ(basics, chosen, FolderRows)
    <3> HIDE DEF basics
    <3>1. CASE labels # {}
      <4> DEFINE label == CHOOSE n \in labels : TRUE
      <4>1. chosen = [basics EXCEPT !.folder = label]
        BY <3>1 DEF set_folder_choice
      <4>2. label \in labels
        BY <3>1
      <4> HIDE DEF label
      <4>3. chosen.folder = label /\ chosen.custom = basics.custom
        BY <1>1, <2>3, <4>1 DEF FolderRows
      <4>4. Differ(basics, chosen, FolderRows)
        BY <4>1 DEF Differ, FolderRows
      <4> QED
        BY <1>1, <4>2, <4>3, <4>4, StandardAreUsers DEF IsForm
    <3>2. CASE labels = {}
      <4>1. chosen = [basics EXCEPT !.folder = "Custom", !.custom = first.path]
        BY <3>2 DEF set_folder_choice
      <4>2. chosen.folder = "Custom" /\ chosen.custom = first.path
        BY <1>1, <2>3, <4>1 DEF FolderRows
      <4>3. Differ(basics, chosen, FolderRows)
        BY <4>1 DEF Differ, FolderRows
      <4> QED
        BY <2>2, <4>2, <4>3
    <3> QED
      BY <3>1, <3>2
  <2> HIDE DEF chosen, basics
  <2>6. DOMAIN chosen = FormRows
    BY <1>1, <2>5 DEF Differ
  <2>7. /\ placed.folder = chosen.folder /\ placed.custom = chosen.custom
        /\ placed.recursive = first.recursive /\ placed.depth = Clamp(first.depth, 1, 25)
    BY <2>3, <2>4, <2>6 DEF FolderRows
  <2>8. Differ(basics, placed, FolderRows)
    <3>1. Differ(chosen, placed, FolderRows)
      BY <2>4 DEF Differ, FolderRows
    <3> QED
      BY <2>5, <3>1 DEF Differ
  <2>9. folder_path(placed) = first.path
    BY <2>2, <2>5, <2>7 DEF folder_path
  <2>10. IsForm(placed)
    <3>1. {"priority", "field", "operator", "unit", "action"} \subseteq FormRows \ FolderRows
      BY DEF FormRows, FolderRows
    <3>2. /\ DOMAIN placed = FormRows
          /\ placed.priority = basics.priority /\ placed.field = basics.field
          /\ placed.operator = basics.operator /\ placed.unit = basics.unit
          /\ placed.action = basics.action
      BY <1>1, <2>8, <3>1 DEF Differ
    <3> QED
      BY <1>1, <2>2, <2>5, <2>7, <3>2, Zenon DEF IsForm
  <2> QED
    BY <2>7, <2>8, <2>9, <2>10 DEF placed, first, basics
<1> QED
  BY <1>2, <1>3

LEMMA AskedIs ==
    ASSUME NEW r, IsRule(r)
    PROVE  IsForm(Asked(r)) /\ Differ(Placed(r), Asked(r), QuestionRows \cup {"field"})
<1>1. IsForm(Placed(r))
  BY PlacedIs, Zenon
<1>2. ASSUME NEW c
      PROVE  /\ IsForm(load_condition_widgets(Placed(r), c))
             /\ Differ(Placed(r), load_condition_widgets(Placed(r), c),
                       QuestionRows \cup {"field"})
  BY <1>1, AskedForm, Zenon
<1>3. /\ IsForm(configure_condition_rows(Placed(r)))
      /\ Differ(Placed(r), configure_condition_rows(Placed(r)), QuestionRows \cup {"field"})
  <2>1. Filling(Placed(r), configure_condition_rows(Placed(r)))
    BY <1>1, ConditionRows, Zenon
  <2>2. IsForm(configure_condition_rows(Placed(r)))
    BY <1>1, <2>1, FilledForm, Zenon
  <2> QED
    BY <2>1, <2>2 DEF Filling, Differ
<1> QED
  BY <1>2, <1>3, Zenon DEF Asked

LEMMA LoadedIs ==
    ASSUME NEW r, IsRule(r)
    PROVE  IsForm(load_rule(r)) /\ Differ(Asked(r), load_rule(r), ActionRows)
<1>1. IsForm(Asked(r))
  BY AskedIs, Zenon
<1>2. ASSUME NEW a
      PROVE  /\ IsForm(load_action_widgets(Asked(r), a))
             /\ Differ(Asked(r), load_action_widgets(Asked(r), a), ActionRows)
  BY <1>1, ActedForm, Zenon
<1>3. /\ IsForm(configure_action_rows(Asked(r)))
      /\ Differ(Asked(r), configure_action_rows(Asked(r)), ActionRows)
  BY <1>1, ActionFilled, Zenon
<1> QED
  BY <1>2, <1>3, LoadIs, Zenon

(* The rows for all but the condition and the action. *)
LEMMA LoadedRows ==
    ASSUME NEW r, IsRule(r)
    PROVE  \A row \in FormRows \ (QuestionRows \cup {"field"} \cup ActionRows) :
              load_rule(r)[row] = Placed(r)[row]
<1>1. DOMAIN Placed(r) = FormRows
  BY PlacedIs, FormRead, Zenon
<1>2. Differ(Placed(r), Asked(r), QuestionRows \cup {"field"})
      /\ Differ(Asked(r), load_rule(r), ActionRows)
  BY AskedIs, LoadedIs, Zenon
<1> QED
  BY <1>1, <1>2 DEF Differ

(* What the form shows of the folders of a rule: the first of them, its depth
   cut to what the form can show. *)
LEMMA Loaded ==
    ASSUME NEW r, IsRule(r), r.folders # <<>>
    PROVE  /\ folder_path(load_rule(r)) = r.folders[1].path
           /\ load_rule(r).recursive = r.folders[1].recursive
           /\ load_rule(r).depth = Clamp(r.folders[1].depth, 1, 25)
<1>1. FolderRows \subseteq FormRows \ (QuestionRows \cup {"field"} \cup ActionRows)
  BY DEF FolderRows, FormRows, QuestionRows, ActionRows
<1>2. \A row \in FolderRows : load_rule(r)[row] = Placed(r)[row]
  BY <1>1, LoadedRows
<1>3. /\ load_rule(r).folder = Placed(r).folder /\ load_rule(r).custom = Placed(r).custom
      /\ load_rule(r).recursive = Placed(r).recursive /\ load_rule(r).depth = Placed(r).depth
  BY <1>2 DEF FolderRows
<1> QED
  BY <1>3, PlacedIs, Zenon DEF folder_path
-----------------------------------------------------------------------------
(* The entry of the condition *)

(* What the entry of the condition holds, and what it is read as. *)

LEMMA EntryOfNone == value_as_entry_text(<<>>) = <<>>
<1>1. <<>> \in Seq({<<>>})
  OBVIOUS
<1>2. <<>> \in Seq(Seq({","})) /\ HasComma({","})
  BY DEF HasComma
<1>3. PICK j \in [0..Len(<<>>) -> Seq({","})] :
         IsJoined(<<>>, j) /\ value_as_entry_text(<<>>) = j[Len(<<>>)]
  BY <1>2, TextsJoin, JoinRuns, Zenon
<1>4. Len(<<>>) = 0
  OBVIOUS
<1> QED
  BY <1>3, <1>4, Zenon DEF IsJoined

LEMMA EntryOfOne ==
    ASSUME NEW V, HasComma(V), NEW v \in Seq(V)
    PROVE  value_as_entry_text(<<v>>) = v
<1> DEFINE texts == <<v>>
<1>1. texts \in Seq(Seq(V)) /\ Len(texts) = 1 /\ Len(texts) > 0 /\ texts[1] = v
  OBVIOUS
<1> HIDE DEF texts
<1>2. PICK j \in [0..Len(texts) -> Seq(V)] :
         IsJoined(texts, j) /\ value_as_entry_text(texts) = j[Len(texts)]
  <2>1. Joins(Seq(V))
    BY TextsJoin, Zenon
  <2> QED
    BY <1>1, <2>1, JoinRuns, Zenon
<1>3. value_as_entry_text(texts) = v
  BY <1>1, <1>2, Zenon DEF IsJoined
<1> QED
  BY <1>3 DEF texts

LEMMA FirstTyped ==
    ASSUME NEW t \in FirstTexts
    PROVE  \E V : HasComma(V) /\ t \in Seq(V)
<1> DEFINE V == ToSet(t) \cup {","}
<1>1. t \in Seq(ToSet(t))
  BY EditorAssumption, Zenon
<1>2. HasComma(V)
  BY DEF HasComma
<1>3. ToSet(t) \subseteq V
  OBVIOUS
<1> HIDE DEF V
<1>4. t \in Seq(V)
  <2> DEFINE W == ToSet(t)
  <2>1. t \in Seq(W) /\ W \subseteq V
    BY <1>1, <1>3
  <2> HIDE DEF W
  <2> QED
    BY <2>1
<1> QED
  BY <1>2, <1>4, Zenon

LEMMA TypedBack ==
    ASSUME NEW t, NEW V, HasComma(V), t \in Seq(V)
    PROVE  /\ csv_values(t) # <<>> =>
                /\ csv_values(value_as_entry_text(csv_values(t))) = csv_values(t)
                /\ value_as_entry_text(csv_values(t)) # <<>>
           /\ \E W : HasComma(W) /\ value_as_entry_text(csv_values(t)) \in Seq(W)
<1>1. csv_values(t) \in Seq(Clean(V))
  BY ValuesClean, Zenon
<1>2. CASE csv_values(t) = <<>>
  <2>1. value_as_entry_text(csv_values(t)) = <<>>
    BY <1>2, EntryOfNone, Zenon
  <2>2. <<>> \in Seq(V)
    OBVIOUS
  <2> QED
    BY <1>2, <2>1, <2>2, Zenon
<1>3. CASE csv_values(t) # <<>>
  <2>1. /\ csv_values(value_as_entry_text(csv_values(t))) = csv_values(t)
        /\ value_as_entry_text(csv_values(t)) \in Seq(V)
        /\ value_as_entry_text(csv_values(t)) # <<>>
    BY <1>1, <1>3, ReadBack, Zenon
  <2> QED
    BY <2>1, Zenon
<1> QED
  BY <1>2, <1>3, Zenon

LEMMA EntryTyped ==
    ASSUME NEW t \in EntryTexts
    PROVE  \E V : HasComma(V) /\ t \in Seq(V)
<1>1. CASE t \in FirstTexts
  BY <1>1, FirstTyped, Zenon
<1>2. CASE t \notin FirstTexts
  <2>1. PICK s \in FirstTexts : t = value_as_entry_text(csv_values(s))
    BY <1>2 DEF EntryTexts
  <2>2. PICK V : HasComma(V) /\ s \in Seq(V)
    BY FirstTyped, Zenon
  <2> QED
    BY <2>1, <2>2, TypedBack, Zenon
<1> QED
  BY <1>1, <1>2, Zenon

(* A text shown, read and shown again is what the entry may hold, and is read
   as before if anything was read. *)
LEMMA ShownAgain ==
    ASSUME NEW t \in EntryTexts
    PROVE  /\ value_as_entry_text(csv_values(t)) \in EntryTexts
           /\ csv_values(t) # <<>> =>
                /\ csv_values(value_as_entry_text(csv_values(t))) = csv_values(t)
                /\ value_as_entry_text(csv_values(t)) # <<>>
<1>1. csv_values(t) # <<>> =>
        /\ csv_values(value_as_entry_text(csv_values(t))) = csv_values(t)
        /\ value_as_entry_text(csv_values(t)) # <<>>
  BY EntryTyped, TypedBack, Zenon
<1>2. ASSUME NEW s \in FirstTexts
      PROVE  value_as_entry_text(csv_values(s)) \in EntryTexts
  BY DEF EntryTexts
<1>3. CASE t \in FirstTexts
  BY <1>1, <1>2, <1>3, Zenon
<1>4. CASE t \notin FirstTexts
  <2>1. PICK s \in FirstTexts : t = value_as_entry_text(csv_values(s))
    BY <1>4 DEF EntryTexts
  <2>2. CASE csv_values(s) = <<>>
    <3>1. t = <<>>
      BY <2>1, <2>2, EntryOfNone, Zenon
    <3> QED
      BY <1>4, <3>1, FirstTextsAre, Zenon
  <2>3. CASE csv_values(s) # <<>>
    <3>1. csv_values(t) = csv_values(s)
      BY <2>1, <2>3, FirstTyped, TypedBack, Zenon
    <3> QED
      BY <1>1, <2>1, <3>1, Zenon
  <2> QED
    BY <2>2, <2>3
<1> QED
  BY <1>3, <1>4
-----------------------------------------------------------------------------
(* The condition: written, read, shown and written again *)

(* A condition with all its fields, and an operator that is written by the
   name it is read by. *)
Plain(c) ==
    /\ c = [x \in DOMAIN c |-> c[x]] /\ "type" \in DOMAIN c
    /\ c.type \in Types /\ c.type # "group"
    /\ c.type \in DOMAIN FieldDefaults => DOMAIN FieldDefaults[c.type] \subseteq DOMAIN c
    /\ c.type \in DOMAIN OperatorsOf =>
         /\ "operator" \in DOMAIN c
         /\ c.operator \in DOMAIN ReadAs[OperatorsOf[c.type]]
         /\ WrittenAs[OperatorsOf[c.type]][ReadAs[OperatorsOf[c.type]][c.operator]] = c.operator

LEMMA PlainRead ==
    ASSUME NEW c, Plain(c)
    PROVE  /\ serialize(deserialize(c)) = c
           /\ deserialize(c).type = c.type
           /\ "value" \in DOMAIN c => deserialize(c).value = c.value
<1> DEFINE names == ReadAs[OperatorsOf[c.type]]
           read  == [c EXCEPT !.operator = names[c.operator]]
<1>1. Filled(c) = c
  <2> DEFINE defaults == IF c.type \in DOMAIN FieldDefaults THEN FieldDefaults[c.type] ELSE <<>>
  <2>1. type_of(c) = c.type
    BY DEF Plain, type_of, TypeAliases, Types, OperatorsOf
  <2>2. Filled(c) = [x \in DOMAIN c \cup DOMAIN defaults |->
                       IF x = "type" THEN c.type ELSE IF x \in DOMAIN c THEN c[x]
                       ELSE defaults[x]]
    BY <2>1 DEF Filled
  <2>3. DOMAIN defaults \subseteq DOMAIN c
    BY DEF Plain
  <2> HIDE DEF defaults
  <2> QED
    BY <2>2, <2>3 DEF Plain
<1>2. CASE c.type \in DOMAIN OperatorsOf
  <2>1. deserialize(c) = read
    <3>1. c.operator \in DOMAIN names /\ c.type \in Types /\ c.type # "group"
      BY <1>2, Zenon DEF Plain
    <3> QED
      BY <1>1, <1>2, <3>1 DEF deserialize
  <2>2. /\ DOMAIN read = DOMAIN c /\ read.type = c.type
        /\ "value" \in DOMAIN c => read.value = c.value
        /\ read.operator = names[c.operator]
    <3> HIDE DEF names
    <3> QED
      BY <1>2 DEF Plain
  <2>3. serialize(read) = [read EXCEPT !.operator =
                             WrittenAs[OperatorsOf[c.type]][names[c.operator]]]
    <3>1. read.type = c.type /\ c.type # "group" /\ c.type \in DOMAIN OperatorsOf
      BY <1>2, <2>2, Zenon DEF Plain
    <3> HIDE DEF read, names
    <3> QED
      BY <2>2, <3>1 DEF serialize
  <2>4. [read EXCEPT !.operator = c.operator] = c
    <3> DEFINE name == names[c.operator]
    <3> HIDE DEF names, name
    <3>1. c = [x \in DOMAIN c |-> c[x]] /\ "operator" \in DOMAIN c
      BY <1>2 DEF Plain
    <3>2. [[c EXCEPT !.operator = name] EXCEPT !.operator = c.operator] = c
      BY <3>1
    <3> QED
      BY <3>2 DEF name
  <2>5. WrittenAs[OperatorsOf[c.type]][names[c.operator]] = c.operator
    BY <1>2 DEF Plain
  <2> HIDE DEF read, names
  <2> QED
    BY <2>1, <2>2, <2>3, <2>4, <2>5
<1>3. CASE c.type \notin DOMAIN OperatorsOf
  <2>1. c.type \in Types /\ c.type # "group"
    BY DEF Plain
  <2>2. deserialize(c) = c
    BY <1>1, <1>3, <2>1 DEF deserialize
  <2>3. serialize(c) = c
    BY <1>3, <2>1 DEF serialize
  <2> QED
    BY <2>2, <2>3
<1> QED
  BY <1>2, <1>3

(* The operators the form writes are read and written as they are. *)
LEMMA WrittenNames ==
    ASSUME NEW label
    PROVE  /\ string_operator(label) \in DOMAIN ReadAs["string"]
           /\ WrittenAs["string"][ReadAs["string"][string_operator(label)]]
                = string_operator(label)
           /\ list_operator(label) \in DOMAIN ReadAs["list"]
           /\ WrittenAs["list"][ReadAs["list"][list_operator(label)]] = list_operator(label)
           /\ age_operator(label) \in DOMAIN ReadAs["age"]
           /\ WrittenAs["age"][ReadAs["age"][age_operator(label)]] = age_operator(label)
           /\ size_operator(label) \in DOMAIN ReadAs["size"]
           /\ WrittenAs["size"][ReadAs["size"][size_operator(label)]] = size_operator(label)
           /\ text_operator(label) \in DOMAIN ReadAs["text"]
           /\ WrittenAs["text"][ReadAs["text"][text_operator(label)]] = text_operator(label)
<1>1. /\ string_operator(label) \in {"is", "is_not", "contains", "not_contains"}
      /\ list_operator(label) \in {"is_one_of", "is_not_one_of"}
      /\ age_operator(label) \in {"newer_than", "older_than"}
      /\ size_operator(label) \in {"less_than", "greater_than"}
      /\ text_operator(label) \in {"contains", "not_contains"}
  BY DEF string_operator, list_operator, age_operator, size_operator, text_operator
<1>2. /\ ReadAs["string"] = Texts
      /\ ReadAs["list"] = [n \in {"is", "is_not", "is_one_of", "is_not_one_of"} |-> Texts[n]]
      /\ ReadAs["text"] = [n \in {"contains", "not_contains", "matches_regex"} |-> Texts[n]]
  BY DEF ReadAs
<1>3. /\ WrittenAs["string"] = TextNames /\ WrittenAs["list"] = TextNames
      /\ WrittenAs["text"] = TextNames
  BY DEF WrittenAs
<1>4. ASSUME NEW n \in {"is", "is_not", "contains", "not_contains", "is_one_of",
                        "is_not_one_of"}
      PROVE  n \in DOMAIN Texts /\ TextNames[Texts[n]] = n
  BY DEF Texts, TextNames
<1>5. ASSUME NEW n \in {"newer_than", "older_than"}
      PROVE  n \in DOMAIN ReadAs["age"] /\ WrittenAs["age"][ReadAs["age"][n]] = n
  BY DEF ReadAs, WrittenAs
<1>6. ASSUME NEW n \in {"less_than", "greater_than"}
      PROVE  n \in DOMAIN ReadAs["size"] /\ WrittenAs["size"][ReadAs["size"][n]] = n
  <2>1. /\ ReadAs["size"] = [m \in DOMAIN Comparisons \cup {"between"} |->
                                IF m = "between" THEN "Between" ELSE Comparisons[m]]
        /\ WrittenAs["size"] = Sizes
    BY DEF ReadAs, WrittenAs
  <2> QED
    BY <2>1 DEF Comparisons, Sizes
<1> QED
  BY <1>1, <1>2, <1>3, <1>4, <1>5, <1>6

(* The rows a condition of each type fills in. *)
LEMMA ShownRows ==
    ASSUME NEW h, IsForm(h), NEW c, NEW g, g = load_condition_widgets(h, c)
    PROVE  /\ g.field = FieldOf(c)
           /\ c.type = "name" =>
                g.operator = string_op_index(c.operator) /\ g.value = value_as_entry_text(c.value)
           /\ c.type \in {"extension", "kind"} =>
                g.operator = list_op_index(c.operator) /\ g.value = value_as_entry_text(c.value)
           /\ c.type = "age" =>
                /\ g.operator = age_op_index(c.operator) /\ g.value = numeric_text(c.value)
                /\ g.unit = TimeLabel(c.unit)
           /\ c.type = "size" =>
                /\ g.operator = size_op_index(c.operator) /\ g.unit = SizeLabel(c.unit)
                /\ ~c.range => g.value = numeric_text(c.value[1])
           /\ c.type = "content" => g.operator = text_op_index(c.operator) /\ g.value = c.value
           /\ c.type = "is_directory" => g.value = IF c.value THEN <<"folder">> ELSE <<"file">>
<1> DEFINE asked == [h EXCEPT !.field = FieldOf(c)]
           rows  == configure_condition_rows(asked)
<1>1. g.field = FieldOf(c)
  BY AskedForm, Zenon
<1>2. DOMAIN rows = FormRows
  <2>1. DOMAIN h = FormRows /\ FieldOf(c) \in Fields
    BY FormRead, FieldIs, Zenon
  <2>2. IsForm(asked)
    <3>1. Differ(h, asked, {"field"}) /\ asked.field = FieldOf(c)
      BY <2>1, WriteField, Zenon
    <3> HIDE DEF asked
    <3>2. Differ(h, asked, QuestionRows \cup {"field"} \cup ActionRows)
      BY <3>1 DEF Differ
    <3>3. {"operator", "unit", "action"} \subseteq FormRows \ {"field"}
      BY DEF FormRows
    <3>4. asked.operator = h.operator /\ asked.unit = h.unit /\ asked.action = h.action
      BY <2>1, <3>1, <3>3 DEF Differ
    <3> QED
      BY <2>1, <3>1, <3>2, <3>4, FormRead, SameForm, Zenon
  <2> HIDE DEF asked
  <2> QED
    BY <2>2, ConditionRows, FilledForm, FormRead, Zenon
<1>0. {"operator", "value", "unit"} \subseteq FormRows
  BY DEF FormRows
<1> HIDE DEF rows
<1>3. ASSUME c.type = "name"
      PROVE  g.operator = string_op_index(c.operator) /\ g.value = value_as_entry_text(c.value)
  <2>1. g = [rows EXCEPT !.operator = string_op_index(c.operator),
                         !.value = value_as_entry_text(c.value)]
    BY <1>3, Zenon DEF load_condition_widgets, rows, asked
  <2> QED
    BY <1>0, <1>2, <2>1
<1>4. ASSUME c.type \in {"extension", "kind"}
      PROVE  g.operator = list_op_index(c.operator) /\ g.value = value_as_entry_text(c.value)
  <2>1. g = [rows EXCEPT !.operator = list_op_index(c.operator),
                         !.value = value_as_entry_text(c.value)]
    BY <1>4, Zenon DEF load_condition_widgets, rows, asked
  <2> QED
    BY <1>0, <1>2, <2>1
<1>5. ASSUME c.type = "age"
      PROVE  /\ g.operator = age_op_index(c.operator) /\ g.value = numeric_text(c.value)
             /\ g.unit = TimeLabel(c.unit)
  <2>1. g = [rows EXCEPT !.operator = age_op_index(c.operator),
                         !.value = numeric_text(c.value), !.unit = TimeLabel(c.unit)]
    BY <1>5, Zenon DEF load_condition_widgets, rows, asked
  <2> QED
    BY <1>0, <1>2, <2>1
<1>6. ASSUME c.type = "size"
      PROVE  /\ g.operator = size_op_index(c.operator) /\ g.unit = SizeLabel(c.unit)
             /\ ~c.range => g.value = numeric_text(c.value[1])
  <2> DEFINE shown == IF c.range THEN <<"10">> ELSE numeric_text(c.value[1])
  <2>1. g = [rows EXCEPT !.operator = size_op_index(c.operator), !.value = shown,
                         !.unit = SizeLabel(c.unit)]
    BY <1>6, Zenon DEF load_condition_widgets, rows, asked
  <2>2. ~c.range => shown = numeric_text(c.value[1])
    OBVIOUS
  <2> HIDE DEF shown
  <2> QED
    BY <1>0, <1>2, <2>1, <2>2
<1>7. ASSUME c.type = "content"
      PROVE  g.operator = text_op_index(c.operator) /\ g.value = c.value
  <2>1. g = [rows EXCEPT !.operator = text_op_index(c.operator), !.value = c.value]
    BY <1>7, Zenon DEF load_condition_widgets, rows, asked
  <2> QED
    BY <1>0, <1>2, <2>1
<1>8. ASSUME c.type = "is_directory"
      PROVE  g.value = IF c.value THEN <<"folder">> ELSE <<"file">>
  <2> DEFINE shown == IF c.value THEN <<"folder">> ELSE <<"file">>
  <2>1. g = [rows EXCEPT !.value = shown]
    BY <1>8, Zenon DEF load_condition_widgets, rows, asked
  <2> HIDE DEF shown
  <2>2. g.value = shown
    BY <1>0, <1>2, <2>1
  <2> QED
    BY <2>2 DEF shown
<1> QED
  BY <1>1, <1>3, <1>4, <1>5, <1>6, <1>7, <1>8, Zenon

(* The condition of a form is written in full, and what the form shows of it
   is written as the same condition again, unless it is an empty list. *)
Kept(f, c) ==
    /\ condition_json(f) = <<c>> /\ Plain(c) /\ "value" \in DOMAIN c
    /\ \A h : IsForm(h) =>
          /\ load_condition_widgets(h, c).value \in EntryTexts
          /\ (c.type \in {"extension", "kind"} => c.value # <<>>) =>
                condition_json(load_condition_widgets(h, c)) = <<c>>

(* What a label stands for is shown by a label that stands for it. *)
LEMMA LabelsBack ==
    ASSUME NEW label
    PROVE  /\ string_operator(string_op_index(string_operator(label))) = string_operator(label)
           /\ list_operator(list_op_index(list_operator(label))) = list_operator(label)
           /\ age_operator(age_op_index(age_operator(label))) = age_operator(label)
           /\ size_operator(size_op_index(size_operator(label))) = size_operator(label)
           /\ text_operator(text_op_index(text_operator(label))) = text_operator(label)
           /\ time_unit(TimeLabel(time_unit(label))) = time_unit(label)
           /\ size_unit(SizeLabel(size_unit(label))) = size_unit(label)
BY DEF string_operator, list_operator, age_operator, size_operator, text_operator, time_unit,
       size_unit, string_op_index, list_op_index, age_op_index, size_op_index, text_op_index,
       TimeLabel, SizeLabel, Units

LEMMA FirstIsEntry == FirstTexts \subseteq EntryTexts
BY DEF EntryTexts

LEMMA ValueOrDefault ==
    ASSUME NEW value, NEW default \in EntryTexts, value \in EntryTexts, default # <<>>
    PROVE  /\ value_or_default(value, default) \in EntryTexts
           /\ value_or_default(value, default) # <<>>
           /\ \A other : value_or_default(value_or_default(value, default), other)
                            = value_or_default(value, default)
<1> DEFINE v == value_or_default(value, default)
<1>1. v \in EntryTexts /\ v # <<>>
  <2>1. CASE Len(value) = 0
    BY <2>1 DEF value_or_default
  <2>2. CASE Len(value) # 0
    <3>1. v = value
      BY <2>2 DEF value_or_default
    <3> QED
      BY <2>2, <3>1
  <2> QED
    BY <2>1, <2>2
<1> HIDE DEF v
<1>2. Len(v) # 0
  <2>1. PICK V : v \in Seq(V)
    BY <1>1, EntryTyped, Zenon
  <2> QED
    BY <1>1, <2>1
<1> QED
  BY <1>1, <1>2 DEF v, value_or_default

LEMMA NameKept ==
    ASSUME NEW f, f.field = "Name", f.value \in EntryTexts
    PROVE  \E c : Kept(f, c)
<1> DEFINE v == value_or_default(f.value, <<"*">>)
           c == [type |-> "name", operator |-> string_operator(f.operator), value |-> <<v>>,
                 case_sensitive |-> FALSE]
<1>1. condition_json(f) = <<c>>
  BY NotDates, Zenon DEF condition_json
<1>2. Plain(c)
  <2>1. "name" \in Types /\ OperatorsOf["name"] = "string"
    BY DEF Types, OperatorsOf
  <2>2. DOMAIN FieldDefaults["name"] = {"case_sensitive"}
    BY DEF FieldDefaults
  <2> QED
    BY <2>1, <2>2, WrittenNames DEF Plain
<1>3. /\ v \in EntryTexts /\ value_or_default(v, <<"*">>) = v
  <2>1. <<"*">> \in EntryTexts /\ <<"*">> # <<>>
    BY FirstTextsAre, FirstIsEntry
  <2> QED
    BY <2>1, ValueOrDefault, Zenon
<1>4. value_as_entry_text(<<v>>) = v
  BY <1>3, EntryTyped, EntryOfOne, Zenon
<1>5. /\ c.type = "name" /\ c.operator = string_operator(f.operator) /\ c.value = <<v>>
      /\ "value" \in DOMAIN c
      /\ \A o : \A w : o = c.operator /\ w = v =>
            [type |-> "name", operator |-> o, value |-> <<w>>, case_sensitive |-> FALSE] = c
  OBVIOUS
<1> HIDE DEF c, v
<1>6. ASSUME NEW h, IsForm(h)
      PROVE  /\ load_condition_widgets(h, c).value \in EntryTexts
             /\ condition_json(load_condition_widgets(h, c)) = <<c>>
  <2> DEFINE g == load_condition_widgets(h, c)
  <2>1. g.field = FieldOf(c) /\ g.operator = string_op_index(c.operator) /\ g.value = v
    BY <1>4, <1>5, <1>6, ShownRows
  <2>2. g.field = "Name"
    BY <1>5, <2>1, Zenon DEF FieldOf
  <2> HIDE DEF g
  <2>3. condition_json(g) = <<[type |-> "name", operator |-> string_operator(g.operator),
                               value |-> <<value_or_default(g.value, <<"*">>)>>,
                               case_sensitive |-> FALSE]>>
    BY <2>2, NotDates, Zenon DEF condition_json
  <2>4. string_operator(g.operator) = c.operator
    BY <1>5, <2>1, LabelsBack, Zenon
  <2>5. value_or_default(g.value, <<"*">>) = v
    BY <1>3, <2>1, Zenon
  <2> QED
    BY <1>3, <1>5, <2>1, <2>3, <2>4, <2>5, Zenon DEF g
<1> QED
  BY <1>1, <1>2, <1>5, <1>6, Zenon DEF Kept

(* The two lists: "Extension" and "Kind" differ in the default only. *)
LEMMA ListKept ==
    ASSUME NEW f, f.value \in EntryTexts, NEW type \in {"extension", "kind"},
           NEW default \in EntryTexts, default # <<>>,
           condition_json(f) = <<[type |-> type, operator |-> list_operator(f.operator),
                                  value |-> csv_values(value_or_default(f.value, default))]>>,
           \A g : g.field = FieldOf([type |-> type]) =>
               condition_json(g) = <<[type |-> type, operator |-> list_operator(g.operator),
                                      value |-> csv_values(value_or_default(g.value, default))]>>
    PROVE  \E c : Kept(f, c)
<1> DEFINE v == value_or_default(f.value, default)
           values == csv_values(v)
           c == [type |-> type, operator |-> list_operator(f.operator), value |-> values]
           shown == value_as_entry_text(values)
<1>1. condition_json(f) = <<c>>
  OBVIOUS
<1>2. Plain(c)
  <2>1. type \in Types /\ OperatorsOf[type] = "list" /\ type # "group"
    BY DEF Types, OperatorsOf
  <2>2. type \notin DOMAIN FieldDefaults
    BY DEF FieldDefaults
  <2> HIDE DEF values
  <2> QED
    BY <2>1, <2>2, WrittenNames DEF Plain
<1>3. v \in EntryTexts
  BY ValueOrDefault, Zenon
<1>4. /\ shown \in EntryTexts
      /\ values # <<>> => csv_values(shown) = values /\ shown # <<>>
  BY <1>3, ShownAgain, Zenon
<1>5. /\ c.type = type /\ c.operator = list_operator(f.operator) /\ c.value = values
      /\ "value" \in DOMAIN c
      /\ \A o : \A w : o = c.operator /\ w = values =>
            [type |-> type, operator |-> o, value |-> w] = c
  OBVIOUS
<1>6. FieldOf(c) = FieldOf([type |-> type])
  <2> HIDE DEF values
  <2> QED
    BY DEF FieldOf
<1> HIDE DEF c, values, shown
<1>7. ASSUME NEW h, IsForm(h)
      PROVE  /\ load_condition_widgets(h, c).value \in EntryTexts
             /\ values # <<>> => condition_json(load_condition_widgets(h, c)) = <<c>>
  <2> DEFINE g == load_condition_widgets(h, c)
  <2>1. g.field = FieldOf(c) /\ g.operator = list_op_index(c.operator) /\ g.value = shown
    BY <1>5, <1>7, ShownRows DEF shown
  <2> HIDE DEF g
  <2>2. condition_json(g) = <<[type |-> type, operator |-> list_operator(g.operator),
                               value |-> csv_values(value_or_default(g.value, default))]>>
    BY <1>6, <2>1, Zenon
  <2>3. list_operator(g.operator) = c.operator
    BY <1>5, <2>1, LabelsBack, Zenon
  <2>4. ASSUME values # <<>> PROVE value_or_default(g.value, default) = shown
    <3>1. Len(shown) # 0
      <4>1. PICK V : shown \in Seq(V)
        BY <1>4, EntryTyped, Zenon
      <4> QED
        BY <1>4, <2>4, <4>1
    <3> QED
      BY <2>1, <3>1 DEF value_or_default
  <2>5. values # <<>> => csv_values(value_or_default(g.value, default)) = values
    BY <1>4, <2>4, Zenon
  <2> QED
    BY <1>4, <1>5, <2>1, <2>2, <2>3, <2>5, Zenon DEF g
<1>8. c.type \in {"extension", "kind"}
  BY <1>5
<1> QED
  BY <1>1, <1>2, <1>5, <1>7, <1>8, Zenon DEF Kept

LEMMA ExtensionKept ==
    ASSUME NEW f, f.field = "Extension", f.value \in EntryTexts
    PROVE  \E c : Kept(f, c)
<1>1. \A g : g.field = "Extension" =>
        condition_json(g) = <<[type |-> "extension", operator |-> list_operator(g.operator),
                               value |-> csv_values(value_or_default(g.value, <<"pdf">>))]>>
  BY NotDates, Zenon DEF condition_json
<1>2. FieldOf([type |-> "extension"]) = "Extension"
  BY DEF FieldOf
<1>3. <<"pdf">> \in EntryTexts /\ <<"pdf">> # <<>>
  BY FirstTextsAre, FirstIsEntry
<1> QED
  BY <1>1, <1>2, <1>3, ListKept

LEMMA KindKept ==
    ASSUME NEW f, f.field = "Kind", f.value \in EntryTexts
    PROVE  \E c : Kept(f, c)
<1>1. \A g : g.field = "Kind" =>
        condition_json(g) = <<[type |-> "kind", operator |-> list_operator(g.operator),
                               value |-> csv_values(value_or_default(g.value, <<"document">>))]>>
  BY NotDates, Zenon DEF condition_json
<1>2. FieldOf([type |-> "kind"]) = "Kind"
  BY DEF FieldOf
<1>3. <<"document">> \in EntryTexts /\ <<"document">> # <<>>
  BY FirstTextsAre, FirstIsEntry
<1> QED
  BY <1>1, <1>2, <1>3, ListKept

LEMMA ContentKept ==
    ASSUME NEW f, f.field = "Contents", f.value \in EntryTexts
    PROVE  \E c : Kept(f, c)
<1> DEFINE v == f.value
           c == [type |-> "content", operator |-> text_operator(f.operator), value |-> v]
<1>1. condition_json(f) = <<c>>
  BY NotDates, Zenon DEF condition_json
<1>2. Plain(c)
  <2>1. "content" \in Types /\ OperatorsOf["content"] = "text"
    BY DEF Types, OperatorsOf
  <2>2. "content" \notin DOMAIN FieldDefaults
    BY DEF FieldDefaults
  <2> QED
    BY <2>1, <2>2, WrittenNames DEF Plain
<1>5. /\ c.type = "content" /\ c.operator = text_operator(f.operator) /\ c.value = v
      /\ "value" \in DOMAIN c
      /\ \A o : \A w : o = c.operator /\ w = v =>
            [type |-> "content", operator |-> o, value |-> w] = c
  OBVIOUS
<1> HIDE DEF c, v
<1>6. ASSUME NEW h, IsForm(h)
      PROVE  /\ load_condition_widgets(h, c).value \in EntryTexts
             /\ condition_json(load_condition_widgets(h, c)) = <<c>>
  <2> DEFINE g == load_condition_widgets(h, c)
  <2>1. g.field = FieldOf(c) /\ g.operator = text_op_index(c.operator) /\ g.value = v
    BY <1>5, <1>6, ShownRows
  <2>2. g.field = "Contents"
    BY <1>5, <2>1, Zenon DEF FieldOf
  <2> HIDE DEF g
  <2>3. condition_json(g) = <<[type |-> "content", operator |-> text_operator(g.operator),
                               value |-> g.value]>>
    BY <2>2, NotDates, Zenon DEF condition_json
  <2>4. text_operator(g.operator) = c.operator
    BY <1>5, <2>1, LabelsBack, Zenon
  <2>5. v \in EntryTexts
    BY DEF v
  <2> QED
    BY <1>5, <2>1, <2>3, <2>4, <2>5, Zenon DEF g
<1> QED
  BY <1>1, <1>2, <1>5, <1>6, Zenon DEF Kept

Yes == {<<"folder">>, <<"directory">>, <<"true">>, <<"yes">>}

LEMMA NotIn == ASSUME NEW x, NEW S, ~(x \in S) PROVE (x \in S) = FALSE
OBVIOUS

LEMMA DirectoryWritten ==
    ASSUME NEW g, g.field = "Folder or file"
    PROVE  /\ g.value \in Yes =>
                condition_json(g) = <<[type |-> "is_directory", value |-> TRUE]>>
           /\ g.value \notin Yes =>
                condition_json(g) = <<[type |-> "is_directory", value |-> FALSE]>>
<1>1. condition_json(g) = <<[type |-> "is_directory", value |-> g.value \in Yes]>>
  BY NotDates, Zenon DEF condition_json, Yes
<1>2. ASSUME g.value \in Yes PROVE (g.value \in Yes) = TRUE
  BY <1>2, Zenon
<1>3. ASSUME g.value \notin Yes PROVE (g.value \in Yes) = FALSE
  BY <1>3, NotIn, Zenon
<1> QED
  BY <1>1, <1>2, <1>3, Zenon

LEMMA DirectoryShown ==
    ASSUME NEW b \in BOOLEAN, NEW h, IsForm(h), NEW c,
           c = [type |-> "is_directory", value |-> b]
    PROVE  /\ load_condition_widgets(h, c).value \in EntryTexts
           /\ condition_json(load_condition_widgets(h, c)) = <<c>>
<1> DEFINE g == load_condition_widgets(h, c)
<1>1. /\ g.field = FieldOf(c)
      /\ c.type = "is_directory" => g.value = IF c.value THEN <<"folder">> ELSE <<"file">>
  BY ShownRows
<1>2. c.type = "is_directory" /\ c.value = b
  BY Zenon
<1>3. g.field = "Folder or file"
  BY <1>1, <1>2, Zenon DEF FieldOf
<1>4. <<"folder">> \in EntryTexts /\ <<"file">> \in EntryTexts
  BY FirstTextsAre, FirstIsEntry
<1>5. <<"folder">> \in Yes /\ <<"file">> \notin Yes
  BY DEF Yes
<1> HIDE DEF g
<1>6. CASE b = TRUE
  <2>1. g.value = <<"folder">>
    BY <1>1, <1>2, <1>6, Zenon
  <2>2. condition_json(g) = <<[type |-> "is_directory", value |-> TRUE]>>
    BY <1>3, <1>5, <2>1, DirectoryWritten, Zenon
  <2> QED
    BY <1>4, <1>6, <2>1, <2>2, Zenon DEF g
<1>7. CASE b = FALSE
  <2>1. g.value = <<"file">>
    BY <1>1, <1>2, <1>7, Zenon
  <2>2. condition_json(g) = <<[type |-> "is_directory", value |-> FALSE]>>
    BY <1>3, <1>5, <2>1, DirectoryWritten, Zenon
  <2> QED
    BY <1>4, <1>7, <2>1, <2>2, Zenon DEF g
<1> QED
  BY <1>6, <1>7, Zenon

LEMMA DirectoryKept ==
    ASSUME NEW f, f.field = "Folder or file"
    PROVE  \E c : Kept(f, c)
<1>1. PICK b \in BOOLEAN : condition_json(f) = <<[type |-> "is_directory", value |-> b]>>
  BY DirectoryWritten, Zenon
<1> DEFINE c == [type |-> "is_directory", value |-> b]
<1>2. Plain(c)
  <2>1. "is_directory" \in Types /\ "is_directory" \notin DOMAIN OperatorsOf
    BY DEF Types, OperatorsOf
  <2>2. "is_directory" \notin DOMAIN FieldDefaults
    BY DEF FieldDefaults
  <2> QED
    BY <2>1, <2>2 DEF Plain
<1>3. "value" \in DOMAIN c
  OBVIOUS
<1> HIDE DEF c
<1>4. ASSUME NEW h, IsForm(h)
      PROVE  /\ load_condition_widgets(h, c).value \in EntryTexts
             /\ condition_json(load_condition_widgets(h, c)) = <<c>>
  BY <1>4, DirectoryShown, Zenon DEF c
<1>5. condition_json(f) = <<c>>
  BY <1>1 DEF c
<1> QED
  BY <1>2, <1>3, <1>4, <1>5, Zenon DEF Kept

(* Numbers that are not infinite are among those in use. *)
LEMMA NumberIs ==
    ASSUME NEW text, text # <<"inf">>, NEW default \in DOMAIN Numerals
    PROVE  \E n \in DOMAIN Numerals : Number(text, default) = Numerals[n]
BY DEF Number

LEMMA NumberBack ==
    ASSUME NEW n \in DOMAIN Numerals, NEW default
    PROVE  /\ numeric_text(Numerals[n]) \in EntryTexts
           /\ Number(numeric_text(Numerals[n]), default) = Numerals[n]
<1> DEFINE m == CHOOSE k \in DOMAIN Numerals : Numerals[k] = Numerals[n]
<1>1. m \in DOMAIN Numerals /\ Numerals[m] = Numerals[n]
  OBVIOUS
<1>2. numeric_text(Numerals[n]) = <<m>>
  BY DEF numeric_text
<1> HIDE DEF m
<1>3. <<m>> \in EntryTexts
  <2>1. <<m>> \in FirstTexts
    BY <1>1 DEF FirstTexts
  <2> QED
    BY <2>1, FirstIsEntry, Zenon
<1>4. <<m>> # <<"inf">>
  <2>1. m # "inf"
    BY <1>1 DEF Numerals
  <2> QED
    BY <2>1
<1>5. Number(<<m>>, default) = Numerals[m]
  <2>1. Len(<<m>>) = 1 /\ <<m>>[1] = m
    OBVIOUS
  <2> QED
    BY <1>1, <1>4, <2>1 DEF Number
<1> QED
  BY <1>1, <1>2, <1>3, <1>5, Zenon

LEMMA AgeKept ==
    ASSUME NEW f, f.field \in DOMAIN DateTypes, f.value # <<"inf">>
    PROVE  \E c : Kept(f, c)
<1> DEFINE n == Number(f.value, "4")
           date == DateTypes[f.field]
           c == [type |-> "age", operator |-> age_operator(f.operator), value |-> n,
                 unit |-> time_unit(f.unit), date_type |-> date]
<1>1. condition_json(f) = <<c>>
  BY NotDates, Zenon DEF condition_json
<1>2. Plain(c)
  <2>1. "age" \in Types /\ OperatorsOf["age"] = "age"
    BY DEF Types, OperatorsOf
  <2>2. DOMAIN FieldDefaults["age"] = {"unit", "date_type"}
    BY DEF FieldDefaults
  <2> HIDE DEF n, date
  <2> QED
    BY <2>1, <2>2, WrittenNames DEF Plain
<1>3. PICK m \in DOMAIN Numerals : n = Numerals[m]
  <2>1. "4" \in DOMAIN Numerals
    BY DEF Numerals
  <2> QED
    BY <2>1, NumberIs
<1>4. numeric_text(n) \in EntryTexts /\ Number(numeric_text(n), "4") = n
  BY <1>3, NumberBack, Zenon
<1>5. /\ c.type = "age" /\ c.operator = age_operator(f.operator) /\ c.value = n
      /\ c.unit = time_unit(f.unit) /\ c.date_type = date /\ "value" \in DOMAIN c
      /\ \A o : \A u : o = c.operator /\ u = c.unit =>
            [type |-> "age", operator |-> o, value |-> n, unit |-> u, date_type |-> date] = c
  OBVIOUS
<1> HIDE DEF c, n
<1>6. FieldOf(c) = f.field
  <2>1. FieldOf(c) = CASE date = "created" -> "Date created"
                       [] date = "accessed" -> "Date opened"
                       [] OTHER -> "Date modified"
    BY <1>5 DEF FieldOf
  <2>2. f.field \in {"Date modified", "Date created", "Date opened"}
    BY DEF DateTypes
  <2>3. date = CASE f.field = "Date created" -> "created"
                 [] f.field = "Date opened" -> "accessed" [] OTHER -> "modified"
    BY <2>2 DEF DateTypes
  <2> HIDE DEF date
  <2> QED
    BY <2>1, <2>2, <2>3
<1> HIDE DEF date
<1>7. ASSUME NEW h, IsForm(h)
      PROVE  /\ load_condition_widgets(h, c).value \in EntryTexts
             /\ condition_json(load_condition_widgets(h, c)) = <<c>>
  <2> DEFINE g == load_condition_widgets(h, c)
  <2>1. /\ g.field = f.field /\ g.operator = age_op_index(c.operator)
        /\ g.value = numeric_text(n) /\ g.unit = TimeLabel(c.unit)
    BY <1>5, <1>6, <1>7, ShownRows
  <2> HIDE DEF g
  <2>2. condition_json(g) = <<[type |-> "age", operator |-> age_operator(g.operator),
                               value |-> Number(g.value, "4"), unit |-> time_unit(g.unit),
                               date_type |-> DateTypes[g.field]]>>
    BY <2>1, NotDates, Zenon DEF condition_json
  <2>3. /\ age_operator(g.operator) = c.operator /\ time_unit(g.unit) = c.unit
        /\ Number(g.value, "4") = n /\ DateTypes[g.field] = date
    BY <1>4, <1>5, <2>1, LabelsBack, Zenon DEF date
  <2> QED
    BY <1>4, <1>5, <2>1, <2>2, <2>3, Zenon DEF g
<1> QED
  BY <1>1, <1>2, <1>5, <1>7, Zenon DEF Kept

LEMMA SizeKept ==
    ASSUME NEW f, f.field = "Size", f.value # <<"inf">>
    PROVE  \E c : Kept(f, c)
<1> DEFINE n == Number(f.value, "10")
           c == [type |-> "size", operator |-> size_operator(f.operator), range |-> FALSE,
                 value |-> <<n>>, unit |-> size_unit(f.unit)]
<1>1. condition_json(f) = <<c>>
  BY NotDates, Zenon DEF condition_json
<1>2. Plain(c)
  <2>1. "size" \in Types /\ OperatorsOf["size"] = "size"
    BY DEF Types, OperatorsOf
  <2>2. DOMAIN FieldDefaults["size"] = {"unit"}
    BY DEF FieldDefaults
  <2> HIDE DEF n
  <2> QED
    BY <2>1, <2>2, WrittenNames DEF Plain
<1>3. PICK m \in DOMAIN Numerals : n = Numerals[m]
  <2>1. "10" \in DOMAIN Numerals
    BY DEF Numerals
  <2> QED
    BY <2>1, NumberIs
<1>4. numeric_text(n) \in EntryTexts /\ Number(numeric_text(n), "10") = n
  BY <1>3, NumberBack, Zenon
<1>5. /\ c.type = "size" /\ c.operator = size_operator(f.operator) /\ c.value = <<n>>
      /\ c.unit = size_unit(f.unit) /\ c.range = FALSE /\ "value" \in DOMAIN c
      /\ \A o : \A u : o = c.operator /\ u = c.unit =>
            [type |-> "size", operator |-> o, range |-> FALSE, value |-> <<n>>,
             unit |-> u] = c
  OBVIOUS
<1>6. c.value[1] = n
  BY <1>5
<1> HIDE DEF c, n
<1>7. ASSUME NEW h, IsForm(h)
      PROVE  /\ load_condition_widgets(h, c).value \in EntryTexts
             /\ condition_json(load_condition_widgets(h, c)) = <<c>>
  <2> DEFINE g == load_condition_widgets(h, c)
  <2>1. /\ g.field = FieldOf(c) /\ g.operator = size_op_index(c.operator)
        /\ g.value = numeric_text(n) /\ g.unit = SizeLabel(c.unit)
    BY <1>5, <1>6, <1>7, ShownRows
  <2>2. g.field = "Size"
    BY <1>5, <2>1, Zenon DEF FieldOf
  <2> HIDE DEF g
  <2>3. condition_json(g) = <<[type |-> "size", operator |-> size_operator(g.operator),
                               range |-> FALSE, value |-> <<Number(g.value, "10")>>,
                               unit |-> size_unit(g.unit)]>>
    BY <2>2, NotDates, Zenon DEF condition_json
  <2>4. /\ size_operator(g.operator) = c.operator /\ size_unit(g.unit) = c.unit
        /\ Number(g.value, "10") = n
    BY <1>4, <1>5, <2>1, LabelsBack, Zenon
  <2> QED
    BY <1>4, <1>5, <2>1, <2>3, <2>4, Zenon DEF g
<1> QED
  BY <1>1, <1>2, <1>5, <1>7, Zenon DEF Kept

LEMMA ConditionKept ==
    ASSUME NEW f, IsForm(f), f.value \in EntryTexts, ~IsInfinite(f), f.field # "Any file"
    PROVE  \E c : Kept(f, c)
<1>1. f.field \in Fields
  BY FormRead, Zenon
<1>2. f.field \in DOMAIN DateTypes \cup {"Size"} => f.value # <<"inf">>
  BY DEF IsInfinite
<1> QED
  BY <1>1, <1>2, NameKept, ExtensionKept, KindKept, ContentKept, DirectoryKept, AgeKept, SizeKept
     DEF Fields

(* The condition depends on four rows. *)
LEMMA SameQuestion ==
    ASSUME NEW f, NEW g, f.field \in Fields, g.field = f.field, g.operator = f.operator,
           g.value = f.value, g.unit = f.unit
    PROVE  condition_json(g) = condition_json(f)
BY Zenon DEF condition_json

(* So it is read and written as an item of a group. *)
LEMMA ItemKept ==
    ASSUME NEW f, IsForm(f), f.value \in EntryTexts, NEW c, Kept(f, c)
    PROVE  /\ deserialize_item(c) = deserialize(c)
           /\ serialize_item(deserialize(c)) = c
           /\ deserialize_item(c) # Rejected
<1> DEFINE field == f.field
           operator == f.operator
           value == f.value
           unit == f.unit
           g == [field |-> field, operator |-> operator, value |-> value, unit |-> unit]
<1>1. field \in Fields /\ operator \in Operators /\ unit \in Units /\ value \in EntryTexts
  BY FormRead, Zenon
<1>2. condition_json(g) = <<c>>
  <2>1. g.field = f.field /\ g.operator = f.operator /\ g.value = f.value /\ g.unit = f.unit
    OBVIOUS
  <2>2. condition_json(f) = <<c>>
    BY DEF Kept
  <2> HIDE DEF g
  <2> QED
    BY <1>1, <2>1, <2>2, SameQuestion, Zenon
<1>3. c \in ToSet(condition_json(g))
  <2> HIDE DEF g
  <2>1. ToSet(<<c>>) = {c}
    BY DEF ToSet
  <2> QED
    BY <1>2, <2>1
<1> HIDE DEF field, operator, value, unit
<1>4. /\ deserialize_item(c) = deserialize(c)
      /\ serialize_item(deserialize(c)) = serialize(deserialize(c))
  BY <1>1, <1>3, EditorItemsAssumption, Zenon
<1>5. /\ serialize(deserialize(c)) = c /\ deserialize(c).type = c.type
  BY PlainRead, Zenon DEF Kept
<1>6. deserialize(c) # Rejected
  <2>1. c.type \in Types
    BY Zenon DEF Kept, Plain
  <2>2. c.type # "rejected"
    BY <2>1 DEF Types, OperatorsOf
  <2>3. Rejected.type = "rejected"
    BY DEF Rejected
  <2> QED
    BY <1>5, <2>2, <2>3, Zenon
<1> QED
  BY <1>4, <1>5, <1>6, Zenon
-----------------------------------------------------------------------------
(* The rule: made of a form, shown and made again *)

(* The group around the condition of a form. *)
GroupOf(match, items) == [type |-> "group", match |-> match, items |-> items]

BothWays(items, read) ==
    /\ read = [i \in DOMAIN items |-> deserialize_item(items[i])]
    /\ ~Contains(read, Rejected)
    /\ items = [i \in DOMAIN read |-> serialize_item(read[i])]

LEMMA GroupRead ==
    ASSUME NEW match, NEW items, NEW read, BothWays(items, read)
    PROVE  /\ deserialize(GroupOf(match, items)) = GroupOf(match, read)
           /\ serialize(GroupOf(match, read)) = GroupOf(match, items)
<1> DEFINE j == GroupOf(match, items)
           k == GroupOf(match, read)
<1>0. /\ read = [i \in DOMAIN items |-> deserialize_item(items[i])]
      /\ ~Contains(read, Rejected)
      /\ items = [i \in DOMAIN read |-> serialize_item(read[i])]
  BY Zenon DEF BothWays
<1>1. /\ DOMAIN j = {"type", "match", "items"} /\ j.type = "group" /\ j.items = items
      /\ j = [x \in DOMAIN j |-> j[x]] /\ [j EXCEPT !.items = read] = k
      /\ k.type = "group" /\ k.items = read /\ [k EXCEPT !.items = items] = j
  BY DEF GroupOf
<1> HIDE DEF j, k
<1>2. /\ "group" \in Types /\ DOMAIN FieldDefaults["group"] = {"match", "items"}
      /\ "group" \notin DOMAIN OperatorsOf
  BY DEF Types, FieldDefaults, OperatorsOf
<1>3. Filled(j) = j
  <2>1. type_of(j) = "group"
    BY <1>1 DEF type_of, TypeAliases
  <2>2. "group" \in DOMAIN FieldDefaults
    BY DEF FieldDefaults
  <2>3. Filled(j) = [x \in DOMAIN j \cup DOMAIN FieldDefaults["group"] |->
                       IF x = "type" THEN "group" ELSE IF x \in DOMAIN j THEN j[x]
                       ELSE FieldDefaults["group"][x]]
    BY <2>1, <2>2 DEF Filled
  <2> QED
    BY <1>1, <1>2, <2>3
<1>4. deserialize(j) = k
  <2> DEFINE names == ReadAs[OperatorsOf[j.type]]
             other == [j EXCEPT !.operator = names[j.operator]]
             group == [j EXCEPT !.items = read]
  <2>1. read = [i \in DOMAIN j.items |-> deserialize_item(j.items[i])]
    BY <1>0, <1>1, Zenon
  <2>2. deserialize(j) =
          CASE j.type \notin Types -> Rejected
            [] j.type = "group" -> IF Contains(read, Rejected) THEN Rejected ELSE group
            [] j.type \in DOMAIN OperatorsOf ->
                 IF j.operator \notin DOMAIN names THEN Rejected ELSE other
            [] OTHER -> j
    BY <1>3, <2>1, Zenon DEF deserialize
  <2>3. group = k
    BY <1>1
  <2> HIDE DEF names, other, group
  <2>4. deserialize(j) = IF Contains(read, Rejected) THEN Rejected ELSE group
    <3>1. j.type = "group"
      BY <1>1
    <3> QED
      BY <1>2, <2>2, <3>1, Zenon
  <2>5. deserialize(j) = group
    BY <1>0, <2>4
  <2> QED
    BY <2>3, <2>5
<1>5. serialize(k) = j
  <2> DEFINE other == [k EXCEPT !.operator = WrittenAs[OperatorsOf[k.type]][k.operator]]
             group == [k EXCEPT !.items = items]
  <2>1. items = [i \in DOMAIN k.items |-> serialize_item(k.items[i])]
    <3>1. k.items = read
      BY <1>1, Zenon
    <3> QED
      BY <1>0, <3>1
  <2>2. serialize(k) = CASE k.type = "group" -> group
                         [] k.type \in DOMAIN OperatorsOf -> other
                         [] OTHER -> k
    BY <2>1, Zenon DEF serialize
  <2>3. group = j
    BY <1>1
  <2> HIDE DEF other, group
  <2>4. serialize(k) = group
    <3>1. k.type = "group"
      BY <1>1
    <3> QED
      BY <1>2, <2>2, <3>1, Zenon
  <2> QED
    BY <2>3, <2>4
<1> QED
  BY <1>4, <1>5 DEF j, k

(* The condition of a rule that is made of a form, as it is read and as it is
   written. *)
LEMMA NoneRead ==
    ASSUME NEW match, NEW items, items = <<>>
    PROVE  /\ deserialize(GroupOf(match, items)) = GroupOf(match, items)
           /\ serialize(GroupOf(match, items)) = GroupOf(match, items)
<1>1. /\ items = [i \in DOMAIN items |-> deserialize_item(items[i])]
      /\ items = [i \in DOMAIN items |-> serialize_item(items[i])]
  OBVIOUS
<1>2. ~Contains(items, Rejected)
  BY DEF Contains
<1>3. BothWays(items, items)
  BY <1>1, <1>2, Zenon DEF BothWays
<1> QED
  BY <1>3, GroupRead, Zenon

LEMMA OneRead ==
    ASSUME NEW match, NEW c, NEW d, deserialize_item(c) = d, serialize_item(d) = c, d # Rejected
    PROVE  /\ deserialize(GroupOf(match, <<c>>)) = GroupOf(match, <<d>>)
           /\ serialize(GroupOf(match, <<d>>)) = GroupOf(match, <<c>>)
<1>1. /\ [i \in DOMAIN <<c>> |-> deserialize_item(<<c>>[i])] = <<d>>
      /\ [i \in DOMAIN <<d>> |-> serialize_item(<<d>>[i])] = <<c>>
  OBVIOUS
<1>2. ~Contains(<<d>>, Rejected)
  BY DEF Contains
<1>3. BothWays(<<c>>, <<d>>)
  BY <1>1, <1>2, Zenon DEF BothWays
<1> QED
  BY <1>3, GroupRead, Zenon

(* The action of the form, written, shown and written again. *)
LEMMA ShownAction ==
    ASSUME NEW h, IsForm(h), NEW a, NEW g, g = load_action_widgets(h, a)
    PROVE  /\ g.action = IF a.type \in DOMAIN ActionLabels THEN ActionLabels[a.type] ELSE "Ignore"
           /\ a.type \in {"move", "copy"} => g.text = a.destination /\ g.conflict = a.on_conflict
           /\ a.type = "rename" => g.text = a.pattern /\ g.conflict = a.on_conflict
           /\ a.type = "notify" => g.text = a.body
           /\ a.type = "run_script" => g.text = a.command
           /\ a.type = "log" => g.text = a.message
<1> DEFINE label == IF a.type \in DOMAIN ActionLabels THEN ActionLabels[a.type] ELSE "Ignore"
           shown == [h EXCEPT !.action = label]
           rows  == configure_action_rows(shown)
<1>0. {"action", "text", "conflict"} \subseteq FormRows
  BY DEF FormRows
<1>1. DOMAIN shown = FormRows /\ shown.action = label
  <2>1. DOMAIN h = FormRows
    BY FormRead, Zenon
  <2> HIDE DEF label
  <2> QED
    BY <1>0, <2>1
<1> HIDE DEF label, shown
<1>2. DOMAIN rows = FormRows /\ rows.action = label
  <2>1. CASE shown.action \in DOMAIN ActionTexts
    <3>1. rows = [shown EXCEPT !.text = ActionTexts[shown.action]]
      BY <2>1 DEF configure_action_rows
    <3> HIDE DEF rows
    <3> QED
      BY <1>0, <1>1, <3>1
  <2>2. CASE shown.action \notin DOMAIN ActionTexts
    <3>1. rows = shown
      BY <2>2 DEF configure_action_rows
    <3> QED
      BY <1>1, <3>1
  <2> QED
    BY <2>1, <2>2
<1> HIDE DEF rows
<1>3. CASE a.type \in {"move", "copy"}
  <2>1. g = [rows EXCEPT !.text = a.destination, !.conflict = a.on_conflict]
    BY <1>3, Zenon DEF load_action_widgets, rows, shown, label
  <2>2. g.action = label /\ g.text = a.destination /\ g.conflict = a.on_conflict
    BY <1>0, <1>2, <2>1
  <2> QED
    BY <1>3, <2>2 DEF label
<1>4. CASE a.type = "rename"
  <2>1. g = [rows EXCEPT !.text = a.pattern, !.conflict = a.on_conflict]
    BY <1>4, Zenon DEF load_action_widgets, rows, shown, label
  <2>2. g.action = label /\ g.text = a.pattern /\ g.conflict = a.on_conflict
    BY <1>0, <1>2, <2>1
  <2> QED
    BY <1>4, <2>2 DEF label
<1>5. CASE a.type = "notify"
  <2>1. g = [rows EXCEPT !.text = a.body]
    BY <1>5, Zenon DEF load_action_widgets, rows, shown, label
  <2>2. g.action = label /\ g.text = a.body
    BY <1>0, <1>2, <2>1
  <2> QED
    BY <1>5, <2>2 DEF label
<1>6. CASE a.type = "run_script"
  <2>1. g = [rows EXCEPT !.text = a.command]
    BY <1>6, Zenon DEF load_action_widgets, rows, shown, label
  <2>2. g.action = label /\ g.text = a.command
    BY <1>0, <1>2, <2>1
  <2> QED
    BY <1>6, <2>2 DEF label
<1>7. CASE a.type = "log"
  <2>1. g = [rows EXCEPT !.text = a.message]
    BY <1>7, Zenon DEF load_action_widgets, rows, shown, label
  <2>2. g.action = label /\ g.text = a.message
    BY <1>0, <1>2, <2>1
  <2> QED
    BY <1>7, <2>2 DEF label
<1>8. CASE a.type \notin {"move", "copy", "rename", "notify", "run_script", "log"}
  <2>1. g = rows
    BY <1>8, Zenon DEF load_action_widgets, rows, shown, label
  <2> QED
    BY <1>2, <1>8, <2>1 DEF label
<1> QED
  BY <1>3, <1>4, <1>5, <1>6, <1>7, <1>8

(* What the entry of the action means, and that it means it again. *)
TextOf(text, default) == IF text = "" THEN default ELSE text

LEMMA ActionBack ==
    ASSUME NEW f, f.action \in Actions, NEW h, IsForm(h), NEW g,
           g = load_action_widgets(h, action_json(f))
    PROVE  action_json(g) = action_json(f)
<1> DEFINE a == action_json(f)
<1>0. /\ g.action = IF a.type \in DOMAIN ActionLabels THEN ActionLabels[a.type] ELSE "Ignore"
      /\ a.type \in {"move", "copy"} => g.text = a.destination /\ g.conflict = a.on_conflict
      /\ a.type = "rename" => g.text = a.pattern /\ g.conflict = a.on_conflict
      /\ a.type = "notify" => g.text = a.body
      /\ a.type = "run_script" => g.text = a.command
      /\ a.type = "log" => g.text = a.message
  <2> HIDE DEF a
  <2> QED
    BY ShownAction DEF a
<1>1. \A t, d : TextOf(TextOf(t, d), d) = TextOf(t, d)
  BY Zenon DEF TextOf
<1>2. \A t, d : d # "" => TextOf(t, d) # ""
  BY DEF TextOf
<1>3. CASE f.action \in {"Sort into subfolder", "Move"}
  <2> DEFINE t == TextOf(f.text, "organized by kind")
  <2>1. a = [type |-> "move", destination |-> t, on_conflict |-> f.conflict,
             create_parents |-> TRUE]
    BY <1>3 DEF action_json, TextOf
  <2> HIDE DEF a
  <2>2. a.type = "move" /\ a.destination = t /\ a.on_conflict = f.conflict
    BY <2>1
  <2>3. "move" \in DOMAIN ActionLabels /\ ActionLabels["move"] = "Move"
    BY DEF ActionLabels
  <2>4. g.action = "Move" /\ g.text = t /\ g.conflict = f.conflict
    BY <1>0, <2>2, <2>3
  <2>5. action_json(g) = [type |-> "move", destination |-> TextOf(g.text, "organized by kind"),
                          on_conflict |-> g.conflict, create_parents |-> TRUE]
    BY <2>4 DEF action_json, TextOf
  <2>6. TextOf(g.text, "organized by kind") = t
    <3>1. TextOf(TextOf(f.text, "organized by kind"), "organized by kind") = TextOf(f.text, "organized by kind")
      BY <1>1
    <3> QED
      BY <2>4, <3>1
  <2> HIDE DEF t
  <2> QED
    BY <2>1, <2>4, <2>5, <2>6, Zenon DEF a
<1>4. CASE f.action = "Copy"
  <2> DEFINE t == TextOf(f.text, "organized by kind")
  <2>1. a = [type |-> "copy", destination |-> t, on_conflict |-> f.conflict,
             create_parents |-> TRUE]
    BY <1>4 DEF action_json, TextOf
  <2> HIDE DEF a
  <2>2. a.type = "copy" /\ a.destination = t /\ a.on_conflict = f.conflict
    BY <2>1
  <2>3. "copy" \in DOMAIN ActionLabels /\ ActionLabels["copy"] = "Copy"
    BY DEF ActionLabels
  <2>4. g.action = "Copy" /\ g.text = t /\ g.conflict = f.conflict
    BY <1>0, <2>2, <2>3
  <2>5. action_json(g) = [type |-> "copy", destination |-> TextOf(g.text, "organized by kind"),
                          on_conflict |-> g.conflict, create_parents |-> TRUE]
    BY <2>4 DEF action_json, TextOf
  <2>6. TextOf(g.text, "organized by kind") = t
    <3>1. TextOf(TextOf(f.text, "organized by kind"), "organized by kind") = TextOf(f.text, "organized by kind")
      BY <1>1
    <3> QED
      BY <2>4, <3>1
  <2> HIDE DEF t
  <2> QED
    BY <2>1, <2>4, <2>5, <2>6, Zenon DEF a
<1>5. CASE f.action = "Rename"
  <2> DEFINE t == TextOf(f.text, "sorted")
  <2>1. a = [type |-> "rename", pattern |-> t, on_conflict |-> f.conflict]
    BY <1>5 DEF action_json, TextOf
  <2> HIDE DEF a
  <2>2. a.type = "rename" /\ a.pattern = t /\ a.on_conflict = f.conflict
    BY <2>1
  <2>3. "rename" \in DOMAIN ActionLabels /\ ActionLabels["rename"] = "Rename"
    BY DEF ActionLabels
  <2>4. g.action = "Rename" /\ g.text = t /\ g.conflict = f.conflict
    BY <1>0, <2>2, <2>3
  <2>5. action_json(g) = [type |-> "rename", pattern |-> TextOf(g.text, "sorted"),
                          on_conflict |-> g.conflict]
    BY <2>4 DEF action_json, TextOf
  <2>6. TextOf(g.text, "sorted") = t
    <3>1. TextOf(TextOf(f.text, "sorted"), "sorted") = TextOf(f.text, "sorted")
      BY <1>1
    <3> QED
      BY <2>4, <3>1
  <2> HIDE DEF t
  <2> QED
    BY <2>1, <2>4, <2>5, <2>6, Zenon DEF a
<1>6. CASE f.action = "Display notification"
  <2> DEFINE t == TextOf(f.text, "matched")
  <2>1. a = [type |-> "notify", title |-> "Doumi", body |-> t]
    BY <1>6 DEF action_json, TextOf
  <2> HIDE DEF a
  <2>2. a.type = "notify" /\ a.body = t
    BY <2>1
  <2>3. "notify" \in DOMAIN ActionLabels /\ ActionLabels["notify"] = "Display notification"
    BY DEF ActionLabels
  <2>4. g.action = "Display notification" /\ g.text = t
    BY <1>0, <2>2, <2>3
  <2>5. action_json(g) = [type |-> "notify", title |-> "Doumi",
                          body |-> TextOf(g.text, "matched")]
    BY <2>4 DEF action_json, TextOf
  <2>6. TextOf(g.text, "matched") = t
    <3>1. TextOf(TextOf(f.text, "matched"), "matched") = TextOf(f.text, "matched")
      BY <1>1
    <3> QED
      BY <2>4, <3>1
  <2> HIDE DEF t
  <2> QED
    BY <2>1, <2>4, <2>5, <2>6, Zenon DEF a
<1>7. CASE f.action = "Run shell script"
  <2> DEFINE t == TextOf(f.text, "process-file.sh")
  <2>1. a = [type |-> "run_script", command |-> t, args |-> <<"{path}">>,
             interpreter |-> "bash"]
    BY <1>7 DEF action_json, TextOf
  <2> HIDE DEF a
  <2>2. a.type = "run_script" /\ a.command = t
    BY <2>1
  <2>3. "run_script" \in DOMAIN ActionLabels /\ ActionLabels["run_script"] = "Run shell script"
    BY DEF ActionLabels
  <2>4. g.action = "Run shell script" /\ g.text = t
    BY <1>0, <2>2, <2>3
  <2>5. action_json(g) = [type |-> "run_script", command |-> TextOf(g.text, "process-file.sh"),
                          args |-> <<"{path}">>, interpreter |-> "bash"]
    BY <2>4 DEF action_json, TextOf
  <2>6. TextOf(g.text, "process-file.sh") = t
    <3>1. TextOf(TextOf(f.text, "process-file.sh"), "process-file.sh") = TextOf(f.text, "process-file.sh")
      BY <1>1
    <3> QED
      BY <2>4, <3>1
  <2> HIDE DEF t
  <2> QED
    BY <2>1, <2>4, <2>5, <2>6, Zenon DEF a
<1>8. CASE f.action \in {"Log", "Ignore"}
  <2>1. PICK t : t # "" /\ a = [type |-> "log", message |-> t]
    <3>1. CASE f.action = "Log"
      <4>1. a = [type |-> "log", message |-> TextOf(f.text, "matched")]
        BY <3>1 DEF action_json, TextOf
      <4> QED
        BY <1>1, <1>2, <4>1, Zenon
    <3>2. CASE f.action = "Ignore"
      <4>1. a = [type |-> "log", message |-> "ignored"] /\ "ignored" # ""
        BY <3>2 DEF action_json
      <4> QED
        BY <4>1, Zenon
    <3> QED
      BY <1>8, <3>1, <3>2
  <2> HIDE DEF a
  <2>2. a.type = "log" /\ a.message = t
    BY <2>1
  <2>3. "log" \in DOMAIN ActionLabels /\ ActionLabels["log"] = "Log"
    BY DEF ActionLabels
  <2>4. g.action = "Log" /\ g.text = t
    BY <1>0, <2>2, <2>3
  <2>5. action_json(g) = [type |-> "log", message |-> TextOf(g.text, "matched")]
    BY <2>4 DEF action_json, TextOf
  <2>6. TextOf(t, "matched") = t
    BY <2>1 DEF TextOf
  <2> QED
    BY <2>1, <2>4, <2>5, <2>6, Zenon DEF a
<1>9. CASE f.action = "Trash"
  <2>1. a = [type |-> "trash"]
    BY <1>9 DEF action_json
  <2> HIDE DEF a
  <2>2. a.type = "trash"
    BY <2>1
  <2>3. "trash" \in DOMAIN ActionLabels /\ ActionLabels["trash"] = "Trash"
    BY DEF ActionLabels
  <2>4. g.action = "Trash"
    BY <1>0, <2>2, <2>3
  <2>5. action_json(g) = [type |-> "trash"]
    BY <2>4 DEF action_json
  <2> QED
    BY <2>1, <2>5 DEF a
<1>10. CASE f.action = "Delete permanently"
  <2>1. a = [type |-> "delete", recursive |-> FALSE]
    BY <1>10 DEF action_json
  <2> HIDE DEF a
  <2>2. a.type = "delete"
    BY <2>1
  <2>3. "delete" \in DOMAIN ActionLabels /\ ActionLabels["delete"] = "Delete permanently"
    BY DEF ActionLabels
  <2>4. g.action = "Delete permanently"
    BY <1>0, <2>2, <2>3
  <2>5. action_json(g) = [type |-> "delete", recursive |-> FALSE]
    BY <2>4 DEF action_json
  <2> QED
    BY <2>1, <2>5 DEF a
<1>11. CASE f.action = "Open"
  <2>1. a = [type |-> "open"]
    BY <1>11 DEF action_json
  <2> HIDE DEF a
  <2>2. a.type = "open"
    BY <2>1
  <2>3. "open" \in DOMAIN ActionLabels /\ ActionLabels["open"] = "Open"
    BY DEF ActionLabels
  <2>4. g.action = "Open"
    BY <1>0, <2>2, <2>3
  <2>5. action_json(g) = [type |-> "open"]
    BY <2>4 DEF action_json
  <2> QED
    BY <2>1, <2>5 DEF a
<1>12. f.action \in {"Sort into subfolder", "Move", "Copy", "Rename", "Display notification",
                     "Run shell script", "Log", "Trash", "Delete permanently", "Open", "Ignore"}
  BY DEF Actions, ActionTexts
<1> QED
  BY <1>3, <1>4, <1>5, <1>6, <1>7, <1>8, <1>9, <1>10, <1>11, <1>12, Zenon

(* A rule as the dialog makes it, by its parts. *)
FolderOf(path, recursive, depth) ==
    [path |-> path, recursive |-> recursive, depth |-> depth, allow_project_roots |-> FALSE]
TriggersOf(on_add, on_modify) ==
    [on_add |-> on_add, on_modify |-> on_modify, on_delete |-> FALSE, schedule |-> ""]
RuleWith(name, enabled, priority, folder, triggers, conditions, action, continue_matching) ==
    [name |-> name, enabled |-> enabled, priority |-> priority, folders |-> <<folder>>,
     triggers |-> triggers, conditions |-> conditions, actions |-> <<action>>,
     continue_matching |-> continue_matching]

LEMMA BuildIs ==
    ASSUME NEW f
    PROVE  build_rule_json(f) =
             RuleWith(f.name, f.enabled, f.priority,
                      FolderOf(folder_path(f), f.recursive, f.depth),
                      TriggersOf(f.on_add, f.on_modify),
                      deserialize(GroupOf(f.match, condition_json(f))), action_json(f),
                      f.continue_matching)
BY Zenon DEF build_rule_json, RuleWith, FolderOf, TriggersOf, GroupOf

LEMMA PartsAre ==
    ASSUME NEW f, NEW b, b = build_rule_json(f)
    PROVE  /\ b.name = f.name /\ b.enabled = f.enabled /\ b.priority = f.priority
           /\ b.folders = <<FolderOf(folder_path(f), f.recursive, f.depth)>>
           /\ b.folders # <<>> /\ b.folders[1].path = folder_path(f)
           /\ b.folders[1].recursive = f.recursive /\ b.folders[1].depth = f.depth
           /\ b.triggers.on_add = f.on_add /\ b.triggers.on_modify = f.on_modify
           /\ b.conditions = deserialize(GroupOf(f.match, condition_json(f)))
           /\ b.actions # <<>> /\ b.actions[1] = action_json(f)
           /\ b.continue_matching = f.continue_matching
           /\ b # NoRule
<1> DEFINE folder == FolderOf(folder_path(f), f.recursive, f.depth)
           triggers == TriggersOf(f.on_add, f.on_modify)
           conditions == deserialize(GroupOf(f.match, condition_json(f)))
           action == action_json(f)
<1>1. b = RuleWith(f.name, f.enabled, f.priority, folder, triggers, conditions, action,
                   f.continue_matching)
  BY BuildIs, Zenon
<1>2. /\ folder.path = folder_path(f) /\ folder.recursive = f.recursive
      /\ folder.depth = f.depth
      /\ triggers.on_add = f.on_add /\ triggers.on_modify = f.on_modify
  BY DEF FolderOf, TriggersOf
<1> HIDE DEF folder, triggers, conditions, action
<1>3. /\ b.name = f.name /\ b.enabled = f.enabled /\ b.priority = f.priority
      /\ b.folders = <<folder>> /\ b.triggers = triggers /\ b.conditions = conditions
      /\ b.actions = <<action>> /\ b.continue_matching = f.continue_matching
      /\ "name" \in DOMAIN b
  BY <1>1 DEF RuleWith
<1>4. DOMAIN NoRule = {"id"}
  BY DEF NoRule
<1>5. b # NoRule
  BY <1>3, <1>4
<1>6. /\ <<folder>> # <<>> /\ <<folder>>[1] = folder
      /\ <<action>> # <<>> /\ <<action>>[1] = action
  OBVIOUS
<1>7. /\ b.folders # <<>> /\ b.folders[1].path = folder_path(f)
      /\ b.folders[1].recursive = f.recursive /\ b.folders[1].depth = f.depth
      /\ b.triggers.on_add = f.on_add /\ b.triggers.on_modify = f.on_modify
      /\ b.actions # <<>> /\ b.actions[1] = action
  BY <1>2, <1>3, <1>6, Zenon
<1> QED
  BY <1>3, <1>5, <1>7, Zenon DEF folder, conditions, action

(* A rule that is saved watches one folder, of the user. *)
LEMMA SavedFolder ==
    ASSUME NEW f, IsForm(f)
    PROVE  IsRule(build_rule_json(f))
<1> DEFINE folder == FolderOf(folder_path(f), f.recursive, f.depth)
           b == build_rule_json(f)
<1>1. folder_path(f) \in UserPaths \ {<<>>}
  BY StandardAreUsers DEF folder_path, IsForm
<1>2. f.recursive \in BOOLEAN /\ f.depth \in Int /\ f.priority \in Int
  <2>1. f.recursive \in BOOLEAN /\ f.depth \in 1..25 /\ f.priority \in -100..100
    BY Zenon DEF IsForm
  <2> QED
    BY <2>1
<1>3. folder \in UserFolders
  BY <1>1, <1>2 DEF UserFolders, FolderOf
<1>4. b.folders = <<folder>> /\ b.priority = f.priority
  BY PartsAre, Zenon
<1> HIDE DEF folder, b
<1>5. b.folders \in Seq(UserFolders)
  BY <1>3, <1>4
<1> QED
  BY <1>2, <1>4, <1>5 DEF IsRule, b

(* The condition of such a rule, as it is kept and as it is written. *)
LEMMA BuiltCondition ==
    ASSUME NEW f, IsForm(f), f.value \in EntryTexts, NEW c, Kept(f, c), NEW b,
           b = build_rule_json(f)
    PROVE  /\ b.conditions = GroupOf(f.match, <<deserialize(c)>>)
           /\ serialize(b.conditions) = GroupOf(f.match, <<c>>)
<1>1. condition_json(f) = <<c>>
  BY DEF Kept
<1>2. b.conditions = deserialize(GroupOf(f.match, <<c>>))
  BY <1>1, PartsAre, Zenon
<1>3. /\ deserialize_item(c) = deserialize(c) /\ serialize_item(deserialize(c)) = c
      /\ deserialize(c) # Rejected
  BY ItemKept, Zenon
<1> QED
  BY <1>2, <1>3, OneRead

LEMMA BuiltNone ==
    ASSUME NEW f, f.field = "Any file", NEW b, b = build_rule_json(f)
    PROVE  /\ b.conditions = GroupOf(f.match, <<>>)
           /\ serialize(b.conditions) = GroupOf(f.match, <<>>)
<1>1. condition_json(f) = <<>>
  BY NotDates, Zenon DEF condition_json
<1>2. b.conditions = deserialize(GroupOf(f.match, <<>>))
  BY <1>1, PartsAre, Zenon
<1> QED
  BY <1>2, NoneRead, Zenon

LEMMA GroupFields ==
    ASSUME NEW match, NEW items
    PROVE  /\ GroupOf(match, items).type = "group" /\ GroupOf(match, items).match = match
           /\ GroupOf(match, items).items = items
BY DEF GroupOf

(* The condition such a rule is shown with. *)
LEMMA BuiltAsked ==
    ASSUME NEW f, IsForm(f), f.value \in EntryTexts, NEW c, Kept(f, c), NEW b,
           b = build_rule_json(f)
    PROVE  IsGroup(b) /\ Asked(b) = load_condition_widgets(Placed(b), c)
<1>1. serialize(b.conditions) = GroupOf(f.match, <<c>>)
  BY BuiltCondition, Zenon
<1>2. /\ serialize(b.conditions).type = "group" /\ serialize(b.conditions).items = <<c>>
  BY <1>1, GroupFields
<1>3. <<c>> # <<>> /\ <<c>>[1] = c
  OBVIOUS
<1> QED
  BY <1>2, <1>3, Zenon DEF IsGroup, Asked

(* What such a rule shows in the entry of the condition. *)
LEMMA BuiltValue ==
    ASSUME NEW f, IsForm(f), f.value \in EntryTexts, ~IsInfinite(f)
    PROVE  load_rule(build_rule_json(f)).value \in EntryTexts
<1> DEFINE b == build_rule_json(f)
<1>1. IsRule(b)
  BY SavedFolder, Zenon
<1>2. IsForm(Placed(b))
  BY <1>1, PlacedIs, Zenon
<1>3. Asked(b).value \in EntryTexts
  <2>1. CASE f.field = "Any file"
    <3>1. serialize(b.conditions).items = <<>>
      <4>1. serialize(b.conditions) = GroupOf(f.match, <<>>)
        BY <2>1, BuiltNone, Zenon
      <4> HIDE DEF b
      <4> QED
        BY <4>1, GroupFields
    <3>2. Asked(b) = configure_condition_rows(Placed(b))
      BY <3>1, Zenon DEF Asked
    <3>3. Filling(Placed(b), Asked(b))
      BY <1>2, <3>2, ConditionRows, Zenon
    <3> QED
      BY <3>3, FirstIsEntry, Zenon DEF Filling
  <2>2. CASE f.field # "Any file"
    <3>1. PICK c : Kept(f, c)
      BY <2>2, ConditionKept, Zenon
    <3>2. Asked(b) = load_condition_widgets(Placed(b), c)
      BY <3>1, BuiltAsked, Zenon
    <3> QED
      BY <1>2, <3>1, <3>2, Zenon DEF Kept
  <2> QED
    BY <2>1, <2>2, Zenon
<1>4. load_rule(b).value = Asked(b).value
  <2>1. Differ(Asked(b), load_rule(b), ActionRows) /\ DOMAIN Asked(b) = FormRows
    BY <1>1, LoadedIs, AskedIs, FormRead, Zenon
  <2>2. "value" \in FormRows \ ActionRows
    BY DEF FormRows, ActionRows
  <2> HIDE DEF b
  <2> QED
    BY <2>1, <2>2 DEF Differ
<1> QED
  BY <1>3, <1>4

LEMMA DepthKept == ASSUME NEW n, n \in 1..25 PROVE Clamp(n, 1, 25) = n
BY DEF Clamp

LEMMA PriorityKept == ASSUME NEW p, p \in -100..100 PROVE Clamp(p, -100, 100) = p
BY DEF Clamp

(* Shown and made into a rule again it is what it was. *)
LEMMA BuiltAgain ==
    ASSUME NEW f, IsForm(f), f.value \in EntryTexts, NEW c, Kept(f, c),
           c.type \in {"extension", "kind"} => c.value # <<>>
    PROVE  build_rule_json(load_rule(build_rule_json(f))) = build_rule_json(f)
<1> DEFINE b == build_rule_json(f)
           g == load_rule(b)
<1>0. b = build_rule_json(f)
  OBVIOUS
<1>1. IsRule(b)
  BY SavedFolder, Zenon
<1> HIDE DEF b, g
<1>2. IsForm(Placed(b)) /\ IsForm(Asked(b)) /\ IsForm(g)
  BY <1>1, PlacedIs, AskedIs, LoadedIs, Zenon DEF g
<1>3. IsGroup(b) /\ Asked(b) = load_condition_widgets(Placed(b), c)
  BY <1>0, BuiltAsked, Zenon
<1>4. /\ b.name = f.name /\ b.enabled = f.enabled /\ b.priority = f.priority
      /\ b.folders # <<>> /\ b.folders[1].path = folder_path(f)
      /\ b.folders[1].recursive = f.recursive /\ b.folders[1].depth = f.depth
      /\ b.triggers.on_add = f.on_add /\ b.triggers.on_modify = f.on_modify
      /\ b.actions # <<>> /\ b.actions[1] = action_json(f)
      /\ b.continue_matching = f.continue_matching
  <2>1. /\ b.name = f.name /\ b.enabled = f.enabled /\ b.priority = f.priority
        /\ b.folders # <<>> /\ b.folders[1].path = folder_path(f)
        /\ b.folders[1].recursive = f.recursive /\ b.folders[1].depth = f.depth
    BY <1>0, PartsAre
  <2>2. /\ b.triggers.on_add = f.on_add /\ b.triggers.on_modify = f.on_modify
        /\ b.actions # <<>> /\ b.actions[1] = action_json(f)
        /\ b.continue_matching = f.continue_matching
    BY <1>0, PartsAre
  <2> HIDE DEF b
  <2> QED
    BY <2>1, <2>2
<1>5. condition_json(g) = <<c>>
  <2>1. condition_json(Asked(b)) = <<c>>
    BY <1>2, <1>3, Zenon DEF Kept
  <2>2. Differ(Asked(b), g, ActionRows) /\ DOMAIN Asked(b) = FormRows
    BY <1>1, <1>2, LoadedIs, FormRead, Zenon DEF g
  <2>3. QuestionRows \cup {"field"} \subseteq FormRows \ ActionRows
    BY DEF FormRows, ActionRows, QuestionRows
  <2>4. /\ g.field = Asked(b).field /\ g.operator = Asked(b).operator
        /\ g.value = Asked(b).value /\ g.unit = Asked(b).unit
    BY <2>2, <2>3 DEF Differ, QuestionRows
  <2>5. Asked(b).field \in Fields
    BY <1>2, FormRead, Zenon
  <2> QED
    BY <2>1, <2>4, <2>5, SameQuestion, Zenon
<1>6. condition_json(f) = <<c>>
  BY DEF Kept
<1>7. action_json(g) = action_json(f)
  <2>1. g = load_action_widgets(Asked(b), action_json(f))
    BY <1>4, LoadIs, Zenon DEF g
  <2>2. f.action \in Actions
    BY FormRead, Zenon
  <2> QED
    BY <1>2, <2>1, <2>2, ActionBack, Zenon
<1>8. /\ folder_path(g) = folder_path(f) /\ g.recursive = f.recursive
      /\ g.depth = f.depth
  <2>1. /\ folder_path(g) = b.folders[1].path /\ g.recursive = b.folders[1].recursive
        /\ g.depth = Clamp(b.folders[1].depth, 1, 25)
    BY <1>1, <1>4, Loaded, Zenon DEF g
  <2>2. Clamp(f.depth, 1, 25) = f.depth
    <3>1. f.depth \in 1..25
      BY Zenon DEF IsForm
    <3> QED
      BY <3>1, DepthKept, Zenon
  <2> QED
    BY <1>4, <2>1, <2>2, Zenon
<1>9. /\ g.name = f.name /\ g.enabled = f.enabled /\ g.priority = f.priority
      /\ g.on_add = f.on_add /\ g.on_modify = f.on_modify /\ g.match = f.match
      /\ g.continue_matching = f.continue_matching
  <2> DEFINE rows == {"name", "enabled", "priority", "on_add", "on_modify", "match",
                      "continue_matching"}
  <2>1. /\ Basics(b).name = b.name /\ Basics(b).priority = Clamp(b.priority, -100, 100)
        /\ Basics(b).enabled = b.enabled /\ Basics(b).on_add = b.triggers.on_add
        /\ Basics(b).on_modify = b.triggers.on_modify
        /\ Basics(b).continue_matching = b.continue_matching
        /\ Basics(b).match = serialize(b.conditions).match
    BY <1>1, <1>3, BasicsAre, Zenon
  <2>2. \A row \in rows : g[row] = Basics(b)[row]
    <3>1. /\ rows \subseteq FormRows \ FolderRows
          /\ rows \subseteq FormRows \ (QuestionRows \cup {"field"} \cup ActionRows)
      BY DEF FormRows, FolderRows, QuestionRows, ActionRows
    <3>2. \A row \in FormRows \ (QuestionRows \cup {"field"} \cup ActionRows) :
             g[row] = Placed(b)[row]
      BY <1>1, LoadedRows, Zenon DEF g
    <3>3. Differ(Basics(b), Placed(b), FolderRows) /\ DOMAIN Basics(b) = FormRows
      BY <1>1, PlacedIs, BasicsAre, FormRead, Zenon
    <3> HIDE DEF rows
    <3> QED
      BY <3>1, <3>2, <3>3 DEF Differ
  <2>3. /\ g.name = Basics(b).name /\ g.enabled = Basics(b).enabled
        /\ g.priority = Basics(b).priority
        /\ g.on_add = Basics(b).on_add /\ g.on_modify = Basics(b).on_modify
        /\ g.match = Basics(b).match /\ g.continue_matching = Basics(b).continue_matching
    BY <2>2
  <2>4. Clamp(f.priority, -100, 100) = f.priority
    <3>1. f.priority \in -100..100
      BY Zenon DEF IsForm
    <3> QED
      BY <3>1, PriorityKept, Zenon
  <2>5. serialize(b.conditions).match = f.match
    <3>1. serialize(b.conditions) = GroupOf(f.match, <<c>>)
      BY <1>0, BuiltCondition, Zenon
    <3> QED
      BY <3>1, GroupFields
  <2> QED
    BY <1>4, <2>1, <2>3, <2>4, <2>5, Zenon
<1>10. build_rule_json(g) = build_rule_json(f)
  BY <1>5, <1>6, <1>7, <1>8, <1>9, BuildIs, Zenon
<1> QED
  BY <1>10 DEF b, g
-----------------------------------------------------------------------------
(* The dialogs *)

(* A folder shown and saved again lets nothing through that it did not. *)
LEMMA Narrower ==
    ASSUME NEW old \in UserFolders, NEW new \in UserFolders, NEW p \in UserPaths,
           new.path = old.path, new.recursive = old.recursive,
           new.depth = Clamp(old.depth, 1, 25), new.allow_project_roots = FALSE,
           evaluate_path_scope(UserTree, p, new) = "allowed"
    PROVE  evaluate_path_scope(UserTree, p, old) = "allowed"
<1> DEFINE deep == relative_depth(UserTree, p, old.path)
           hidden == find_project_root(UserTree, p, old.path) # <<>>
<1>1. deep \in Int
  <2>1. old.path \in UserPaths
    BY DEF UserFolders
  <2>2. Len(UserTree.canon[p]) \in Nat /\ Len(UserTree.canon[old.path]) \in Nat
    BY <2>1, EditorAssumption
  <2> QED
    BY <2>2 DEF relative_depth, NoDepth
<1>2. /\ old.depth \in Int /\ old.recursive \in BOOLEAN /\ old.allow_project_roots \in BOOLEAN
      /\ new.depth \in Int /\ new.depth > 0
      /\ old.depth > 0 => new.depth <= old.depth
  BY DEF UserFolders, Clamp
<1>3. /\ deep # NoDepth /\ ~(~old.recursive /\ deep > 1)
      /\ ~(old.recursive /\ deep > new.depth) /\ ~hidden
  <2>1. /\ relative_depth(UserTree, p, new.path) = deep
        /\ find_project_root(UserTree, p, new.path) # <<>> <=> hidden
    OBVIOUS
  <2> HIDE DEF deep, hidden
  <2>2. deep # NoDepth
    BY <2>1 DEF evaluate_path_scope
  <2>3. ~(~new.recursive /\ deep > 1)
    BY <2>1, <2>2 DEF evaluate_path_scope
  <2>4. ~(new.recursive /\ deep > new.depth)
    BY <1>1, <1>2, <2>1, <2>2, <2>3 DEF evaluate_path_scope
  <2>5. ~hidden
    BY <1>2, <2>1, <2>2, <2>3, <2>4 DEF evaluate_path_scope
  <2> QED
    BY <2>2, <2>3, <2>4, <2>5
<1> HIDE DEF deep, hidden
<1>4. ~(old.depth > 0 /\ old.recursive /\ deep > old.depth)
  BY <1>1, <1>2, <1>3
<1> QED
  BY <1>1, <1>2, <1>3, <1>4 DEF evaluate_path_scope, deep, hidden

LEMMA ShownNarrower ==
    ASSUME NEW r, IsRule(r), NEW p \in UserPaths,
           InScopeOf(build_rule_json(load_rule(r)), p)
    PROVE  InScopeOf(r, p)
<1> DEFINE f == load_rule(r)
           new == [path |-> folder_path(f), recursive |-> f.recursive, depth |-> f.depth,
                   allow_project_roots |-> FALSE]
           old == r.folders[1]
<1>1. CASE r.folders = <<>>
  <2>1. ToSet(r.folders) = {}
    BY <1>1 DEF ToSet
  <2> QED
    BY <2>1 DEF InScopeOf, InScope
<1>2. CASE r.folders # <<>>
  <2>1. old \in UserFolders /\ old \in ToSet(r.folders)
    BY <1>2 DEF ToSet, IsRule
  <2>2. build_rule_json(f).folders = <<new>>
    BY DEF build_rule_json
  <2>3. IsForm(f) /\ folder_path(f) = old.path /\ f.recursive = old.recursive
        /\ f.depth = Clamp(old.depth, 1, 25)
    BY <1>2, Loaded, LoadedIs
  <2> HIDE DEF f
  <2>4. /\ new.path = old.path /\ new.recursive = old.recursive
        /\ new.depth = Clamp(old.depth, 1, 25) /\ new.allow_project_roots = FALSE
    BY <2>3
  <2>5. new \in UserFolders
    BY <2>1, <2>3 DEF UserFolders, IsForm
  <2> HIDE DEF new, old
  <2>6. ToSet(<<new>>) = {new}
    BY DEF ToSet
  <2>7. InScope(UserTree, p, {new}, <<>>)
    BY <2>2, <2>6 DEF InScopeOf, f
  <2>8. evaluate_path_scope(UserTree, p, new) = "allowed"
    BY <2>7 DEF InScope
  <2>9. evaluate_path_scope(UserTree, p, old) = "allowed"
    BY <2>1, <2>4, <2>5, <2>8, Narrower
  <2> QED
    BY <2>1, <2>9 DEF InScopeOf, InScope, Considered
<1> QED
  BY <1>1, <1>2

(* What a form can be made into a rule from, and a rule of such a form. *)
IsMade(r) ==
    \E f : IsForm(f) /\ f.value \in EntryTexts /\ ~IsInfinite(f) /\ r = build_rule_json(f)

(* What is shown and not touched is the rule, and a rule of the dialog was
   made of a form. *)
ShownIsRule ==
    /\ rule # NoRule => IsRule(rule) /\ load_rule(rule).value \in EntryTexts
    /\ form # Closed => IsForm(form) /\ form.value \in EntryTexts
    /\ form # Closed /\ ~touched /\ rule # NoRule => form = load_rule(rule)
    /\ made => IsMade(rule)

LEMMA ShownInit == EditorInit => ShownIsRule
<1> SUFFICES ASSUME EditorInit PROVE ShownIsRule
  OBVIOUS
<1>1. form = Closed /\ rule \in Given \cup {NoRule} /\ ~made
  BY DEF EditorInit
<1>2. ASSUME rule # NoRule
      PROVE  IsRule(rule) /\ load_rule(rule).value \in EntryTexts
  <2>1. rule \in Given
    BY <1>1, <1>2
  <2>2. rule.folders \in Seq(UserFolders) /\ rule.priority \in Int
    BY <2>1, EditorAssumption, Zenon
  <2>3. load_rule(rule).value \in FirstTexts
    BY <2>1, Zenon DEF FirstTexts
  <2> QED
    BY <2>2, <2>3, FirstIsEntry, Zenon DEF IsRule
<1> QED
  BY <1>1, <1>2, Zenon DEF ShownIsRule

LEMMA ShownOpen == ShownIsRule /\ Open => ShownIsRule'
<1> SUFFICES ASSUME ShownIsRule, Open PROVE ShownIsRule'
  OBVIOUS
<1>1. /\ rule' = rule /\ made' = made
      /\ form' = IF rule = NoRule THEN NewForm ELSE load_rule(rule)
  BY DEF Open
<1>2. IsForm(form') /\ form'.value \in EntryTexts
  <2>1. CASE rule = NoRule
    BY <1>1, <2>1, NewFormIs, FirstIsEntry, Zenon
  <2>2. CASE rule # NoRule
    <3>1. form' = load_rule(rule)
      BY <1>1, <2>2
    <3> QED
      BY <2>2, <3>1, LoadedIs, Zenon DEF ShownIsRule
  <2> QED
    BY <2>1, <2>2
<1>3. rule # NoRule => form' = load_rule(rule)
  BY <1>1
<1> QED
  BY <1>1, <1>2, <1>3, Zenon DEF ShownIsRule

(* A row written by hand: what may be chosen leaves a form. *)
LEMMA TouchedForm ==
    ASSUME NEW f, IsForm(f), f.value \in EntryTexts, NEW row \in DOMAIN Offered,
           NEW new \in Offered[row], NEW g, g = [f EXCEPT ![row] = new]
    PROVE  IsForm(g) /\ g.value \in EntryTexts
<1>1. DOMAIN Offered = FormRows
  BY DEF Offered, FormRows
<1>2. DOMAIN f = FormRows
  BY FormRead, Zenon
<1>3. DOMAIN g = FormRows /\ g[row] = new /\ \A other \in FormRows \ {row} : g[other] = f[other]
  BY <1>1, <1>2
<1>4. {"folder", "custom", "recursive", "depth", "priority", "field", "operator", "unit",
       "action", "value"} \subseteq FormRows
  BY DEF FormRows
<1>5. /\ Offered.folder = DOMAIN StandardFolders \cup {"Custom"}
      /\ Offered.recursive = BOOLEAN /\ Offered.depth = {1, 25}
      /\ Offered.priority = {0, 100} /\ Offered.field = Fields
      /\ Offered.operator = Operators /\ Offered.unit = Units /\ Offered.action = Actions
      /\ Offered.value = Typed
  BY Zenon DEF Offered
<1>6. Offered.custom \subseteq UserPaths \cup {<<>>}
  BY EditorAssumption, Zenon
<1>7. g.folder \in DOMAIN StandardFolders \cup {"Custom"}
  <2>1. f.folder \in DOMAIN StandardFolders \cup {"Custom"}
    BY Zenon DEF IsForm
  <2> QED
    BY <1>3, <1>4, <1>5, <2>1
<1>8. g.custom \in UserPaths \cup {<<>>}
  <2>1. f.custom \in UserPaths \cup {<<>>}
    BY Zenon DEF IsForm
  <2> QED
    BY <1>3, <1>4, <1>6, <2>1
<1>9. g.recursive \in BOOLEAN
  <2>1. f.recursive \in BOOLEAN
    BY Zenon DEF IsForm
  <2> QED
    BY <1>3, <1>4, <1>5, <2>1
<1>10. g.depth \in 1..25
  <2>1. f.depth \in 1..25
    BY Zenon DEF IsForm
  <2> DEFINE shown == 1..25
  <2>2. Offered.depth \subseteq shown
    BY <1>5
  <2> HIDE DEF shown
  <2>3. f.depth \in shown
    BY <2>1 DEF shown
  <2>4. g.depth \in shown
    BY <1>3, <1>4, <2>2, <2>3
  <2> QED
    BY <2>4 DEF shown
<1>11. g.priority \in -100..100
  <2>1. f.priority \in -100..100
    BY Zenon DEF IsForm
  <2> DEFINE shown == -100..100
  <2>2. Offered.priority \subseteq shown
    BY <1>5
  <2> HIDE DEF shown
  <2>3. f.priority \in shown
    BY <2>1 DEF shown
  <2>4. g.priority \in shown
    BY <1>3, <1>4, <2>2, <2>3
  <2> QED
    BY <2>4 DEF shown
<1>12. /\ g.field \in Fields /\ g.operator \in Operators /\ g.unit \in Units
       /\ g.action \in Actions
  <2>1. /\ f.field \in Fields /\ f.operator \in Operators /\ f.unit \in Units
        /\ f.action \in Actions
    BY FormRead, Zenon
  <2> QED
    BY <1>3, <1>4, <1>5, <2>1
<1>13. g.value \in EntryTexts
  <2>1. Typed \subseteq EntryTexts
    BY DEF EntryTexts, FirstTexts
  <2> QED
    BY <1>3, <1>4, <1>5, <2>1
<1> QED
  BY <1>3, <1>7, <1>8, <1>9, <1>10, <1>11, <1>12, <1>13, Zenon DEF IsForm

LEMMA ShownTouch ==
    ASSUME ShownIsRule, NEW row \in DOMAIN Offered, Touch(row)
    PROVE  ShownIsRule'
<1>1. /\ form # Closed /\ IsForm(form) /\ form.value \in EntryTexts
      /\ touched' /\ rule' = rule /\ made' = made
  BY DEF Touch, ShownIsRule
<1>2. PICK new \in Offered[row] :
        LET f == [form EXCEPT ![row] = new]
        IN  form' = CASE row = "field"  -> configure_condition_rows(f)
                      [] row = "action" -> configure_action_rows(f)
                      [] OTHER -> f
  BY DEF Touch
<1> DEFINE f == [form EXCEPT ![row] = new]
<1>3. IsForm(f) /\ f.value \in EntryTexts
  BY <1>1, TouchedForm, Zenon
<1>4. form' = CASE row = "field"  -> configure_condition_rows(f)
                [] row = "action" -> configure_action_rows(f)
                [] OTHER -> f
  BY <1>2, Zenon
<1> HIDE DEF f
<1>5. IsForm(form') /\ form'.value \in EntryTexts
  <2>1. CASE row = "field"
    <3>1. form' = configure_condition_rows(f)
      BY <1>4, <2>1
    <3>2. Filling(f, form')
      BY <1>3, <3>1, ConditionRows, Zenon
    <3> QED
      BY <1>3, <3>2, FilledForm, FirstIsEntry, Zenon DEF Filling
  <2>2. CASE row = "action"
    <3>1. form' = configure_action_rows(f)
      BY <1>4, <2>2
    <3>2. Differ(f, form', ActionRows) /\ IsForm(form')
      BY <1>3, <3>1, ActionFilled, Zenon
    <3>3. "value" \in FormRows \ ActionRows
      BY DEF FormRows, ActionRows
    <3>4. DOMAIN f = FormRows
      BY <1>3, FormRead, Zenon
    <3>5. form'.value = f.value
      BY <3>2, <3>3, <3>4 DEF Differ
    <3> QED
      BY <1>3, <3>2, <3>5
  <2>3. CASE row \notin {"field", "action"}
    <3>1. form' = f
      BY <1>4, <2>3
    <3> QED
      BY <1>3, <3>1
  <2> QED
    BY <2>1, <2>2, <2>3
<1> QED
  BY <1>1, <1>5, Zenon DEF ShownIsRule

LEMMA ShownSave == ShownIsRule /\ SaveForm => ShownIsRule'
<1> SUFFICES ASSUME ShownIsRule, SaveForm PROVE ShownIsRule'
  OBVIOUS
<1>1. form' = Closed /\ IsForm(form) /\ form.value \in EntryTexts
  BY DEF SaveForm, ShownIsRule
<1>2. \/ rule' = rule /\ made' = made
      \/ ~IsInfinite(form) /\ rule' = build_rule_json(form)
  BY DEF SaveForm
<1>3. rule' # NoRule => IsRule(rule') /\ load_rule(rule').value \in EntryTexts
  BY <1>1, <1>2, SavedFolder, BuiltValue, Zenon DEF ShownIsRule
<1>4. made' => IsMade(rule')
  BY <1>1, <1>2, Zenon DEF ShownIsRule, IsMade
<1> QED
  BY <1>1, <1>3, <1>4, Zenon DEF ShownIsRule

LEMMA ShownInvariant == EditorSpec => []ShownIsRule
<1>1. ShownIsRule /\ [EditorNext]_editorVars => ShownIsRule'
  <2> SUFFICES ASSUME ShownIsRule, [EditorNext]_editorVars PROVE ShownIsRule'
    OBVIOUS
  <2>1. CASE Open
    BY <2>1, ShownOpen
  <2>2. CASE SaveForm
    BY <2>2, ShownSave
  <2>3. CASE Cancel
    BY <2>3 DEF Cancel, ShownIsRule
  <2>4. CASE \E row \in DOMAIN Offered : Touch(row)
    BY <2>4, ShownTouch
  <2>5. CASE UNCHANGED editorVars
    BY <2>5 DEF editorVars, ShownIsRule
  <2> QED
    BY <2>1, <2>2, <2>3, <2>4, <2>5 DEF EditorNext
<1> QED
  BY <1>1, ShownInit, PTL DEF EditorSpec

(* Opening a rule in the dialog and saving it as it is shown never lets it act
   on a file it did not act on, whatever folders it has: the one folder the
   form shows stays where it was and as deep at most, and projects that were
   open to the rule are closed to it (load_rule and build_rule_json of
   window.rs, evaluate_path_scope of scope.rs). *)
THEOREM LookingNarrows == EditorSpec => ScopeOnlyNarrows
<1>1. ShownIsRule /\ [EditorNext]_editorVars =>
        [Untouched => \A p \in UserPaths : InScopeOf(rule', p) => InScopeOf(rule, p)]_editorVars
  <2> SUFFICES ASSUME ShownIsRule, [EditorNext]_editorVars, Untouched,
                      NEW p \in UserPaths, InScopeOf(rule', p)
               PROVE  InScopeOf(rule, p)
    OBVIOUS
  <2>1. CASE rule' = rule
    BY <2>1
  <2>2. CASE rule' = build_rule_json(form)
    <3>1. form = load_rule(rule) /\ IsRule(rule)
      BY DEF ShownIsRule, Untouched
    <3> QED
      BY <2>2, <3>1, ShownNarrower
  <2>3. rule' = rule \/ rule' = build_rule_json(form)
    BY DEF EditorNext, Open, SaveForm, Cancel, Touch, editorVars
  <2> QED
    BY <2>1, <2>2, <2>3
<1> QED
  BY <1>1, ShownInvariant, PTL DEF EditorSpec, ScopeOnlyNarrows

(* A rule of the dialog that it can show is what it shows. *)
LEMMA MadeIsShown ==
    ASSUME NEW r, IsMade(r), NEW d \in ToSet(r.conditions.items),
           d.type \in {"extension", "kind"} => d.value # <<>>
    PROVE  r # NoRule /\ build_rule_json(load_rule(r)) = r
<1>1. PICK f : IsForm(f) /\ f.value \in EntryTexts /\ ~IsInfinite(f) /\ r = build_rule_json(f)
  BY DEF IsMade
<1>2. r # NoRule
  BY <1>1, PartsAre, Zenon
<1>3. f.field # "Any file"
  <2>1. SUFFICES ASSUME f.field = "Any file" PROVE FALSE
    OBVIOUS
  <2>2. r.conditions = GroupOf(f.match, <<>>)
    BY <1>1, <2>1, BuiltNone, Zenon
  <2>3. r.conditions.items = <<>>
    BY <2>2, GroupFields
  <2>4. ToSet(<<>>) = {}
    BY DEF ToSet
  <2> QED
    BY <2>3, <2>4
<1>4. PICK c : Kept(f, c)
  BY <1>1, <1>3, ConditionKept, Zenon
<1>5. d = deserialize(c)
  <2>1. r.conditions = GroupOf(f.match, <<deserialize(c)>>)
    BY <1>1, <1>4, BuiltCondition, Zenon
  <2>2. r.conditions.items = <<deserialize(c)>>
    BY <2>1, GroupFields
  <2> DEFINE read == deserialize(c)
  <2> HIDE DEF read
  <2>3. ToSet(<<read>>) = {read}
    BY DEF ToSet
  <2> QED
    BY <2>2, <2>3 DEF read
<1>6. c.type \in {"extension", "kind"} => c.value # <<>>
  <2>1. d.type = c.type /\ d.value = c.value
    BY <1>4, <1>5, PlainRead, Zenon DEF Kept
  <2> QED
    BY <2>1
<1> QED
  BY <1>1, <1>2, <1>4, <1>6, BuiltAgain, Zenon

(* A rule the dialog made, opened in it and saved with nothing touched, is the
   rule it was in every part: whatever was chosen and typed, the labels of the
   form stand for what load_condition_widgets and load_action_widgets read in
   them, and what the entries show of a list is cut into the same list
   (build_rule_json and load_rule of window.rs). *)
THEOREM ReopeningIsIdentity == EditorSpec => ReopeningKeeps
<1>1. ShownIsRule /\ [EditorNext]_editorVars =>
        [/\ form # Closed /\ form' = Closed
         /\ made /\ ~touched
         /\ \E c \in ToSet(rule.conditions.items) :
                c.type \in {"extension", "kind"} => c.value # <<>>
         => rule' = rule]_editorVars
  <2> SUFFICES ASSUME ShownIsRule, [EditorNext]_editorVars, form # Closed,
                      made, ~touched, NEW c \in ToSet(rule.conditions.items),
                      c.type \in {"extension", "kind"} => c.value # <<>>
               PROVE  form' = Closed => rule' = rule
    OBVIOUS
  <2>1. rule # NoRule /\ build_rule_json(load_rule(rule)) = rule
    BY MadeIsShown, Zenon DEF ShownIsRule
  <2>2. form = load_rule(rule)
    BY <2>1 DEF ShownIsRule
  <2>3. rule' = rule \/ rule' = build_rule_json(form)
    BY DEF EditorNext, Open, SaveForm, Cancel, Touch, editorVars
  <2> QED
    BY <2>1, <2>2, <2>3
<1> QED
  BY <1>1, ShownInvariant, PTL DEF EditorSpec, ReopeningKeeps
=============================================================================
