----------------------------- MODULE RulesProofs -----------------------------
(***************************************************************************)
(* Proofs about what a rule means.  Of ScopeGate, for every tree, every    *)
(* link, every set of markers and every rule with folders; of the preview  *)
(* (Preview), for every limit, every directory that is asked for and every *)
(* set of files that the rule's conditions hold for; of Schedule, for      *)
(* every interval; of SavedConditions, for every condition, however deep   *)
(* its groups, and every file.                                             *)
(***************************************************************************)
EXTENDS ScopeGate, SavedConditions, Schedule, ScopeLemmas

Path == Seq(Names)

(* The tree *)

ScopeOK ==
    /\ marked \subseteq Dirs
    /\ target \in [Links -> Targets \cup Links]
    /\ folders \in FolderSets

LEMMA ScopeInvariant == ScopeSpec => []ScopeOK
<1>1. ScopeInit => ScopeOK
  BY DEF ScopeInit, ScopeOK
<1>2. ScopeOK /\ [ScopeNext]_scopeVars => ScopeOK'
  BY DEF ScopeOK, ScopeNext, scopeVars, Mark, Unmark
<1> QED
  BY <1>1, <1>2, PTL DEF ScopeSpec

LEMMA TreeFacts ==
    ASSUME ScopeOK
    PROVE  /\ tree.folders = Dirs /\ tree.marked = marked
           /\ \A p \in Paths : tree.canon[p] \in Path \ {<<>>}
           /\ \A p \in Dirs \cup RealFiles : p \in Paths /\ p \in Path /\ tree.canon[p] = p
           /\ \A p \in Files : p \in Paths /\ p \notin Dirs /\ Front(p) \in Dirs
           /\ RealFiles \subseteq Files
BY TreeAssumption DEF ScopeOK, tree, Paths, Path, Files

LEMMA FolderFacts ==
    ASSUME ScopeOK
    PROVE  /\ folders # {}
           /\ \A f \in folders : f.path \in Dirs /\ f.recursive \in BOOLEAN /\ f.depth \in Int
BY FoldersAssumption DEF ScopeOK

(* The search for the project of a file starts in its directory. *)
LEMMA StartFacts ==
    ASSUME ScopeOK, NEW p \in Files
    PROVE  SearchStart(tree, p) = Front(p) /\ Front(p) \in Path
BY TreeFacts, TreeAssumption DEF SearchStart, Path
-----------------------------------------------------------------------------
(* The theorems *)

(* Whatever a link resolves to, what a rule is let at lies in one of its
   folders. *)
THEOREM StaysInside == ScopeSpec => []AllowedStaysInside
<1>1. ScopeOK => AllowedStaysInside
  BY DEF AllowedStaysInside, Allowed, evaluate_path_scope, relative_depth
<1> QED
  BY <1>1, ScopeInvariant, PTL

(* The project of a file is the closest marked directory above it, up to the
   watched folder and no further. *)
THEOREM FindsNearest == ScopeSpec => []NearestMarker
<1>1. ASSUME ScopeOK, NEW p \in RealFiles, NEW f \in folders
      PROVE  LET between == {d \in marked : IsPrefix(f.path, d) /\ IsPrefix(d, Front(p))}
                 found   == find_project_root(tree, p, f.path)
             IN  IF between = {} THEN found = <<>>
                 ELSE found \in between /\ \A d \in between : Len(d) <= Len(found)
  <2> DEFINE cur == Front(p)
             between == {d \in marked : IsPrefix(f.path, d) /\ IsPrefix(d, cur)}
             found == find_project_root(tree, p, f.path)
             H == Hits(marked, f.path, cur, Len(cur))
  <2>1. /\ cur \in Path /\ f.path \in Path /\ f.path # <<>> /\ SearchStart(tree, p) = cur
        /\ tree.canon[f.path] = f.path /\ tree.marked = marked
    BY <1>1, TreeFacts, FolderFacts, StartFacts, TreeAssumption DEF Path
  <2>2. IsNearest(marked, f.path, cur, Len(cur), found)
    BY <2>1, RootFound DEF Path
  <2>3. ASSUME NEW d \in between
        PROVE  Len(d) \in H /\ SubSeq(cur, 1, Len(d)) = d
    <3>1. d \in Path
      BY <1>1, TreeAssumption DEF ScopeOK, Path
    <3>2. Len(d) <= Len(cur) /\ d = SubSeq(cur, 1, Len(d))
      BY <2>1, <3>1, Above DEF Path
    <3>3. Len(d) \in 0..Len(cur)
      BY <2>1, <3>1, <3>2 DEF Path
    <3>4. IsPrefix(f.path, d) /\ d \in marked
      OBVIOUS
    <3> QED
      BY <3>2, <3>3, <3>4 DEF Hits
  <2>4. ASSUME NEW m \in H
        PROVE  SubSeq(cur, 1, m) \in between /\ Len(SubSeq(cur, 1, m)) = m
    <3>1. m \in 0..Len(cur) /\ SubSeq(cur, 1, m) \in marked
          /\ IsPrefix(f.path, SubSeq(cur, 1, m))
      BY DEF Hits
    <3>2. SubSeq(cur, 1, m) \in Path /\ Len(SubSeq(cur, 1, m)) = m
      BY <2>1, <3>1, Cut DEF Path
    <3>3. IsPrefix(SubSeq(cur, 1, m), cur)
      <4>1. m <= Len(cur)
        BY <2>1, <3>1 DEF Path
      <4> HIDE DEF cur
      <4> QED
        BY <2>1, <3>2, <4>1, Above DEF Path
    <3> QED
      BY <3>1, <3>2, <3>3
  <2> HIDE DEF cur, found, H
  <2>5. CASE between = {}
    <3>1. H = {}
      BY <2>4, <2>5
    <3>2. found = <<>>
      BY <2>2, <3>1 DEF IsNearest, H
    <3> QED
      BY <2>5, <3>2 DEF cur, found
  <2>6. CASE between # {}
    <3>1. PICK m \in H : found = SubSeq(cur, 1, m) /\ \A k \in H : k <= m
      BY <2>2, <2>3, <2>6 DEF IsNearest, H
    <3>2. found \in between /\ Len(found) = m
      BY <2>4, <3>1
    <3>3. \A d \in between : Len(d) <= Len(found)
      BY <2>3, <3>1, <3>2
    <3> QED
      BY <2>6, <3>2, <3>3 DEF cur, found
  <2> QED
    BY <2>5, <2>6
<1>2. ScopeOK => NearestMarker
  BY <1>1 DEF NearestMarker
<1> QED
  BY <1>2, ScopeInvariant, PTL

(* A second tree with the same paths and more markers allows no more. *)
LEMMA MoreMarkers ==
    ASSUME ScopeOK, NEW p \in Files, NEW f \in folders, NEW t,
           t.canon = tree.canon, t.folders = tree.folders, tree.marked \subseteq t.marked,
           evaluate_path_scope(t, p, f) = "allowed"
    PROVE  evaluate_path_scope(tree, p, f) = "allowed"
<1> DEFINE cur == Front(p)
           H(x) == Hits(x.marked, f.path, cur, Len(cur))
           found(x) == find_project_root(x, p, f.path)
<1>1. /\ cur \in Path /\ f.path \in Path /\ f.path # <<>>
      /\ SearchStart(tree, p) = cur /\ tree.canon[f.path] = f.path
  BY TreeFacts, FolderFacts, StartFacts, TreeAssumption DEF Path
<1>2. SearchStart(t, p) = cur /\ t.canon[f.path] = f.path
  BY <1>1 DEF SearchStart
<1>3. found(t) = <<>> <=> H(t) = {}
  BY <1>1, <1>2, RootFound, NoneFound DEF Path
<1>4. found(tree) = <<>> <=> H(tree) = {}
  BY <1>1, RootFound, NoneFound DEF Path
<1>5. H(tree) \subseteq H(t)
  BY DEF Hits
<1>6. found(t) = <<>> => found(tree) = <<>>
  BY <1>3, <1>4, <1>5
<1>7. relative_depth(t, p, f.path) = relative_depth(tree, p, f.path)
  BY DEF relative_depth
<1> QED
  BY <1>6, <1>7 DEF evaluate_path_scope

(* A marker that appears in a running daemon only ever protects. *)
THEOREM Protects == ScopeSpec => MarkersOnlyProtect
<1>1. ASSUME ScopeOK, [ScopeNext]_scopeVars, marked \subseteq marked',
             NEW p \in Files, InScope(tree, p, folders, <<>>)'
      PROVE  InScope(tree, p, folders, <<>>)
  <2>1. folders' = folders /\ target' = target
    BY <1>1 DEF ScopeNext, scopeVars
  <2>2. /\ tree'.canon = tree.canon /\ tree'.folders = tree.folders
        /\ tree.marked \subseteq tree'.marked
    BY <1>1, <2>1 DEF tree
  <2>3. PICK f \in folders : evaluate_path_scope(tree', p, f) = "allowed"
    BY <1>1, <2>1, FolderFacts DEF InScope
  <2>4. evaluate_path_scope(tree, p, f) = "allowed"
    BY <1>1, <2>2, <2>3, MoreMarkers
  <2> QED
    BY <2>4 DEF InScope, Considered
<1>2. ScopeOK /\ [ScopeNext]_scopeVars =>
        [marked \subseteq marked' =>
            \A p \in Files : InScope(tree, p, folders, <<>>)' =>
                             InScope(tree, p, folders, <<>>)]_scopeVars
  BY <1>1
<1> QED
  BY <1>2, ScopeInvariant, PTL DEF ScopeSpec, MarkersOnlyProtect

(* The file itself is in the list of a scan when the gate lets it through for
   the scanned folder: walkdir goes as deep as the gate asks. *)
LEMMA AllowedIsListed ==
    ASSUME ScopeOK, NEW p \in RealFiles, NEW f \in folders,
           evaluate_path_scope(tree, p, f) = "allowed"
    PROVE  p \in scan_folder_files(tree, Files, f)
<1>1. /\ f.path \in Dirs /\ f.path \in Path /\ p \in Path /\ Front(p) \in Dirs /\ p \in Files
      /\ tree.canon[f.path] = f.path /\ tree.canon[p] = p /\ f.path # p /\ f.recursive \in BOOLEAN
  BY TreeFacts, FolderFacts, TreeAssumption
<1>2. Len(p) \in Nat /\ Len(f.path) \in Nat
  BY <1>1 DEF Path
<1>3. IsPrefix(f.path, p) /\ (~f.recursive => Len(p) - Len(f.path) <= 1)
  <2>1. relative_depth(tree, p, f.path) # NoDepth
    BY DEF evaluate_path_scope
  <2>2. IsPrefix(f.path, p) /\ relative_depth(tree, p, f.path) = Len(p) - Len(f.path)
    BY <1>1, <2>1 DEF relative_depth
  <2>3. ~f.recursive => ~(relative_depth(tree, p, f.path) > 1)
    BY DEF evaluate_path_scope
  <2> QED
    BY <1>2, <2>2, <2>3
<1>4. Len(f.path) < Len(p)
  BY <1>1, <1>2, <1>3, Above, SubSeqFull DEF Path
<1>5. CASE ~f.recursive
  <2>1. Len(f.path) = Len(p) - 1
    BY <1>2, <1>3, <1>4, <1>5
  <2>2. Front(p) = f.path
    BY <1>1, <1>3, <2>1, Above DEF Front, Path
  <2> QED
    BY <1>1, <1>5, <2>2 DEF scan_folder_files
<1>6. CASE f.recursive
  <2>1. IsStrictPrefix(f.path, p)
    BY <1>1, <1>3 DEF IsStrictPrefix
  <2>2. ASSUME NEW n \in Len(f.path) + 1 .. Len(p) - 1
        PROVE  LET dir == SubSeq(p, 1, n)
               IN  tree.canon[dir] = tree.canon[Front(dir)] \o <<Last(dir)>>
    <3> DEFINE dir == SubSeq(p, 1, n)
    <3>1. n \in 1..Len(p) /\ n - 1 \in 0..Len(p) /\ n \in Len(f.path)..Len(p) - 1
          /\ n - 1 \in Len(f.path)..Len(p) - 1
      BY <1>2
    <3>2. dir \in Dirs /\ SubSeq(p, 1, n - 1) \in Dirs
      BY <1>1, <1>3, <3>1, TreeAssumption
    <3>3. dir \in Path /\ Len(dir) = n /\ dir[n] = p[n]
      BY <1>1, <3>1, Cut DEF Path
    <3>4. Front(dir) = SubSeq(p, 1, n - 1)
      <4>1. Front(dir) = SubSeq(dir, 1, n - 1)
        BY <3>3 DEF Front
      <4>2. CASE n = 1
        BY <4>1, <4>2, SubSeqEmpty
      <4>3. CASE n > 1
        <5>1. SubSeq(SubSeq(p, 1, n), 1, n - 1) = SubSeq(p, 1 + 1 - 1, 1 + (n - 1) - 1)
          BY <1>1, <1>2, <3>1, <4>3, SubSeqOfSubSeq DEF Path
        <5> QED
          BY <3>1, <4>1, <5>1
      <4> QED
        BY <3>1, <4>2, <4>3
    <3>5. Last(dir) = p[n]
      BY <3>3 DEF Last
    <3>6. dir = SubSeq(p, 1, n - 1) \o <<p[n]>>
      BY <1>1, <1>2, <3>1, SubSeqRecursiveSecond DEF Path
    <3> QED
      BY <3>2, <3>4, <3>5, <3>6, TreeFacts
  <2> QED
    BY <1>1, <1>6, <2>1, <2>2 DEF scan_folder_files
<1> QED
  BY <1>1, <1>5, <1>6

(* Events and scans let a rule at the same regular files. *)
THEOREM LiveIsScanned == ScopeSpec => []ScanAndLiveAgree
<1>1. ASSUME ScopeOK, NEW p \in RealFiles, InScope(tree, p, folders, <<>>)
      PROVE  \E f \in folders : /\ p \in scan_folder_files(tree, Files, f)
                                /\ InScope(tree, p, folders, f.path)
  <2>1. PICK f \in folders : evaluate_path_scope(tree, p, f) = "allowed"
    BY <1>1, FolderFacts DEF InScope
  <2>2. p \in scan_folder_files(tree, Files, f)
    BY <1>1, <2>1, AllowedIsListed
  <2>3. InScope(tree, p, folders, f.path)
    BY <2>1 DEF InScope, Considered
  <2> QED
    BY <2>2, <2>3
<1>2. ASSUME ScopeOK, NEW p \in RealFiles, NEW f \in folders, InScope(tree, p, folders, f.path)
      PROVE  InScope(tree, p, folders, <<>>)
  BY <1>2 DEF InScope, Considered
<1>3. ScopeOK => ScanAndLiveAgree
  BY <1>1, <1>2 DEF ScanAndLiveAgree
<1> QED
  BY <1>3, ScopeInvariant, PTL
-----------------------------------------------------------------------------
(* The preview *)

(* Sets listed as sequences: each member, and nothing else. *)
LEMMA ListedAll ==
    ASSUME NEW S, IsFiniteSet(S)
    PROVE  Listed(S) \in Seq(S) /\ ToSet(Listed(S)) = S
<1> DEFINE D == SUBSET S
           first(s) == CHOOSE x \in s : TRUE
           size == [s \in D |-> Cardinality(s)]
           below == [s \in D |-> s \ {first(s)}]
           end == [s \in D |-> <<>>]
           step == [vs \in Seq(S) \X D |->
                       IF vs[2] = {} THEN <<>> ELSE Append(vs[1], first(vs[2]))]
           List(f, s) == IF s = {} THEN <<>> ELSE Append(f[s \ {first(s)}], first(s))
           iter == CHOOSE f : f = [s \in D |-> List(f, s)]
<1>1. Listed(S) = iter[S]
  BY DEF Listed, FoldSet, MapThenFoldSet
<1>2. \A s \in D : /\ IsFiniteSet(s) /\ Cardinality(s) \in Nat
                   /\ (Cardinality(s) = 0 <=> s = {}) /\ Cardinality(s) <= Cardinality(S)
  BY FS_Subset, FS_CardinalityType, FS_EmptySet
<1>3. \A s \in D : s # {} => /\ first(s) \in s /\ s \ {first(s)} \in D
                             /\ Cardinality(s \ {first(s)}) = Cardinality(s) - 1
  BY <1>2, FS_RemoveElement
<1>4. \E f : f = [s \in D |-> List(f, s)]
  <2>1. size \in [D -> Nat] /\ below \in [D -> D] /\ end \in [D -> Seq(S)]
    BY <1>2
  <2>2. step \in [Seq(S) \X D -> Seq(S)]
    <3>1. ASSUME NEW v \in Seq(S), NEW s \in D, s # {}
          PROVE  Append(v, first(s)) \in Seq(S)
      BY <1>3, <3>1
    <3> QED
      BY <3>1
  <2>3. \A s \in D : size[s] > 0 => size[below[s]] < size[s]
    <3>1. ASSUME NEW s \in D, size[s] > 0
          PROVE  size[below[s]] < size[s]
      <4>1. s # {} /\ Cardinality(s) \in Nat
        BY <1>2, <3>1
      <4>2. below[s] \in D /\ Cardinality(below[s]) = Cardinality(s) - 1
        BY <1>3, <4>1
      <4> HIDE DEF below, D
      <4> QED
        BY <4>1, <4>2
    <3> QED
      BY <3>1
  <2>4. \E bound \in Nat : \A s \in D : size[s] <= bound
    BY <1>2, FS_CardinalityType
  <2>5. PICK f \in [D -> Seq(S)] : ComesTo(D, size, below, end, step, f)
    <3> HIDE DEF D, size, below, end, step
    <3>1. IsLoop(D, Seq(S), size, below, end, step)
      BY <2>1, <2>2, <2>3, <2>4 DEF IsLoop
    <3> QED
      BY <3>1, LoopRuns
  <2>6. ASSUME NEW s \in D
        PROVE  f[s] = List(f, s)
    <3>1. size[s] = 0 <=> s = {}
      BY <1>2
    <3>2. CASE s = {}
      BY <2>5, <3>1, <3>2 DEF ComesTo
    <3>3. CASE s # {}
      <4>1. f[s] = step[<<f[below[s]], s>>]
        BY <2>5, <3>1, <3>3 DEF ComesTo
      <4>2. below[s] = s \ {first(s)} /\ below[s] \in D
        BY <1>3, <3>3
      <4>3. f[below[s]] \in Seq(S)
        BY <4>2
      <4>4. step[<<f[below[s]], s>>] = Append(f[below[s]], first(s))
        BY <3>3, <4>3
      <4> QED
        BY <3>3, <4>1, <4>2, <4>4
    <3> QED
      BY <3>2, <3>3
  <2> QED
    BY <2>6
<1>5. iter = [s \in D |-> List(iter, s)]
  BY <1>4
<1> HIDE DEF iter
<1> DEFINE G == {s \in D : iter[s] \in Seq(s) /\ ToSet(iter[s]) = s}
<1>6. ASSUME NEW s \in D, \A e \in D : size[e] < size[s] => e \in G
      PROVE  s \in G
  <2>1. CASE s = {}
    <3>1. iter[s] = <<>>
      BY <1>5, <2>1
    <3>2. <<>> \in Seq(s) /\ ToSet(<<>>) = {}
      BY DEF ToSet
    <3>3. iter[s] \in Seq(s) /\ ToSet(iter[s]) = s
      BY <2>1, <3>1, <3>2
    <3> QED
      BY <3>3
  <2>2. CASE s # {}
    <3> DEFINE x == first(s)
               t == s \ {x}
    <3>1. t \in G /\ x \in s
      <4>1. x \in s /\ t \in D /\ Cardinality(t) = Cardinality(s) - 1
        BY <1>3, <2>2
      <4>2. size[t] < size[s]
        BY <1>2, <4>1
      <4> HIDE DEF G, size, x, t
      <4> QED
        BY <1>6, <4>1, <4>2
    <3>2. iter[s] = Append(iter[t], x)
      BY <1>5, <2>2
    <3>3. iter[t] \in Seq(t) /\ ToSet(iter[t]) = t
      BY <3>1
    <3>4. ToSet(Append(iter[t], x)) = t \cup {x}
      <4> DEFINE l == iter[t]
      <4>1. /\ Len(Append(l, x)) = Len(l) + 1 /\ Len(l) \in Nat
            /\ \A i \in 1..Len(l) : Append(l, x)[i] = l[i]
            /\ Append(l, x)[Len(l) + 1] = x
            /\ DOMAIN Append(l, x) = 1..Len(l) + 1 /\ DOMAIN l = 1..Len(l)
        BY <3>3, AppendProperties
      <4> HIDE DEF l, x, t
      <4> QED
        BY <3>3, <4>1 DEF ToSet, l
    <3>5. t \cup {x} = s
      BY <3>1
    <3>6. Append(iter[t], x) \in Seq(s)
      <4>1. iter[t] \in Seq(s)
        BY <3>3
      <4> QED
        BY <3>1, <4>1
    <3>7. iter[s] \in Seq(s) /\ ToSet(iter[s]) = s
      <4> HIDE DEF x, t
      <4> QED
        BY <3>2, <3>4, <3>5, <3>6
    <3> QED
      BY <3>7
  <2> QED
    BY <2>1, <2>2
<1>7. G = D
  <2>1. size \in [D -> Nat] /\ G \in SUBSET D
    BY <1>2
  <2> HIDE DEF D, size, G
  <2>2. Inherited(D, size, G)
    BY <1>6, <2>1 DEF Inherited
  <2> QED
    BY <2>2, Descent
<1> QED
  BY <1>1, <1>7

(* One result more, up to the limit. *)
LEMMA OneMore ==
    ASSUME NEW R, NEW results \in Seq(R), NEW limit \in Nat, NEW k \in 1..Len(results)
    PROVE  append_preview_result(
               [shown |-> SubSeq(results, 1, IF k - 1 <= limit THEN k - 1 ELSE limit),
                truncated |-> k - 1 > limit], results[k], limit)
           = [shown |-> SubSeq(results, 1, IF k <= limit THEN k ELSE limit),
              truncated |-> k > limit]
<1>1. k \in Nat /\ k - 1 \in Nat /\ Len(results) \in Nat /\ k <= Len(results)
  OBVIOUS
<1> DEFINE last == IF k - 1 <= limit THEN k - 1 ELSE limit
           shown == SubSeq(results, 1, last)
           cut == k - 1 > limit
<1>2. last \in 0..Len(results)
  BY <1>1
<1>3. shown \in Seq(R) /\ Len(shown) = last
  BY <1>2, Cut
<1>4. CASE k <= limit
  <2>1. last = k - 1 /\ cut = FALSE /\ ~(Len(shown) >= limit) /\ (k > limit) = FALSE
    BY <1>1, <1>3, <1>4
  <2>2. SubSeq(results, 1, k) = SubSeq(results, 1, k - 1) \o <<results[k]>>
    BY <1>1, SubSeqRecursiveSecond
  <2>3. Append(shown, results[k]) = SubSeq(results, 1, k)
    BY <1>3, <2>1, <2>2, AppendIsConcat
  <2> HIDE DEF shown, cut
  <2>4. append_preview_result([shown |-> shown, truncated |-> cut], results[k], limit)
            = [shown |-> Append(shown, results[k]), truncated |-> cut]
    BY <2>1 DEF append_preview_result
  <2>5. append_preview_result([shown |-> shown, truncated |-> cut], results[k], limit)
            = [shown |-> SubSeq(results, 1, k), truncated |-> k > limit]
    BY <2>1, <2>3, <2>4
  <2> QED
    BY <1>4, <2>5 DEF shown, cut
<1>5. CASE k > limit
  <2>1. last = limit /\ Len(shown) >= limit /\ (k > limit) = TRUE /\ ~(k <= limit)
    BY <1>1, <1>3, <1>5
  <2>2. shown = SubSeq(results, 1, limit)
    BY <2>1
  <2> HIDE DEF shown, cut, last
  <2>3. append_preview_result([shown |-> shown, truncated |-> cut], results[k], limit)
            = [shown |-> shown, truncated |-> TRUE]
    BY <2>1 DEF append_preview_result
  <2>4. append_preview_result([shown |-> shown, truncated |-> cut], results[k], limit)
            = [shown |-> SubSeq(results, 1, limit), truncated |-> k > limit]
    BY <2>1, <2>2, <2>3
  <2> QED
    BY <2>1, <2>4 DEF shown, cut, last
<1> QED
  BY <1>1, <1>4, <1>5

(* ... and so all results, up to the limit. *)
LEMMA CutShort ==
    ASSUME NEW R, NEW results \in Seq(R), NEW limit \in Nat
    PROVE  FoldLeft(LAMBDA preview, result : append_preview_result(preview, result, limit),
                    [shown |-> <<>>, truncated |-> FALSE], results)
           = [shown |-> SubSeq(results, 1, IF Len(results) <= limit THEN Len(results) ELSE limit),
              truncated |-> Len(results) > limit]
<1> DEFINE N == 1..Len(results)
           D == SUBSET N
           V == [shown : Seq(R), truncated : BOOLEAN]
           nothing == [shown |-> <<>>, truncated |-> FALSE]
           size == [s \in D |-> Cardinality(s)]
           below == [s \in D |-> s \ {Max(s)}]
           end == [s \in D |-> nothing]
           step == [vs \in V \X D |->
                       IF vs[2] = {} THEN nothing
                       ELSE append_preview_result(vs[1], results[Max(vs[2])], limit)]
           Take(f, s) == IF s = {} THEN nothing
                         ELSE append_preview_result(f[s \ {Max(s)}], results[Max(s)], limit)
           iter == CHOOSE f : f = [s \in D |-> Take(f, s)]
           cut == FoldLeft(LAMBDA preview, result : append_preview_result(preview, result, limit),
                           nothing, results)
<1>1. cut = iter[N]
  <2>1. DOMAIN results = N
    OBVIOUS
  <2>2. cut = LET it[s \in SUBSET (DOMAIN results)] ==
                    IF s = {} THEN nothing
                    ELSE append_preview_result(it[s \ {Max(s)}], results[Max(s)], limit)
              IN  it[DOMAIN results]
    BY DEF FoldLeft, MapThenFoldSet
  <2> QED
    BY <2>1, <2>2
<1> HIDE DEF cut
<1>2. Len(results) \in Nat /\ IsFiniteSet(N) /\ \A i \in N : results[i] \in R
  BY FS_Interval
<1>3. \A s \in D : /\ IsFiniteSet(s) /\ Cardinality(s) \in Nat
                   /\ (Cardinality(s) = 0 <=> s = {}) /\ Cardinality(s) <= Cardinality(N)
  BY <1>2, FS_Subset, FS_CardinalityType, FS_EmptySet
<1>4. \A s \in D : s # {} => /\ Max(s) \in s /\ s \ {Max(s)} \in D
                             /\ Cardinality(s \ {Max(s)}) = Cardinality(s) - 1
  <2>1. \A s \in D : s # {} => Max(s) \in s
    BY <1>2, MaxIn
  <2> QED
    BY <1>3, <2>1, FS_RemoveElement
<1>5. \E f : f = [s \in D |-> Take(f, s)]
  <2>1. size \in [D -> Nat] /\ below \in [D -> D] /\ end \in [D -> V]
    BY <1>3
  <2>2. step \in [V \X D -> V]
    <3>1. ASSUME NEW v \in V, NEW s \in D, s # {}
          PROVE  append_preview_result(v, results[Max(s)], limit) \in V
      <4>1. results[Max(s)] \in R
        BY <1>2, <1>4, <3>1
      <4>2. Append(v.shown, results[Max(s)]) \in Seq(R)
        BY <4>1
      <4> QED
        BY <4>2 DEF append_preview_result
    <3>2. nothing \in V
      OBVIOUS
    <3> HIDE DEF V, D, nothing
    <3> QED
      BY <3>1, <3>2
  <2>3. \A s \in D : size[s] > 0 => size[below[s]] < size[s]
    <3>1. ASSUME NEW s \in D, size[s] > 0
          PROVE  size[below[s]] < size[s]
      <4>1. s # {} /\ Cardinality(s) \in Nat
        BY <1>3, <3>1
      <4>2. below[s] \in D /\ Cardinality(below[s]) = Cardinality(s) - 1
        BY <1>4, <4>1
      <4> HIDE DEF below, D
      <4> QED
        BY <4>1, <4>2
    <3> QED
      BY <3>1
  <2>4. \E bound \in Nat : \A s \in D : size[s] <= bound
    BY <1>2, <1>3, FS_CardinalityType
  <2>5. PICK f \in [D -> V] : ComesTo(D, size, below, end, step, f)
    <3> HIDE DEF D, V, size, below, end, step
    <3>1. IsLoop(D, V, size, below, end, step)
      BY <2>1, <2>2, <2>3, <2>4 DEF IsLoop
    <3> QED
      BY <3>1, LoopRuns
  <2>6. ASSUME NEW s \in D
        PROVE  f[s] = Take(f, s)
    <3>1. size[s] = 0 <=> s = {}
      BY <1>3
    <3>2. CASE s = {}
      BY <2>5, <3>1, <3>2 DEF ComesTo
    <3>3. CASE s # {}
      <4>1. f[s] = step[<<f[below[s]], s>>]
        BY <2>5, <3>1, <3>3 DEF ComesTo
      <4>2. below[s] = s \ {Max(s)} /\ below[s] \in D
        BY <1>4, <3>3
      <4>3. f[below[s]] \in V
        BY <4>2
      <4>4. step[<<f[below[s]], s>>]
                = append_preview_result(f[below[s]], results[Max(s)], limit)
        <5> HIDE DEF V, D, nothing
        <5> QED
          BY <3>3, <4>3
      <4> QED
        BY <3>3, <4>1, <4>2, <4>4
    <3> QED
      BY <3>2, <3>3
  <2> HIDE DEF Take
  <2> QED
    BY <2>6
<1>6. iter = [s \in D |-> Take(iter, s)]
  <2> HIDE DEF Take
  <2> QED
    BY <1>5
<1> HIDE DEF iter
<1> DEFINE K == 0..Len(results)
           counted == [k \in K |-> k]
           First(k) == [shown |-> SubSeq(results, 1, IF k <= limit THEN k ELSE limit),
                        truncated |-> k > limit]
           G == {k \in K : iter[1..k] = First(k)}
<1>7. ASSUME NEW k \in K, \A e \in K : counted[e] < counted[k] => e \in G
      PROVE  k \in G
  <2>1. 1..k \in D
    BY <1>2
  <2>2. CASE k = 0
    <3>1. 1..k = {} /\ iter[1..k] = nothing
      BY <1>6, <2>1, <2>2
    <3>2. SubSeq(results, 1, 0) = <<>> /\ k <= limit /\ (k > limit) = FALSE
      BY <2>2, SubSeqEmpty
    <3>3. First(k) = nothing
      BY <2>2, <3>2
    <3> QED
      BY <3>1, <3>3
  <2>3. CASE k # 0
    <3>1. k \in 1..Len(results) /\ k - 1 \in K /\ counted[k - 1] < counted[k]
      BY <1>2, <2>3
    <3>2. iter[1..k - 1] = First(k - 1)
      <4>1. k - 1 \in G
        <5> HIDE DEF G, counted
        <5> QED
          BY <1>7, <3>1
      <4> QED
        BY <4>1
    <3>3. Max(1..k) = k
      <4>1. k \in Nat /\ 1..k # {} /\ k \in 1..k
        BY <3>1
      <4>2. Max(1..k) \in 1..k /\ \A i \in 1..k : i <= Max(1..k)
        BY <4>1, MaxIn
      <4>3. Max(1..k) <= k /\ k <= Max(1..k) /\ Max(1..k) \in Nat
        BY <4>1, <4>2
      <4> QED
        BY <4>1, <4>3
    <3>4. (1..k) \ {k} = 1..k - 1 /\ 1..k # {}
      BY <3>1
    <3>5. iter[1..k] = append_preview_result(iter[1..k - 1], results[k], limit)
      BY <1>6, <2>1, <3>3, <3>4
    <3>6. append_preview_result(First(k - 1), results[k], limit) = First(k)
      BY <3>1, OneMore
    <3> HIDE DEF First
    <3>7. iter[1..k] = First(k)
      BY <3>2, <3>5, <3>6
    <3> QED
      BY <3>7
  <2> QED
    BY <2>2, <2>3
<1>8. G = K
  <2>1. counted \in [K -> Nat] /\ G \in SUBSET K
    OBVIOUS
  <2> HIDE DEF K, counted, G
  <2>2. Inherited(K, counted, G)
    BY <1>7, <2>1 DEF Inherited
  <2> QED
    BY <2>2, Descent
<1>9. iter[N] = First(Len(results))
  <2>1. Len(results) \in G
    <3>1. Len(results) \in K
      BY <1>2
    <3> HIDE DEF K, G
    <3> QED
      BY <1>8, <3>1
  <2> QED
    BY <2>1
<1> QED
  BY <1>1, <1>9, Zenon DEF cut

Results == [path : Files,
            outcome : {"match", "outside_watched_root", "nested_folder_protected",
                       "exceeds_allowed_depth", "project_root_protected", "allowed"}]

WantedRule == [enabled |-> TRUE, folders |-> Listed(folders), matches |-> Wanted]

MatchesOf(results) == {r.path : r \in {s \in ToSet(results) : s.outcome = "match"}}

(* A rule of these folders that wants what is to be wanted. *)
LEMMA WantedRuleFacts ==
    ASSUME ScopeOK
    PROVE  /\ WantedRule.folders \in Seq(folders) /\ ToSet(WantedRule.folders) = folders
           /\ WantedRule.enabled = TRUE /\ WantedRule.matches = Wanted
<1>1. IsFiniteSet(folders)
  BY FoldersAssumption DEF ScopeOK
<1> QED
  BY <1>1, ListedAll DEF WantedRule

(* Results in a row match what any of them matches. *)
LEMMA MatchesOfFlat ==
    ASSUME NEW seqs \in Seq(Seq(Results))
    PROVE  /\ FlattenSeq(seqs) \in Seq(Results)
           /\ \A p : p \in MatchesOf(FlattenSeq(seqs)) <=>
                         \E i \in 1..Len(seqs) : p \in MatchesOf(seqs[i])
<1>1. /\ FlattenSeq(seqs) \in Seq(Results)
      /\ ToSet(FlattenSeq(seqs)) = UNION {ToSet(seqs[i]) : i \in 1..Len(seqs)}
  BY FlattenAll
<1>2. \A r : r \in ToSet(FlattenSeq(seqs)) <=> \E i \in 1..Len(seqs) : r \in ToSet(seqs[i])
  BY <1>1
<1> QED
  BY <1>1, <1>2 DEF MatchesOf

(* One file: it is a match when the rule wants it and the gate lets it in. *)
LEMMA FileResults ==
    ASSUME ScopeOK, NEW p \in Files, NEW base
    PROVE  /\ process_file(tree, WantedRule, p, base) \in Seq(Results)
           /\ \A q : q \in MatchesOf(process_file(tree, WantedRule, p, base)) <=>
                         q = p /\ p \in Wanted /\ InScope(tree, p, folders, base)
<1> DEFINE results == process_file(tree, WantedRule, p, base)
           Verdict(f) == evaluate_path_scope(tree, p, f)
<1>1. \A f : Verdict(f) \in {"outside_watched_root", "nested_folder_protected",
                             "exceeds_allowed_depth", "project_root_protected", "allowed"}
  BY DEF evaluate_path_scope
<1> HIDE DEF Verdict
<1>2. \/ /\ p \in Wanted /\ InScope(tree, p, folders, base)
         /\ results = <<[path |-> p, outcome |-> "match"]>>
      \/ /\ ~(p \in Wanted /\ InScope(tree, p, folders, base))
         /\ \/ results = <<>>
            \/ \E f : results = <<[path |-> p, outcome |-> Verdict(f)]>>
  BY WantedRuleFacts DEF process_file, Verdict
<1>3. CASE p \in Wanted /\ InScope(tree, p, folders, base)
  <2> DEFINE hit == [path |-> p, outcome |-> "match"]
  <2>1. results = <<hit>>
    BY <1>2, <1>3
  <2>2. hit.path = p /\ hit.outcome = "match" /\ hit \in Results
    BY DEF Results
  <2> HIDE DEF hit, results
  <2>3. results \in Seq(Results) /\ ToSet(results) = {hit}
    BY <2>1, <2>2 DEF ToSet
  <2>4. \A q : q \in MatchesOf(results) <=> q = p
    BY <2>2, <2>3 DEF MatchesOf
  <2> QED
    BY <1>3, <2>3, <2>4 DEF results
<1>4. CASE /\ ~(p \in Wanted /\ InScope(tree, p, folders, base))
           /\ results = <<>>
  <2>1. ToSet(results) = {}
    BY <1>4 DEF ToSet
  <2>2. results \in Seq(Results)
    BY <1>4
  <2> QED
    BY <1>4, <2>1, <2>2 DEF MatchesOf
<1>5. CASE /\ ~(p \in Wanted /\ InScope(tree, p, folders, base))
           /\ \E f : results = <<[path |-> p, outcome |-> Verdict(f)]>>
  <2>1. PICK f : results = <<[path |-> p, outcome |-> Verdict(f)]>>
    BY <1>5
  <2>2. ToSet(results) = {[path |-> p, outcome |-> Verdict(f)]}
    BY <2>1 DEF ToSet
  <2>3. results \in Seq(Results)
    BY <1>1, <2>1 DEF Results
  <2>4. Verdict(f) # "match"
    BY <1>1
  <2> QED
    BY <1>5, <2>2, <2>3, <2>4 DEF MatchesOf
<1> QED
  BY <1>2, <1>3, <1>4, <1>5

ListedFiles(f) == IF f.path \in tree.folders
                  THEN Listed(scan_folder_files(tree, Files, f)) ELSE <<>>

ScanResults(f) ==
    FlattenSeq([i \in DOMAIN ListedFiles(f) |->
                   process_file(tree, WantedRule, ListedFiles(f)[i], f.path)])

(* One folder: its matches are what a scan of it lets the rule at. *)
LEMMA FolderResults ==
    ASSUME ScopeOK, NEW f
    PROVE  /\ ScanResults(f) \in Seq(Results)
           /\ \A p : p \in MatchesOf(ScanResults(f)) <=>
                         /\ f.path \in Dirs /\ p \in Wanted
                         /\ p \in scan_folder_files(tree, Files, f)
                         /\ InScope(tree, p, folders, f.path)
<1> DEFINE S == IF f.path \in Dirs THEN scan_folder_files(tree, Files, f) ELSE {}
           l == ListedFiles(f)
           seqs == [i \in DOMAIN l |-> process_file(tree, WantedRule, l[i], f.path)]
<1>1. S \subseteq Files
  BY DEF scan_folder_files
<1>2. l \in Seq(S) /\ ToSet(l) = S
  <2>1. tree.folders = Dirs
    BY TreeFacts
  <2>2. IsFiniteSet(Files)
    <3>1. Files \subseteq RealFiles \cup Links
      BY DEF Files
    <3> QED
      BY <3>1, TreeAssumption, FS_Subset
  <2>3. IsFiniteSet(S)
    <3> HIDE DEF S
    <3> QED
      BY <1>1, <2>2, FS_Subset
  <2>4. CASE f.path \in Dirs
    BY <2>1, <2>3, <2>4, ListedAll DEF ListedFiles
  <2>5. CASE f.path \notin Dirs
    <3>1. l = <<>> /\ S = {}
      BY <2>1, <2>5 DEF ListedFiles
    <3>2. <<>> \in Seq({}) /\ ToSet(<<>>) = {}
      BY DEF ToSet
    <3> QED
      BY <3>1, <3>2
  <2> QED
    BY <2>4, <2>5
<1>3. f.path \notin Dirs => S = {}
  OBVIOUS
<1>4. f.path \in Dirs => S = scan_folder_files(tree, Files, f)
  OBVIOUS
<1> HIDE DEF S, l
<1>5. DOMAIN l = 1..Len(l) /\ Len(l) \in Nat /\ \A i \in DOMAIN l : l[i] \in Files
  BY <1>1, <1>2
<1>6. \A i \in DOMAIN l :
          /\ seqs[i] \in Seq(Results)
          /\ \A p : p \in MatchesOf(seqs[i]) <=>
                        p = l[i] /\ l[i] \in Wanted /\ InScope(tree, l[i], folders, f.path)
  BY <1>5, FileResults
<1>7. seqs \in Seq(Seq(Results)) /\ Len(seqs) = Len(l)
  <2>1. \A i \in 1..Len(l) : seqs[i] \in Seq(Results)
    BY <1>5, <1>6
  <2>2. seqs = [i \in 1..Len(l) |-> seqs[i]]
    BY <1>5
  <2> HIDE DEF seqs
  <2> QED
    BY <1>5, <2>1, <2>2
<1>8. ScanResults(f) = FlattenSeq(seqs)
  BY DEF ScanResults, l
<1> HIDE DEF seqs
<1>9. /\ FlattenSeq(seqs) \in Seq(Results)
      /\ \A p : p \in MatchesOf(FlattenSeq(seqs)) <=>
                    \E i \in 1..Len(seqs) : p \in MatchesOf(seqs[i])
  BY <1>7, MatchesOfFlat
<1>10. \A p : p \in S <=> \E i \in 1..Len(l) : p = l[i]
  BY <1>2, <1>5 DEF ToSet
<1>11. ASSUME NEW p
       PROVE  p \in MatchesOf(FlattenSeq(seqs)) <=>
                  p \in S /\ p \in Wanted /\ InScope(tree, p, folders, f.path)
  <2>1. p \in MatchesOf(FlattenSeq(seqs)) <=> \E i \in 1..Len(l) : p \in MatchesOf(seqs[i])
    BY <1>7, <1>9
  <2>2. ASSUME NEW i \in 1..Len(l)
        PROVE  p \in MatchesOf(seqs[i]) <=>
                   p = l[i] /\ p \in Wanted /\ InScope(tree, p, folders, f.path)
    <3>1. p \in MatchesOf(seqs[i]) <=>
              p = l[i] /\ l[i] \in Wanted /\ InScope(tree, l[i], folders, f.path)
      BY <1>5, <1>6
    <3>2. CASE p = l[i]
      BY <3>1, <3>2
    <3>3. CASE p # l[i]
      BY <3>1, <3>3
    <3> QED
      BY <3>2, <3>3
  <2> QED
    BY <1>10, <2>1, <2>2
<1> QED
  BY <1>3, <1>4, <1>8, <1>9, <1>11

(* All folders that a preview goes through. *)
LEMMA AskedResults ==
    ASSUME ScopeOK, NEW asked
    PROVE  /\ preview_results(tree, Files, WantedRule, asked) \in Seq(Results)
           /\ \A p : p \in MatchesOf(preview_results(tree, Files, WantedRule, asked)) <=>
                         \E f \in ToSet(resolve_rule_folders(WantedRule, asked)) :
                             p \in MatchesOf(ScanResults(f))
<1> DEFINE fs == resolve_rule_folders(WantedRule, asked)
           flat == [path |-> asked, recursive |-> FALSE, depth |-> 1,
                    allow_project_roots |-> FALSE]
           chosen == [i \in DOMAIN WantedRule.folders |->
                         IF WantedRule.folders[i].path = asked
                         THEN <<WantedRule.folders[i]>> ELSE <<>>]
           seqs == [i \in DOMAIN fs |-> ScanResults(fs[i])]
<1>1. fs \in Seq(folders \cup {flat})
  <2>1. chosen \in Seq(Seq(folders))
    <3>1. /\ DOMAIN WantedRule.folders = 1..Len(WantedRule.folders)
          /\ Len(WantedRule.folders) \in Nat
          /\ \A i \in 1..Len(WantedRule.folders) : WantedRule.folders[i] \in folders
      BY WantedRuleFacts
    <3>2. \A i \in 1..Len(WantedRule.folders) : chosen[i] \in Seq(folders)
      BY <3>1
    <3>3. chosen = [i \in 1..Len(WantedRule.folders) |-> chosen[i]]
      BY <3>1
    <3> HIDE DEF chosen
    <3> QED
      BY <3>1, <3>2, <3>3
  <2>2. FlattenSeq(chosen) \in Seq(folders)
    <3> HIDE DEF chosen
    <3> QED
      BY <2>1, FlattenAll
  <2>3. fs = WantedRule.folders \/ fs = FlattenSeq(chosen) \/ fs = <<flat>>
    BY DEF resolve_rule_folders
  <2>4. \A s \in Seq(folders) : s \in Seq(folders \cup {flat})
    OBVIOUS
  <2>5. <<flat>> \in Seq(folders \cup {flat})
    OBVIOUS
  <2> HIDE DEF fs, flat, chosen
  <2> QED
    BY <2>2, <2>3, <2>4, <2>5, WantedRuleFacts
<1>2. preview_results(tree, Files, WantedRule, asked) = FlattenSeq(seqs)
  BY WantedRuleFacts DEF preview_results, ScanResults, ListedFiles
<1> HIDE DEF fs, flat
<1>3. DOMAIN fs = 1..Len(fs) /\ Len(fs) \in Nat
  BY <1>1
<1>4. seqs \in Seq(Seq(Results)) /\ Len(seqs) = Len(fs)
      /\ \A i \in 1..Len(fs) : seqs[i] = ScanResults(fs[i])
  <2>1. seqs = [i \in 1..Len(fs) |-> ScanResults(fs[i])]
    BY <1>3
  <2>2. \A i \in 1..Len(fs) : ScanResults(fs[i]) \in Seq(Results)
    BY FolderResults
  <2> HIDE DEF seqs
  <2> QED
    BY <1>3, <2>1, <2>2
<1> HIDE DEF seqs
<1>5. /\ FlattenSeq(seqs) \in Seq(Results)
      /\ \A p : p \in MatchesOf(FlattenSeq(seqs)) <=>
                    \E i \in 1..Len(seqs) : p \in MatchesOf(seqs[i])
  BY <1>4, MatchesOfFlat
<1>6. ASSUME NEW p
      PROVE  (\E i \in 1..Len(seqs) : p \in MatchesOf(seqs[i]))
                 <=> \E f \in ToSet(fs) : p \in MatchesOf(ScanResults(f))
  BY <1>3, <1>4 DEF ToSet
<1> QED
  BY <1>2, <1>5, <1>6 DEF fs

(* What a preview shows as a match is what the rule would act on; it leaves
   out no regular file and says when it is cut short. *)
THEOREM PreviewsKeepTheirWord == ScopeSpec => []PreviewComplete
<1>1. ASSUME ScopeOK, ScanAndLiveAgree
      PROVE  PreviewComplete
  <2> DEFINE R(asked) == preview_results(tree, Files, WantedRule, asked)
             live == {p \in Wanted \cap Files : InScope(tree, p, folders, <<>>)}
             Shown(limit) == build_rule_preview(tree, Files, WantedRule, <<>>, limit)
  <2>1. \A asked, p : p \in MatchesOf(R(asked)) <=>
            \E f \in ToSet(resolve_rule_folders(WantedRule, asked)) :
                /\ f.path \in Dirs /\ p \in Wanted
                /\ p \in scan_folder_files(tree, Files, f)
                /\ InScope(tree, p, folders, f.path)
    BY <1>1, AskedResults, FolderResults
  <2>2. MatchesOf(R(<<>>)) \cap RealFiles = live \cap RealFiles
    <3>1. ToSet(resolve_rule_folders(WantedRule, <<>>)) = folders
      BY <1>1, WantedRuleFacts DEF resolve_rule_folders
    <3>2. \A p \in RealFiles : p \in MatchesOf(R(<<>>)) <=>
              p \in Wanted /\ InScope(tree, p, folders, <<>>)
      BY <1>1, <2>1, <3>1, FolderFacts DEF ScanAndLiveAgree
    <3>3. RealFiles \subseteq Files
      BY DEF Files
    <3> HIDE DEF R
    <3> QED
      BY <3>2, <3>3
  <2>3. \A asked \in Dirs : MatchesOf(R(asked)) \subseteq live
    <3>1. ASSUME NEW asked, NEW p \in MatchesOf(R(asked))
          PROVE  p \in live
      <4>1. PICK f \in ToSet(resolve_rule_folders(WantedRule, asked)) :
                /\ p \in Wanted /\ p \in scan_folder_files(tree, Files, f)
                /\ InScope(tree, p, folders, f.path)
        BY <2>1, <3>1
      <4>2. p \in Files
        BY <4>1 DEF scan_folder_files
      <4>3. InScope(tree, p, folders, <<>>)
        BY <4>1 DEF InScope, Considered
      <4> QED
        BY <4>1, <4>2, <4>3
    <3> HIDE DEF R, live
    <3> QED
      BY <3>1
  <2>4. ASSUME NEW limit \in 0..MaxLimit
        PROVE  /\ Shown(limit).shown = SubSeq(R(<<>>), 1, Min({limit, Len(R(<<>>))}))
               /\ Shown(limit).truncated <=> Len(R(<<>>)) > limit
    <3> DEFINE all == R(<<>>)
               shorter == IF Len(all) <= limit THEN Len(all) ELSE limit
    <3>1. all \in Seq(Results) /\ limit \in Nat
      BY <1>1, LimitAssumption, AskedResults
    <3>2. Shown(limit) = FoldLeft(
              LAMBDA preview, result : append_preview_result(preview, result, limit),
              [shown |-> <<>>, truncated |-> FALSE], all)
      BY Zenon DEF build_rule_preview
    <3> HIDE DEF all, Shown
    <3>3. Shown(limit) = [shown |-> SubSeq(all, 1, shorter), truncated |-> Len(all) > limit]
      BY <3>1, <3>2, CutShort, Zenon
    <3>4. Min({limit, Len(all)}) = shorter
      <4>1. shorter \in {limit, Len(all)} /\ \A n \in {limit, Len(all)} : shorter <= n
        BY <3>1
      <4>2. /\ Min({limit, Len(all)}) \in {limit, Len(all)}
            /\ \A n \in {limit, Len(all)} : Min({limit, Len(all)}) <= n
        BY <4>1, Zenon DEF Min
      <4>3. limit \in Int /\ Len(all) \in Int
        BY <3>1
      <4> QED
        BY <4>1, <4>2, <4>3
    <3>5. Shown(limit).shown = SubSeq(all, 1, Min({limit, Len(all)}))
      <4>1. Shown(limit).shown = SubSeq(all, 1, shorter)
        BY <3>3
      <4> HIDE DEF shorter
      <4> QED
        BY <3>4, <4>1
    <3>6. Shown(limit).truncated <=> Len(all) > limit
      <4>1. Shown(limit).truncated = (Len(all) > limit)
        BY <3>3
      <4> QED
        BY <4>1
    <3> QED
      BY <3>5, <3>6 DEF all
  <2> QED
    BY <2>2, <2>3, <2>4 DEF PreviewComplete, MatchesOf, WantedRule
<1>2. ScopeSpec => [](ScopeOK /\ ScanAndLiveAgree)
  BY ScopeInvariant, LiveIsScanned, PTL
<1> QED
  BY <1>1, <1>2, PTL
------------------------------------------------------------------------------
(* Remainders, of multiples of k that follow each other. *)
LEMMA Division ==
    ASSUME NEW x \in Nat, NEW k \in Nat \ {0}
    PROVE  x = k * (x \div k) + (x % k) /\ x % k \in 0..k - 1 /\ x \div k \in Int
OBVIOUS

LEMMA Remainder ==
    ASSUME NEW k \in Nat \ {0}, NEW q \in Int, NEW r \in 0..k - 1
    PROVE  (k * q + r) % k = r
OBVIOUS

LEMMA NextRemainder ==
    ASSUME NEW x \in Nat, NEW k \in Nat \ {0}
    PROVE  (x + 1) % k = IF x % k = k - 1 THEN 0 ELSE (x % k) + 1
<1> DEFINE q == x \div k
           r == x % k
<1>1. x = k * q + r /\ r \in 0..k - 1 /\ q \in Int
  BY Division
<1> HIDE DEF q, r
<1>2. CASE r = k - 1
  <2>1. x + 1 = k * (q + 1) + 0
    <3>1. k * (q + 1) = k * q + k
      BY <1>1
    <3> QED
      BY <1>1, <1>2, <3>1
  <2>2. q + 1 \in Int /\ 0 \in 0..k - 1
    BY <1>1
  <2>3. (k * (q + 1) + 0) % k = 0
    BY <2>2, Remainder
  <2> QED
    BY <1>2, <2>1, <2>3 DEF r
<1>3. CASE r # k - 1
  <2>1. x + 1 = k * q + (r + 1) /\ r + 1 \in 0..k - 1
    BY <1>1, <1>3
  <2>2. (k * q + (r + 1)) % k = r + 1
    BY <1>1, <2>1, Remainder
  <2> QED
    BY <1>3, <2>1, <2>2 DEF r
<1> QED
  BY <1>2, <1>3

(* The calendar: the days of a month count from 1 to 28, 30 or 31. *)
Day(i) == Values.day[i]

LEMMA DayIs ==
    ASSUME NEW i \in 1..365, NEW d \in DaysBefore, d < i,
           \A e \in DaysBefore : e < i => e <= d
    PROVE  Day(i) = i - d
<1> DEFINE S == {e \in DaysBefore : e < i}
<1>1. d \in S /\ \A e \in S : d >= e
  BY DEF DaysBefore
<1>2. Max(S) \in S /\ \A e \in S : Max(S) >= e
  <2> HIDE DEF S
  <2> QED
    BY <1>1, Zenon DEF Max
<1>3. d \in Int /\ Max(S) \in Int
  <2>1. \A e \in DaysBefore : e \in Int
    BY DEF DaysBefore
  <2> QED
    BY <1>1, <1>2, <2>1
<1>4. Max(S) = d
  <2> HIDE DEF S
  <2> QED
    BY <1>1, <1>2, <1>3
<1> QED
  BY <1>4 DEF Day, Values

LEMMA YearEnds == Day(1) = 1 /\ Day(365) = 31
<1>1. /\ 0 \in DaysBefore /\ 0 < 1 /\ 1 \in 1..365
      /\ \A e \in DaysBefore : e < 1 => e <= 0
  BY DEF DaysBefore
<1>2. /\ 334 \in DaysBefore /\ 334 < 365 /\ 365 \in 1..365
      /\ \A e \in DaysBefore : e < 365 => e <= 334
  BY DEF DaysBefore
<1>3. Day(1) = 1 - 0
  BY <1>1, DayIs
<1>4. Day(365) = 365 - 334
  <2>1. PICK i \in 1..365, d \in DaysBefore : i = 365 /\ d = 334
    BY <1>2
  <2>2. d < i /\ \A e \in DaysBefore : e < i => e <= d
    BY <1>2, <2>1
  <2>3. Day(i) = i - d
    BY <2>2, DayIs
  <2> QED
    BY <2>1, <2>3
<1> QED
  BY <1>3, <1>4

LEMMA Months ==
    /\ \A i \in 1..365 : Day(i) \in 1..31
    /\ \A i \in 1..364 : \/ Day(i + 1) = Day(i) + 1
                        \/ (Day(i + 1) = 1 /\ Day(i) \in Lengths["day"])
<1>1. \A i \in 1..365 : \E d \in DaysBefore :
          /\ d < i /\ i - d <= 31
          /\ \A e \in DaysBefore : e < i => e <= d
  BY DEF DaysBefore
<1>2. \A d \in DaysBefore : d \in Int
  BY DEF DaysBefore
<1>3. ASSUME NEW i \in 1..365
      PROVE  Day(i) \in 1..31
  <2>1. PICK d \in DaysBefore : /\ d < i /\ i - d <= 31
                                /\ \A e \in DaysBefore : e < i => e <= d
    BY <1>1
  <2>2. Day(i) = i - d
    BY <2>1, DayIs
  <2> QED
    BY <1>2, <2>1, <2>2
<1>4. ASSUME NEW i \in 1..364
      PROVE  \/ Day(i + 1) = Day(i) + 1
             \/ (Day(i + 1) = 1 /\ Day(i) \in Lengths["day"])
  <2>0. i \in 1..365 /\ i + 1 \in 1..365
    BY <1>4
  <2>1. PICK d \in DaysBefore : /\ d < i /\ i - d <= 31
                                /\ \A e \in DaysBefore : e < i => e <= d
    BY <1>1, <2>0
  <2>2. Day(i) = i - d /\ i + 1 \in 1..365
    BY <2>0, <2>1, DayIs
  <2>3. CASE i \in DaysBefore
    <3>1. Day(i + 1) = (i + 1) - i
      <4>1. i < i + 1 /\ \A e \in DaysBefore : e < i + 1 => e <= i
        BY <1>2
      <4> QED
        BY <2>2, <2>3, <4>1, DayIs
    <3>2. i - d \in {28, 30, 31}
      BY <2>1, <2>3 DEF DaysBefore
    <3> QED
      BY <2>2, <3>1, <3>2 DEF Lengths
  <2>4. CASE i \notin DaysBefore
    <3>1. Day(i + 1) = (i + 1) - d
      <4>1. d < i + 1 /\ \A e \in DaysBefore : e < i + 1 => e <= d
        BY <1>2, <2>1, <2>4
      <4> QED
        BY <2>2, <4>1, DayIs
    <3> QED
      BY <1>2, <2>2, <3>1
  <2> QED
    BY <2>3, <2>4
<1> QED
  BY <1>3, <1>4

(* The values of a field count up until the unit above it is over. *)
CronFields == {"minute", "hour", "day"}

LEMMA FieldValues ==
    ASSUME NEW f \in CronFields, NEW c \in 1..Len(Values[f])
    PROVE  LET past(i) == Values[f][i] - Values[f][1]
               next == (c % Len(Values[f])) + 1
           IN  /\ Len(Values[f]) \in Nat \ {0} /\ next \in 1..Len(Values[f])
               /\ past(c) \in Nat
               /\ \/ past(next) = past(c) + 1
                  \/ (past(next) = 0 /\ past(c) + 1 \in Lengths[f])
<1>1. CASE f = "minute"
  <2>1. Len(Values[f]) = 60 /\ Values[f] = [i \in 1..60 |-> i - 1] /\ Lengths[f] = {60}
    BY <1>1 DEF Values, Lengths
  <2> QED
    BY <2>1
<1>2. CASE f = "hour"
  <2>1. Len(Values[f]) = 24 /\ Values[f] = [i \in 1..24 |-> i - 1] /\ Lengths[f] = {24}
    BY <1>2 DEF Values, Lengths
  <2> QED
    BY <2>1
<1>3. CASE f = "day"
  <2>1. Len(Values[f]) = 365 /\ \A i \in 1..365 : Values[f][i] = Day(i)
    <3>1. Values[f] = [i \in 1..365 |-> i - Max({d \in DaysBefore : d < i})]
      BY <1>3 DEF Values
    <3>2. Len(Values[f]) = 365
      BY <3>1
    <3> QED
      BY <1>3, <3>2 DEF Day
  <2>2. CASE c = 365
    <3>1. (c % Len(Values[f])) + 1 = 1
      BY <2>1, <2>2
    <3>2. Values[f][c] = 31 /\ Values[f][1] = 1
      <4>1. 1 \in 1..365 /\ c \in 1..365
        BY <2>2
      <4>2. Values[f][c] = Day(c) /\ Values[f][1] = Day(1)
        BY <2>1, <4>1
      <4> QED
        BY <2>2, <4>2, YearEnds
    <3>3. (31 - 1) + 1 \in Lengths[f]
      BY <1>3 DEF Lengths
    <3> QED
      BY <2>1, <3>1, <3>2, <3>3
  <2>3. CASE c # 365
    <3>1. c \in 1..364 /\ (c % 365) + 1 = c + 1
      BY <2>1, <2>3
    <3>0. c \in 1..365
      BY <3>1
    <3>2. Day(c) \in 1..31
      BY <3>0, Months
    <3>3. Day(c + 1) = Day(c) + 1 \/ (Day(c + 1) = 1 /\ Day(c) \in Lengths["day"])
      BY <3>1, Months
    <3>4. Values[f][c] = Day(c) /\ Values[f][c + 1] = Day(c + 1) /\ Values[f][1] = 1
      <4>1. c + 1 \in 1..365 /\ 1 \in 1..365
        BY <3>1
      <4> QED
        BY <2>1, <3>0, <4>1, YearEnds
    <3>5. Day(c) - 1 \in Nat /\ (Day(c) - 1) + 1 = Day(c)
      <4>1. \A day \in 1..31 : day - 1 \in Nat /\ (day - 1) + 1 = day
        OBVIOUS
      <4> QED
        BY <3>2, <4>1
    <3>6. (c % Len(Values[f])) + 1 = c + 1
      BY <2>1, <3>1
    <3>7. CASE Day(c + 1) = Day(c) + 1
      BY <2>1, <3>1, <3>2, <3>4, <3>5, <3>6, <3>7
    <3>8. CASE Day(c + 1) = 1 /\ Day(c) \in Lengths["day"]
      BY <1>3, <2>1, <3>1, <3>2, <3>4, <3>5, <3>6, <3>8
    <3> QED
      BY <3>3, <3>7, <3>8
  <2> QED
    BY <2>2, <2>3
<1> QED
  BY <1>1, <1>2, <1>3 DEF CronFields

LEMMA FirstValue ==
    ASSUME NEW f \in CronFields
    PROVE  1 \in 1..Len(Values[f]) /\ Values[f][1] \in Int
<1>1. CASE f = "minute"
  BY <1>1 DEF Values
<1>2. CASE f = "hour"
  BY <1>2 DEF Values
<1>3. CASE f = "day"
  <2>1. Values[f] = [i \in 1..365 |-> i - Max({d \in DaysBefore : d < i})]
    BY <1>3 DEF Values
  <2>2. Len(Values[f]) = 365 /\ 1 \in 1..365
    BY <2>1
  <2>3. Values[f][1] = Day(1)
    BY <1>3 DEF Day
  <2> QED
    BY <2>2, <2>3, YearEnds
<1> QED
  BY <1>1, <1>2, <1>3 DEF CronFields

(* Of a job that there is `since` is what the values passed so far leave when
   they are divided by the step. *)
Passed == Values[job.field][clock] - Values[job.field][1]

ScheduleOK ==
    /\ schedule \in Schedules \cup {Word}
    /\ job # NoJob =>
          /\ job = normalize_cron(schedule)
          /\ job.field \in CronFields /\ job.step \in Nat \ {0}
          /\ clock \in 1..Len(Values[job.field])
          /\ since = Passed % job.step

LEMMA NormalCron ==
    ASSUME NEW s \in Schedules \cup {Word}
    PROVE  /\ normalize_cron(s).field \in CronFields /\ normalize_cron(s).step \in Nat
           /\ s # Word => /\ s.number = normalize_cron(s).step /\ s.number \in Nat
                          /\ Asked[s.letter] = Minutes[normalize_cron(s).field]
<1>1. CASE s = Word
  BY <1>1 DEF normalize_cron, CronFields
<1>2. CASE s # Word
  <2>1. s.letter \in {"m", "h", "d"} /\ s.number \in Nat
    BY <1>2, ScheduleAssumption DEF Schedules
  <2>2. normalize_cron(s) = parse_interval_to_cron(s)
    BY <1>2 DEF normalize_cron
  <2>3. CASE s.letter = "m"
    BY <2>1, <2>2, <2>3 DEF parse_interval_to_cron, CronFields, Asked, Minutes
  <2>4. CASE s.letter = "h"
    BY <2>1, <2>2, <2>4 DEF parse_interval_to_cron, CronFields, Asked, Minutes
  <2>5. CASE s.letter = "d"
    BY <2>1, <2>2, <2>5 DEF parse_interval_to_cron, CronFields, Asked, Minutes
  <2> QED
    BY <2>1, <2>3, <2>4, <2>5
<1> QED
  BY <1>1, <1>2

LEMMA ScheduleInvariant == ScheduleSpec => []ScheduleOK
<1>1. ScheduleInit => ScheduleOK
  <2> SUFFICES ASSUME ScheduleInit, job # NoJob PROVE ScheduleOK
    BY DEF ScheduleInit, ScheduleOK
  <2>1. /\ schedule \in Schedules \cup {Word} /\ job = normalize_cron(schedule)
        /\ TRUE \in Acceptable(normalize_cron(schedule)) /\ clock = 1 /\ since = 0
    BY DEF ScheduleInit
  <2>2. job.field \in CronFields /\ job.step \in Nat
    BY <2>1, NormalCron
  <2>3. job.step # 0
    BY <2>1 DEF Acceptable
  <2>4. 1 \in 1..Len(Values[job.field]) /\ Values[job.field][1] \in Int
    BY <2>2, FirstValue
  <2>5. Passed = 0
    BY <2>1, <2>4 DEF Passed
  <2>6. 0 % job.step = 0
    BY <2>2, <2>3
  <2> QED
    BY <2>1, <2>2, <2>3, <2>4, <2>5, <2>6 DEF ScheduleOK
<1>2. ScheduleOK /\ [Tick]_scheduleVars => ScheduleOK'
  <2>0. ASSUME ScheduleOK, Tick, job = NoJob PROVE ScheduleOK'
    BY <2>0 DEF ScheduleOK, Tick
  <2> SUFFICES ASSUME ScheduleOK, Tick, job # NoJob PROVE ScheduleOK'
    BY <2>0 DEF ScheduleOK, scheduleVars, Passed
  <2> DEFINE V == Values[job.field]
             past(i) == V[i] - V[1]
  <2>1. /\ job.field \in CronFields /\ job.step \in Nat \ {0} /\ clock \in 1..Len(V)
        /\ since = past(clock) % job.step /\ job' = job /\ schedule' = schedule
        /\ clock' = (clock % Len(V)) + 1
        /\ since' = IF past(clock') % job.step = 0 THEN 0 ELSE since + 1
    BY NormalCron DEF ScheduleOK, Tick, Fires, Passed
  <2>2. /\ clock' \in 1..Len(V) /\ past(clock) \in Nat
        /\ past(clock') = past(clock) + 1 \/ past(clock') = 0
    BY <2>1, FieldValues
  <2>3. since' = past(clock') % job.step
    <3>1. CASE past(clock') = 0
      <4>1. 0 % job.step = 0
        BY <2>1
      <4> QED
        BY <2>1, <3>1, <4>1
    <3>2. CASE past(clock') = past(clock) + 1
      <4> DEFINE x == past(clock)
      <4>1. (x + 1) % job.step = IF x % job.step = job.step - 1 THEN 0 ELSE (x % job.step) + 1
        BY <2>1, <2>2, NextRemainder
      <4>2. x % job.step \in 0..job.step - 1
        BY <2>1, <2>2, Division
      <4> QED
        BY <2>1, <3>2, <4>1, <4>2
    <3> QED
      BY <2>2, <3>1, <3>2
  <2> QED
    BY <2>1, <2>2, <2>3 DEF ScheduleOK, Passed
<1> QED
  BY <1>1, <1>2, PTL DEF ScheduleSpec

(* A rule whose interval gave it a job is never late, and exact when its
   interval divides the next larger unit.  Which intervals give a job is the
   cron library's answer: 0 never does, a step too large for its field may
   not, and of those rules the theorem says nothing. *)
THEOREM NeverLate == ScheduleSpec => IntervalsHold
<1>1. ASSUME ScheduleOK, Tick, schedule # Word, job # NoJob
      PROVE  LET asked == schedule.number * Asked[schedule.letter]
                 waited == (since + 1) * Minutes[job.field]
             IN  /\ waited <= asked
                 /\ (/\ since' = 0
                     /\ \A n \in Lengths[job.field] : n % schedule.number = 0)
                    => waited = asked
  <2> DEFINE V == Values[job.field]
             past(i) == V[i] - V[1]
             k == job.step
  <2>1. /\ job.field \in CronFields /\ k \in Nat \ {0} /\ clock \in 1..Len(V)
        /\ since = past(clock) % k /\ clock' = (clock % Len(V)) + 1
        /\ since' = IF past(clock') % k = 0 THEN 0 ELSE since + 1
        /\ schedule \in Schedules \cup {Word} /\ job = normalize_cron(schedule)
    BY <1>1 DEF ScheduleOK, Tick, Fires, Passed
  <2>2. schedule.number = k /\ Asked[schedule.letter] = Minutes[job.field]
    BY <1>1, <2>1, NormalCron
  <2>3. Minutes[job.field] \in {1, 60, 1440}
    BY <2>1 DEF Minutes, CronFields
  <2>4. /\ past(clock) \in Nat
        /\ \/ past(clock') = past(clock) + 1
           \/ (past(clock') = 0 /\ past(clock) + 1 \in Lengths[job.field])
    BY <2>1, FieldValues
  <2> HIDE DEF past
  <2>5. since \in 0..k - 1
    BY <2>1, <2>4, Division
  <2>6. (since + 1) * Minutes[job.field] <= k * Minutes[job.field]
    BY <2>1, <2>3, <2>5
  <2>7. ASSUME since' = 0, \A n \in Lengths[job.field] : n % k = 0
        PROVE  since + 1 = k
    <3>1. (past(clock) + 1) % k = 0
      <4>1. past(clock') % k = 0
        <5>1. since + 1 # 0
          BY <2>5
        <5> QED
          BY <2>1, <2>7, <5>1
      <4>2. CASE past(clock') = past(clock) + 1
        BY <4>1, <4>2
      <4>3. CASE past(clock) + 1 \in Lengths[job.field]
        BY <2>7, <4>3
      <4> QED
        BY <2>4, <4>2, <4>3
    <3>2. (past(clock) + 1) % k = IF since = k - 1 THEN 0 ELSE since + 1
      BY <2>1, <2>4, NextRemainder
    <3> QED
      BY <2>1, <2>5, <3>1, <3>2
  <2> QED
    BY <2>2, <2>6, <2>7
<1>2. ScheduleOK /\ [Tick]_scheduleVars =>
        [schedule # Word /\ job # NoJob =>
          LET asked == schedule.number * Asked[schedule.letter]
              waited == (since + 1) * Minutes[job.field]
          IN  /\ waited <= asked
              /\ /\ since' = 0
                 /\ \A n \in Lengths[job.field] : n % schedule.number = 0
                 => waited = asked]_scheduleVars
  BY <1>1
<1> QED
  BY <1>2, ScheduleInvariant, PTL DEF ScheduleSpec, IntervalsHold
-----------------------------------------------------------------------------
(* Conditions *)

(* What is read has the fields that were written, and the defaults. *)
LEMMA FilledIs ==
    ASSUME NEW j, "type" \in DOMAIN j
    PROVE  /\ Filled(j).type = type_of(j)
           /\ DOMAIN j \subseteq DOMAIN Filled(j)
           /\ \A f \in DOMAIN j \ {"type"} : Filled(j)[f] = j[f]
           /\ Filled(j) = [f \in DOMAIN Filled(j) |-> Filled(j)[f]]
           /\ type_of(j) \in DOMAIN FieldDefaults =>
                 DOMAIN FieldDefaults[type_of(j)] \subseteq DOMAIN Filled(j)
BY DEF Filled

LEMMA ReadLeaf ==
    ASSUME NEW j, WellFormed(j), type_of(j) \in Types \ {"group"}, deserialize(j) # Rejected
    PROVE  /\ deserialize(j) = [f \in DOMAIN Filled(j) |-> deserialize(j)[f]]
           /\ deserialize(j).type = type_of(j)
           /\ \A f \in DOMAIN Filled(j) \ {"operator"} : deserialize(j)[f] = Filled(j)[f]
           /\ type_of(j) \in DOMAIN OperatorsOf =>
                 /\ Filled(j).operator \in DOMAIN ReadAs[OperatorsOf[type_of(j)]]
                 /\ deserialize(j).operator
                       = ReadAs[OperatorsOf[type_of(j)]][Filled(j).operator]
                 /\ "operator" \in DOMAIN Filled(j)
           /\ type_of(j) \notin DOMAIN OperatorsOf => deserialize(j) = Filled(j)
<1> DEFINE cond == Filled(j)
           type == type_of(j)
           names == ReadAs[OperatorsOf[type]]
<1>1. /\ "type" \in DOMAIN j /\ cond.type = type /\ DOMAIN j \subseteq DOMAIN cond
      /\ Required[type] \subseteq DOMAIN j
      /\ cond = [f \in DOMAIN cond |-> cond[f]]
  BY FilledIs DEF WellFormed
<1> HIDE DEF cond, type, names
<1>2. CASE type \in DOMAIN OperatorsOf
  <2>1. deserialize(j) = IF cond.operator \notin DOMAIN names THEN Rejected
                         ELSE [cond EXCEPT !.operator = names[cond.operator]]
    <3>1. type \in Types /\ type # "group"
      BY DEF type
    <3> QED
      BY <1>1, <1>2, <3>1 DEF deserialize, cond, names
  <2>2. "operator" \in Required[type]
    BY <1>2 DEF OperatorsOf, Required
  <2>3. /\ "operator" \in DOMAIN cond /\ cond.operator \in DOMAIN names
        /\ deserialize(j) = [cond EXCEPT !.operator = names[cond.operator]]
    BY <1>1, <2>1, <2>2
  <2>4. "type" \in DOMAIN cond
    BY <1>1
  <2> QED
    BY <1>1, <1>2, <2>3, <2>4 DEF cond, type, names
<1>3. CASE type \notin DOMAIN OperatorsOf
  <2>1. deserialize(j) = cond
    <3>1. type \in Types /\ type # "group"
      BY DEF type
    <3> QED
      BY <1>1, <1>3, <3>1 DEF deserialize, cond
  <2> QED
    BY <1>1, <1>3, <2>1 DEF cond, type
<1> QED
  BY <1>2, <1>3

(* Counting the answers. *)
LEMMA OneOfTwo ==
    ASSUME NEW S, NEW a, NEW b, a # b, S \subseteq {a, b}, a \in S <=> b \notin S
    PROVE  Cardinality(S) = 1
<1>1. S = {a} \/ S = {b}
  OBVIOUS
<1> QED
  BY <1>1, FS_Singleton

LEMMA OneOfThree ==
    ASSUME NEW S, NEW a, NEW b, NEW c, S \subseteq {a, b, c},
           \/ a \in S /\ b \notin S /\ c \notin S
           \/ a \notin S /\ b \in S /\ c \notin S
           \/ a \notin S /\ b \notin S /\ c \in S
    PROVE  Cardinality(S) = 1
<1>1. S = {a} \/ S = {b} \/ S = {c}
  OBVIOUS
<1> QED
  BY <1>1, FS_Singleton

LEMMA AtMostOne ==
    ASSUME NEW S, NEW a, NEW b, S \subseteq {a, b}, ~(a \in S /\ b \in S)
    PROVE  Cardinality(S) <= 1
<1>1. S = {} \/ S = {a} \/ S = {b}
  OBVIOUS
<1>2. Cardinality({}) = 0 /\ Cardinality({a}) = 1 /\ Cardinality({b}) = 1
  BY FS_Singleton, FS_EmptySet
<1> QED
  BY <1>1, <1>2

(* What the operators of a pair say of the same values. *)
LEMMA NameAnswers ==
    ASSUME NEW c, NEW d, NEW file, c.value = d.value, c.case_sensitive = d.case_sensitive,
           \/ c.operator = "Is" /\ d.operator = "IsNot"
           \/ c.operator = "IsOneOf" /\ d.operator = "IsNotOneOf"
           \/ c.operator = "Contains" /\ d.operator = "NotContains"
    PROVE  EvaluateName(c, file) <=> ~EvaluateName(d, file)
<1> DEFINE prep(text) == IF c.case_sensitive THEN text ELSE Lower(text)
           name   == prep(file.name)
           stem   == prep(file.stem)
           values == {prep(v) : v \in ToSet(c.value)}
<1>1. CASE c.operator \in {"Is", "IsOneOf"}
  <2>1. EvaluateName(c, file) <=> {name, stem} \cap values # {}
    BY <1>1 DEF EvaluateName
  <2>2. EvaluateName(d, file) <=> \A v \in values : name # v /\ stem # v
    <3>1. d.operator \in {"IsNot", "IsNotOneOf"}
      BY <1>1
    <3> QED
      BY <3>1 DEF EvaluateName
  <2> HIDE DEF name, stem, values
  <2> QED
    BY <2>1, <2>2
<1>2. CASE c.operator = "Contains"
  <2>1. EvaluateName(c, file) <=> \E v \in values : Within(v, name)
    BY <1>2 DEF EvaluateName
  <2>2. EvaluateName(d, file) <=> \A v \in values : ~Within(v, name)
    <3>1. d.operator = "NotContains"
      BY <1>2
    <3> QED
      BY <3>1 DEF EvaluateName
  <2> HIDE DEF name, stem, values
  <2> QED
    BY <2>1, <2>2
<1> QED
  BY <1>1, <1>2

LEMMA ListAnswers ==
    ASSUME NEW c, NEW d, NEW file, c.value = d.value,
           \/ c.operator = "Is" /\ d.operator = "IsNot"
           \/ c.operator = "IsOneOf" /\ d.operator = "IsNotOneOf"
    PROVE  /\ EvaluateExtension(c, file) <=> ~EvaluateExtension(d, file)
           /\ EvaluateKind(c, file) <=> ~EvaluateKind(d, file)
           /\ EvaluateMimeType(c, file) <=> ~EvaluateMimeType(d, file)
<1>1. EvaluateExtension(c, file) <=> ~EvaluateExtension(d, file)
  BY DEF EvaluateExtension
<1>2. EvaluateKind(c, file) <=> ~EvaluateKind(d, file)
  BY DEF EvaluateKind
<1>3. EvaluateMimeType(c, file) <=> ~EvaluateMimeType(d, file)
  BY DEF EvaluateMimeType
<1> QED
  BY <1>1, <1>2, <1>3

LEMMA ContentAnswers ==
    ASSUME NEW c, NEW d, NEW file, c.value = d.value,
           c.operator = "Contains", d.operator = "NotContains"
    PROVE  /\ HasText(file) => (EvaluateContent(c, file) <=> ~EvaluateContent(d, file))
           /\ ~HasText(file) => ~EvaluateContent(c, file) /\ ~EvaluateContent(d, file)
BY DEF EvaluateContent

LEMMA SizeIsInt ==
    ASSUME NEW halves \in Int, NEW unit
    PROVE  size_to_bytes(halves, unit) \in Int
<1>1. Kilo * Kilo \in Nat /\ Kilo * Kilo * Kilo \in Nat /\ Kilo * Kilo * Kilo * Kilo \in Nat
  BY ConditionsAssumption
<1>2. Factor(unit) \in Nat
  <2> DEFINE k2 == Kilo * Kilo
             k3 == Kilo * Kilo * Kilo
             k4 == Kilo * Kilo * Kilo * Kilo
  <2>1. Factor(unit) \in {1, Kilo, k2, k3, k4}
    BY DEF Factor
  <2>2. k2 \in Nat /\ k3 \in Nat /\ k4 \in Nat /\ Kilo \in Nat
    BY <1>1, ConditionsAssumption
  <2> HIDE DEF k2, k3, k4
  <2> QED
    BY <2>1, <2>2
<1>3. halves * Factor(unit) \in Int
  BY <1>2
<1> QED
  BY <1>3 DEF size_to_bytes

LEMMA SizeAnswers ==
    ASSUME NEW c, NEW file, ~c.range, c.value \in Seq(Int), Len(c.value) = 1, file.size \in Int
    PROVE  \E bound \in Int :
              /\ c.operator = "Gt" => (EvaluateSize(c, file) <=> file.size > bound)
              /\ c.operator = "Lt" => (EvaluateSize(c, file) <=> file.size < bound)
              /\ c.operator = "Eq" => (EvaluateSize(c, file) <=> file.size = bound)
              /\ bound = size_to_bytes(c.value[1], IF c.unit = "" THEN "bytes" ELSE c.unit)
<1> DEFINE bound == size_to_bytes(c.value[1], IF c.unit = "" THEN "bytes" ELSE c.unit)
<1>1. bound \in Int
  <2>1. c.value[1] \in Int
    OBVIOUS
  <2> QED
    BY <2>1, SizeIsInt
<1>2. c.operator = "Gt" => (EvaluateSize(c, file) <=> file.size > bound)
  BY DEF EvaluateSize
<1>3. c.operator = "Lt" => (EvaluateSize(c, file) <=> file.size < bound)
  BY DEF EvaluateSize
<1>4. c.operator = "Eq" => (EvaluateSize(c, file) <=> file.size = bound)
  BY DEF EvaluateSize
<1> QED
  BY <1>1, <1>2, <1>3, <1>4

LEMMA AgeAnswers ==
    ASSUME NEW c, NEW d, NEW file, c.date_type = d.date_type, c.value = d.value, c.unit = d.unit,
           c.value \in Int, file.age[c.date_type] \in Int,
           c.operator = "OlderThan", d.operator = "NewerThan"
    PROVE  ~(EvaluateAge(c, file) /\ EvaluateAge(d, file))
<1> DEFINE kept == file.age[c.date_type]
           age == IF kept = NoDate THEN 0 ELSE kept
           seconds == SecondsIn(IF c.unit = "" THEN "days" ELSE c.unit)
<1>1. seconds \in Int
  BY DEF SecondsIn
<1>2. /\ EvaluateAge(c, file) <=> 2 * age > c.value * seconds
      /\ EvaluateAge(d, file) <=> 2 * age < c.value * seconds
  BY DEF EvaluateAge
<1>3. 2 * age \in Int
  OBVIOUS
<1> HIDE DEF age, seconds
<1>4. c.value * seconds \in Int
  BY <1>1
<1> QED
  BY <1>2, <1>3, <1>4

(* A condition with another operator. *)
With(c, op) == [c EXCEPT !.operator = op]
LEMMA Varied ==
    ASSUME NEW c, "operator" \in DOMAIN c, NEW op
    PROVE  /\ With(c, op).operator = op
           /\ \A f \in DOMAIN c \ {"operator"} : With(c, op)[f] = c[f]
BY DEF With

LEMMA ReadOther ==
    ASSUME NEW j, WellFormed(j)
    PROVE  /\ type_of(j) \notin Types => deserialize(j) = Rejected
           /\ type_of(j) = "group" =>
                 \/ deserialize(j) = Rejected
                 \/ /\ ~Contains([i \in DOMAIN Filled(j).items |->
                                     deserialize_item(Filled(j).items[i])], Rejected)
                    /\ deserialize(j) = [Filled(j) EXCEPT !.items =
                        [i \in DOMAIN Filled(j).items |-> deserialize_item(Filled(j).items[i])]]
<1>1. Filled(j).type = type_of(j)
  BY FilledIs DEF WellFormed
<1> DEFINE type  == Filled(j).type
           names == ReadAs[OperatorsOf[type]]
           items == [i \in DOMAIN Filled(j).items |-> deserialize_item(Filled(j).items[i])]
           group == [Filled(j) EXCEPT !.items = items]
           other == [Filled(j) EXCEPT !.operator = names[Filled(j).operator]]
<1>0. deserialize(j) =
        CASE type \notin Types -> Rejected
          [] type = "group" -> IF Contains(items, Rejected) THEN Rejected ELSE group
          [] type \in DOMAIN OperatorsOf ->
                 IF Filled(j).operator \notin DOMAIN names THEN Rejected ELSE other
          [] OTHER -> Filled(j)
  BY Zenon DEF deserialize
<1> HIDE DEF type, names, items, group, other
<1>2. ASSUME type_of(j) \notin Types PROVE deserialize(j) = Rejected
  <2>1. type # "group" /\ type \notin DOMAIN OperatorsOf /\ type \notin Types
    BY <1>1, <1>2 DEF Types, type
  <2> QED
    BY <1>0, <2>1
<1>3. ASSUME type_of(j) = "group"
      PROVE  \/ deserialize(j) = Rejected
             \/ /\ ~Contains([i \in DOMAIN Filled(j).items |->
                                 deserialize_item(Filled(j).items[i])], Rejected)
                /\ deserialize(j) = [Filled(j) EXCEPT !.items =
                        [i \in DOMAIN Filled(j).items |-> deserialize_item(Filled(j).items[i])]]
  <2>1. type \in Types /\ type = "group" /\ type \notin DOMAIN OperatorsOf
    BY <1>1, <1>3 DEF Types, OperatorsOf, type
  <2>2. deserialize(j) = Rejected \/ (deserialize(j) = group /\ ~Contains(items, Rejected))
    BY <1>0, <2>1
  <2> QED
    BY <2>2 DEF group, items
<1> QED
  BY <1>2, <1>3

LEMMA TypeIs ==
    ASSUME NEW j, WellFormed(j), deserialize(j) # Rejected
    PROVE  type_of(j) \in Types /\ deserialize(j).type = type_of(j)
<1>1. type_of(j) \in Types
  BY ReadOther
<1>2. CASE type_of(j) = "group"
  <2>1. Filled(j).type = "group" /\ "type" \in DOMAIN Filled(j)
    BY <1>2, FilledIs DEF WellFormed
  <2> QED
    BY <1>1, <1>2, <2>1, ReadOther
<1>3. CASE type_of(j) # "group"
  BY <1>1, <1>3, ReadLeaf
<1> QED
  BY <1>1, <1>2, <1>3

(* The file's side. *)
LEMMA FileIs ==
    ASSUME NEW e \in Entries
    PROVE  /\ from_path(e).size \in Nat /\ Len(from_path(e).path) \in Nat
           /\ \A d \in DateKinds : from_path(e).age[d] \in Int
BY EntriesAssumption DEF from_path, NoDate

LEMMA Dispatch ==
    ASSUME NEW c, NEW file
    PROVE  /\ c.type = "name"      => (evaluate(c, file) <=> EvaluateName(c, file))
           /\ c.type = "extension" => (evaluate(c, file) <=> EvaluateExtension(c, file))
           /\ c.type = "size"      => (evaluate(c, file) <=> EvaluateSize(c, file))
           /\ c.type = "age"       => (evaluate(c, file) <=> EvaluateAge(c, file))
           /\ c.type = "mime_type" => (evaluate(c, file) <=> EvaluateMimeType(c, file))
           /\ c.type = "kind"      => (evaluate(c, file) <=> EvaluateKind(c, file))
           /\ c.type = "depth"     => (evaluate(c, file) <=> EvaluateDepth(c, file))
           /\ c.type = "content"   => (evaluate(c, file) <=> EvaluateContent(c, file))
BY DEF evaluate

(* What `Met` of ExactlyOneHolds stands for. *)
Met(c, file, ops) == {op \in ops : evaluate(With(c, op), file)}

LEMMA PairMet ==
    ASSUME NEW c, NEW file, NEW a, NEW b, a # b,
           evaluate(With(c, a), file) <=> ~evaluate(With(c, b), file)
    PROVE  Cardinality(Met(c, file, {a, b})) = 1
<1> DEFINE S == Met(c, file, {a, b})
<1>1. S \subseteq {a, b} /\ (a \in S <=> b \notin S)
  BY DEF Met
<1> HIDE DEF S
<1>2. Cardinality(S) = 1
  BY <1>1, OneOfTwo
<1> QED
  BY <1>2 DEF S

LEMMA NoneMet ==
    ASSUME NEW c, NEW file, NEW a, NEW b,
           ~evaluate(With(c, a), file), ~evaluate(With(c, b), file)
    PROVE  Cardinality(Met(c, file, {a, b})) = 0
<1>1. Met(c, file, {a, b}) = {}
  BY DEF Met
<1> QED
  BY <1>1, FS_EmptySet

(* The fields of a condition that has been read. *)
LEMMA ReadFields ==
    ASSUME NEW j, WellFormed(j), deserialize(j) # Rejected, type_of(j) \in DOMAIN OperatorsOf
    PROVE  LET c == deserialize(j)
           IN  /\ c.type = type_of(j) /\ {"type", "operator"} \subseteq DOMAIN c
               /\ Required[c.type] \subseteq DOMAIN c
               /\ c.operator \in {ReadAs[OperatorsOf[c.type]][n] :
                                     n \in DOMAIN ReadAs[OperatorsOf[c.type]]}
               /\ \A f \in DOMAIN c \ {"operator"} : c[f] = Filled(j)[f]
               /\ c.type \in DOMAIN FieldDefaults => DOMAIN FieldDefaults[c.type] \subseteq DOMAIN c
               /\ c = [f \in DOMAIN c |-> c[f]]
<1> DEFINE c == deserialize(j)
<1>1. type_of(j) \in Types \ {"group"}
  BY DEF Types, OperatorsOf
<1>2. c = [f \in DOMAIN Filled(j) |-> c[f]]
  BY <1>1, ReadLeaf
<1>3. DOMAIN c = DOMAIN Filled(j)
  BY <1>2
<1>4. /\ "type" \in DOMAIN j /\ DOMAIN j \subseteq DOMAIN Filled(j)
      /\ Required[type_of(j)] \subseteq DOMAIN j
      /\ type_of(j) \in DOMAIN FieldDefaults =>
             DOMAIN FieldDefaults[type_of(j)] \subseteq DOMAIN Filled(j)
  BY <1>1, FilledIs DEF WellFormed
<1>5. /\ c.type = type_of(j)
      /\ \A f \in DOMAIN Filled(j) \ {"operator"} : c[f] = Filled(j)[f]
      /\ Filled(j).operator \in DOMAIN ReadAs[OperatorsOf[type_of(j)]]
      /\ c.operator = ReadAs[OperatorsOf[type_of(j)]][Filled(j).operator]
      /\ "operator" \in DOMAIN Filled(j)
  BY <1>1, ReadLeaf
<1> HIDE DEF c
<1>6. /\ c.type = type_of(j) /\ {"type", "operator"} \subseteq DOMAIN c
      /\ Required[c.type] \subseteq DOMAIN c
      /\ c.operator \in {ReadAs[OperatorsOf[c.type]][n] :
                            n \in DOMAIN ReadAs[OperatorsOf[c.type]]}
      /\ \A f \in DOMAIN c \ {"operator"} : c[f] = Filled(j)[f]
      /\ c.type \in DOMAIN FieldDefaults => DOMAIN FieldDefaults[c.type] \subseteq DOMAIN c
      /\ c = [f \in DOMAIN c |-> c[f]]
  BY <1>2, <1>3, <1>4, <1>5
<1> QED
  BY <1>6 DEF c

LEMMA NameHolds ==
    ASSUME NEW c, NEW file, c.type = "name",
           {"type", "operator", "value", "case_sensitive"} \subseteq DOMAIN c, NEW ops \in Negations
    PROVE  Cardinality(Met(c, file, ops)) = 1
<1>1. ASSUME NEW a, NEW b, a # b,
             \/ a = "Is" /\ b = "IsNot"
             \/ a = "IsOneOf" /\ b = "IsNotOneOf"
             \/ a = "Contains" /\ b = "NotContains"
      PROVE  Cardinality(Met(c, file, {a, b})) = 1
  <2>1. /\ With(c, a).operator = a /\ With(c, b).operator = b
        /\ With(c, a).type = "name" /\ With(c, b).type = "name"
        /\ With(c, a).value = With(c, b).value
        /\ With(c, a).case_sensitive = With(c, b).case_sensitive
    BY Varied
  <2>2. EvaluateName(With(c, a), file) <=> ~EvaluateName(With(c, b), file)
    BY <1>1, <2>1, NameAnswers
  <2>3. evaluate(With(c, a), file) <=> ~evaluate(With(c, b), file)
    BY <2>1, <2>2, Dispatch
  <2> QED
    BY <1>1, <2>3, PairMet
<1>2. \/ ops = {"Is", "IsNot"} \/ ops = {"IsOneOf", "IsNotOneOf"}
      \/ ops = {"Contains", "NotContains"}
  BY DEF Negations
<1> QED
  BY <1>1, <1>2

LEMMA ListHolds ==
    ASSUME NEW c, NEW file, c.type \in {"extension", "kind", "mime_type"},
           {"type", "operator", "value"} \subseteq DOMAIN c,
           NEW ops \in Negations \ {{"Contains", "NotContains"}}
    PROVE  Cardinality(Met(c, file, ops)) = 1
<1>1. ASSUME NEW a, NEW b, a # b,
             (a = "Is" /\ b = "IsNot") \/ (a = "IsOneOf" /\ b = "IsNotOneOf")
      PROVE  Cardinality(Met(c, file, {a, b})) = 1
  <2>1. /\ With(c, a).operator = a /\ With(c, b).operator = b
        /\ With(c, a).type = c.type /\ With(c, b).type = c.type
        /\ With(c, a).value = With(c, b).value
    BY Varied
  <2>2. /\ EvaluateExtension(With(c, a), file) <=> ~EvaluateExtension(With(c, b), file)
        /\ EvaluateKind(With(c, a), file) <=> ~EvaluateKind(With(c, b), file)
        /\ EvaluateMimeType(With(c, a), file) <=> ~EvaluateMimeType(With(c, b), file)
    BY <1>1, <2>1, ListAnswers
  <2>3. evaluate(With(c, a), file) <=> ~evaluate(With(c, b), file)
    BY <2>1, <2>2, Dispatch
  <2> QED
    BY <1>1, <2>3, PairMet
<1>2. ops = {"Is", "IsNot"} \/ ops = {"IsOneOf", "IsNotOneOf"}
  BY DEF Negations
<1> QED
  BY <1>1, <1>2

LEMMA ContentHolds ==
    ASSUME NEW c, NEW file, c.type = "content", {"type", "operator", "value"} \subseteq DOMAIN c
    PROVE  Cardinality(Met(c, file, {"Contains", "NotContains"}))
              = IF HasText(file) THEN 1 ELSE 0
<1> DEFINE a == With(c, "Contains")
           b == With(c, "NotContains")
<1>1. /\ a.operator = "Contains" /\ b.operator = "NotContains"
      /\ a.type = "content" /\ b.type = "content" /\ a.value = b.value
  BY Varied
<1>2. /\ evaluate(a, file) <=> EvaluateContent(a, file)
      /\ evaluate(b, file) <=> EvaluateContent(b, file)
  BY <1>1, Dispatch
<1>3. /\ HasText(file) => (EvaluateContent(a, file) <=> ~EvaluateContent(b, file))
      /\ ~HasText(file) => ~EvaluateContent(a, file) /\ ~EvaluateContent(b, file)
  BY <1>1, ContentAnswers
<1>4. CASE HasText(file)
  BY <1>2, <1>3, <1>4, PairMet
<1>5. CASE ~HasText(file)
  BY <1>2, <1>3, <1>5, NoneMet
<1> QED
  BY <1>4, <1>5

LEMMA ThreeMet ==
    ASSUME NEW c, NEW file, NEW m, NEW n, m \in Int, n \in Int,
           evaluate(With(c, "Gt"), file) <=> m > n,
           evaluate(With(c, "Lt"), file) <=> m < n,
           evaluate(With(c, "Eq"), file) <=> m = n
    PROVE  Cardinality(Met(c, file, {"Gt", "Lt", "Eq"})) = 1
<1> DEFINE S == Met(c, file, {"Gt", "Lt", "Eq"})
<1>1. S \subseteq {"Gt", "Lt", "Eq"}
  BY DEF Met
<1>2. ("Gt" \in S <=> m > n) /\ ("Lt" \in S <=> m < n) /\ ("Eq" \in S <=> m = n)
  BY DEF Met
<1>3. \/ m > n /\ ~(m < n) /\ m # n
      \/ ~(m > n) /\ m < n /\ m # n
      \/ ~(m > n) /\ ~(m < n) /\ m = n
  OBVIOUS
<1> HIDE DEF S
<1>4. Cardinality(S) = 1
  BY <1>1, <1>2, <1>3, OneOfThree
<1> QED
  BY <1>4 DEF S

LEMMA SizeHolds ==
    ASSUME NEW c, NEW file, c.type = "size", file.size \in Int,
           {"type", "operator", "value", "range", "unit"} \subseteq DOMAIN c,
           ~c.range, c.value \in Seq(Int), Len(c.value) = 1
    PROVE  Cardinality(Met(c, file, {"Gt", "Lt", "Eq"})) = 1
<1> DEFINE bound == size_to_bytes(c.value[1], IF c.unit = "" THEN "bytes" ELSE c.unit)
<1>1. bound \in Int
  <2>1. c.value[1] \in Int
    OBVIOUS
  <2> QED
    BY <2>1, SizeIsInt
<1>2. ASSUME NEW op \in {"Gt", "Lt", "Eq"}
      PROVE  /\ With(c, op).operator = op
             /\ evaluate(With(c, op), file) <=> EvaluateSize(With(c, op), file)
             /\ op = "Gt" => (EvaluateSize(With(c, op), file) <=> file.size > bound)
             /\ op = "Lt" => (EvaluateSize(With(c, op), file) <=> file.size < bound)
             /\ op = "Eq" => (EvaluateSize(With(c, op), file) <=> file.size = bound)
  <2> DEFINE d == With(c, op)
  <2>1. /\ d.operator = op /\ d.type = "size" /\ d.value = c.value /\ d.range = c.range
        /\ d.unit = c.unit
    BY Varied
  <2> HIDE DEF d
  <2>2. evaluate(d, file) <=> EvaluateSize(d, file)
    BY <2>1, Dispatch
  <2>3. ~d.range /\ d.value \in Seq(Int) /\ Len(d.value) = 1
        /\ size_to_bytes(d.value[1], IF d.unit = "" THEN "bytes" ELSE d.unit) = bound
    BY <2>1
  <2> HIDE DEF bound
  <2>4. /\ d.operator = "Gt" => (EvaluateSize(d, file) <=> file.size > bound)
        /\ d.operator = "Lt" => (EvaluateSize(d, file) <=> file.size < bound)
        /\ d.operator = "Eq" => (EvaluateSize(d, file) <=> file.size = bound)
    BY <2>3, SizeAnswers
  <2> QED
    BY <2>1, <2>2, <2>4 DEF d
<1> HIDE DEF bound
<1> QED
  BY <1>1, <1>2, ThreeMet

LEMMA DepthHolds ==
    ASSUME NEW c, NEW file, c.type = "depth", Len(file.path) \in Nat, Len(c.unit) \in Nat,
           {"type", "operator", "value", "unit"} \subseteq DOMAIN c, c.value \in Int
    PROVE  Cardinality(Met(c, file, {"Gt", "Lt", "Eq"}))
              = IF c.unit # <<>> /\ IsPrefix(c.unit, file.path) THEN 1 ELSE 0
<1> DEFINE depth == Len(file.path) - Len(c.unit)
           below == c.unit # <<>> /\ IsPrefix(c.unit, file.path)
<1>1. ASSUME NEW op \in {"Gt", "Lt", "Eq"}
      PROVE  /\ ~below => ~evaluate(With(c, op), file)
             /\ below /\ op = "Gt" => (evaluate(With(c, op), file) <=> depth > c.value)
             /\ below /\ op = "Lt" => (evaluate(With(c, op), file) <=> depth < c.value)
             /\ below /\ op = "Eq" => (evaluate(With(c, op), file) <=> depth = c.value)
  <2> DEFINE d == With(c, op)
  <2>1. d.operator = op /\ d.type = "depth" /\ d.value = c.value /\ d.unit = c.unit
    BY Varied
  <2> HIDE DEF d
  <2>2. evaluate(d, file) <=> EvaluateDepth(d, file)
    BY <2>1, Dispatch
  <2>3. /\ ~below => ~EvaluateDepth(d, file)
        /\ below /\ op = "Gt" => (EvaluateDepth(d, file) <=> depth > c.value)
        /\ below /\ op = "Lt" => (EvaluateDepth(d, file) <=> depth < c.value)
        /\ below /\ op = "Eq" => (EvaluateDepth(d, file) <=> depth = c.value)
    BY <2>1 DEF EvaluateDepth
  <2> QED
    BY <2>2, <2>3 DEF d
<1>2. depth \in Int
  OBVIOUS
<1> HIDE DEF depth, below
<1>3. CASE below
  <2>1. Cardinality(Met(c, file, {"Gt", "Lt", "Eq"})) = 1
    BY <1>1, <1>2, <1>3, ThreeMet
  <2> QED
    BY <1>3, <2>1 DEF below
<1>4. CASE ~below
  <2>1. Met(c, file, {"Gt", "Lt", "Eq"}) = {}
    BY <1>1, <1>4 DEF Met
  <2> QED
    BY <1>4, <2>1, FS_EmptySet DEF below
<1> QED
  BY <1>3, <1>4

LEMMA AgeHolds ==
    ASSUME NEW c, NEW file, c.type = "age", c.value \in Int, file.age[c.date_type] \in Int,
           {"type", "operator", "value", "unit", "date_type"} \subseteq DOMAIN c
    PROVE  Cardinality(Met(c, file, {"OlderThan", "NewerThan"})) <= 1
<1> DEFINE a == With(c, "OlderThan")
           b == With(c, "NewerThan")
           S == Met(c, file, {"OlderThan", "NewerThan"})
<1>1. /\ a.operator = "OlderThan" /\ b.operator = "NewerThan" /\ a.type = "age" /\ b.type = "age"
      /\ a.value = c.value /\ b.value = c.value /\ a.unit = c.unit /\ b.unit = c.unit
      /\ a.date_type = c.date_type /\ b.date_type = c.date_type
  BY Varied
<1>2. S \subseteq {"OlderThan", "NewerThan"}
  BY DEF Met
<1>3. ("OlderThan" \in S <=> evaluate(a, file)) /\ ("NewerThan" \in S <=> evaluate(b, file))
  BY DEF Met
<1> HIDE DEF a, b, S
<1>4. ~(EvaluateAge(a, file) /\ EvaluateAge(b, file))
  BY <1>1, AgeAnswers
<1>5. ~("OlderThan" \in S /\ "NewerThan" \in S)
  BY <1>1, <1>3, <1>4, Dispatch
<1>6. Cardinality(S) <= 1
  BY <1>2, <1>5, AtMostOne
<1> QED
  BY <1>6 DEF S

LEMMA GroupHolds ==
    ASSUME NEW c, NEW file, c.type = "group", {"type", "match", "items"} \subseteq DOMAIN c,
           NEW T, c.items \in Seq(T), c.items # <<>>
    PROVE  LET Mode(m) == evaluate([c EXCEPT !.match = m], file)
           IN  Mode("any") # Mode("none") /\ (Mode("all") => Mode("any"))
<1> DEFINE Holds == {i \in DOMAIN c.items : evaluate_item(c.items[i], file)}
           g(m) == [c EXCEPT !.match = m]
<1>1. ASSUME NEW m
      PROVE  /\ g(m).type = "group" /\ g(m).items = c.items /\ g(m).match = m
  OBVIOUS
<1>2. /\ evaluate(g("any"), file) <=> Holds # {}
      /\ evaluate(g("none"), file) <=> Holds = {}
      /\ evaluate(g("all"), file) <=> Holds = DOMAIN c.items
  <2>1. ASSUME NEW d, d.type = "group", d.items = c.items
        PROVE  evaluate(d, file) =
                  (\/ d.match = "all"  /\ Holds = DOMAIN c.items
                   \/ d.match = "any"  /\ Holds # {}
                   \/ d.match = "none" /\ Holds = {})
    BY <2>1 DEF evaluate
  <2> HIDE DEF g, Holds
  <2> QED
    BY <1>1, <2>1
<1>3. DOMAIN c.items # {}
  <2>1. DOMAIN c.items = 1..Len(c.items) /\ Len(c.items) \in Nat \ {0}
    OBVIOUS
  <2> QED
    BY <2>1
<1> HIDE DEF Holds
<1> QED
  BY <1>2, <1>3

LEMMA Readings ==
    /\ {ReadAs["list"][n] : n \in DOMAIN ReadAs["list"]}
          \subseteq {"Is", "IsNot", "IsOneOf", "IsNotOneOf"}
    /\ {ReadAs["text"][n] : n \in DOMAIN ReadAs["text"]}
          \subseteq {"Contains", "NotContains", "MatchesRegex"}
<1>1. ReadAs["list"] = [n \in {"is", "is_not", "is_one_of", "is_not_one_of"} |-> Texts[n]]
  BY DEF ReadAs
<1>2. ReadAs["text"] = [n \in {"contains", "not_contains", "matches_regex"} |-> Texts[n]]
  BY DEF ReadAs
<1> QED
  BY <1>1, <1>2 DEF Texts

LEMMA LevelsIn ==
    ASSUME NEW j \in Json
    PROVE  /\ WellFormed(j)
           /\ type_of(j) = "group" => \E n \in DOMAIN Levels :
                 j \in Levels[n] /\ Filled(j).items \in Seq(Nested(n))
<1>1. PICK n \in DOMAIN Levels : j \in Levels[n]
  BY DEF Json
<1>2. type_of(j) = "group" => j.type = "group"
  BY DEF type_of, TypeAliases
<1> QED
  BY <1>1, <1>2, LevelsAssumption

LEMMA ReadGroup ==
    ASSUME NEW j \in Json, deserialize(j) # Rejected, type_of(j) = "group"
    PROVE  LET c == deserialize(j)
               items == [i \in DOMAIN Filled(j).items |-> deserialize_item(Filled(j).items[i])]
           IN  /\ c = [Filled(j) EXCEPT !.items = items]
               /\ {"type", "match", "items"} \subseteq DOMAIN c /\ c.type = "group"
               /\ c.items = items /\ ~Contains(items, Rejected)
               /\ c = [f \in DOMAIN c |-> c[f]]
<1>1. WellFormed(j)
  BY LevelsIn
<1>2. /\ Filled(j).type = "group" /\ "type" \in DOMAIN Filled(j)
      /\ {"match", "items"} \subseteq DOMAIN Filled(j)
      /\ Filled(j) = [f \in DOMAIN Filled(j) |-> Filled(j)[f]]
  <2>1. "group" \in DOMAIN FieldDefaults /\ DOMAIN FieldDefaults["group"] = {"match", "items"}
    BY DEF FieldDefaults
  <2> QED
    BY <1>1, <2>1, FilledIs DEF WellFormed
<1>3. /\ deserialize(j) = [Filled(j) EXCEPT !.items =
             [i \in DOMAIN Filled(j).items |-> deserialize_item(Filled(j).items[i])]]
      /\ ~Contains([i \in DOMAIN Filled(j).items |-> deserialize_item(Filled(j).items[i])], Rejected)
  BY <1>1, ReadOther
<1> QED
  BY <1>2, <1>3

(* Of what has been read exactly one of the answers holds. *)
LEMMA OneOfEach ==
    ASSUME NEW j \in Json, NEW e \in Entries
    PROVE  OneHolds(deserialize(j), from_path(e))
<1> DEFINE c == deserialize(j)
           file == from_path(e)
           answers == CASE c.type = "content" -> HasText(file)
                        [] c.type = "depth" -> c.unit # <<>> /\ IsPrefix(c.unit, file.path)
                        [] OTHER -> TRUE
<1>1. WellFormed(j)
  BY LevelsIn
<1>2. CASE c = Rejected
  BY <1>2 DEF OneHolds, Alternatives, Rejected
<1>3. CASE c # Rejected
  <2>1. c.type = type_of(j) /\ c.type \in Types
    BY <1>1, <1>3, TypeIs
  <2>2. file.size \in Int /\ Len(file.path) \in Nat /\ \A d \in DateKinds : file.age[d] \in Int
    BY FileIs
  <2>3. ASSUME c.type \in DOMAIN OperatorsOf
        PROVE  /\ {"type", "operator"} \subseteq DOMAIN c /\ Required[c.type] \subseteq DOMAIN c
               /\ c.operator \in {ReadAs[OperatorsOf[c.type]][n] :
                                     n \in DOMAIN ReadAs[OperatorsOf[c.type]]}
               /\ \A f \in DOMAIN c \ {"operator"} : c[f] = Filled(j)[f]
               /\ c.type \in DOMAIN FieldDefaults => DOMAIN FieldDefaults[c.type] \subseteq DOMAIN c
    BY <1>1, <1>3, <2>1, <2>3, ReadFields
  <2>4. ASSUME NEW ops \in Alternatives(c), c.operator \in ops
        PROVE  Cardinality(Met(c, file, ops)) = IF answers THEN 1 ELSE 0
    <3>1. CASE c.type = "name"
      <4>1. {"type", "operator", "value", "case_sensitive"} \subseteq DOMAIN c
        BY <2>3, <3>1 DEF OperatorsOf, Required, FieldDefaults
      <4>2. ops \in Negations /\ answers
        BY <2>4, <3>1 DEF Alternatives
      <4> HIDE DEF c, file
      <4> QED
        BY <3>1, <4>1, <4>2, NameHolds
    <3>2. CASE c.type \in {"extension", "kind", "mime_type"}
      <4>1. {"type", "operator", "value"} \subseteq DOMAIN c
        BY <2>3, <3>2 DEF OperatorsOf, Required
      <4>2. ops \in Negations \ {{"Contains", "NotContains"}} /\ answers
        <5>1. c.type # "mime_type" => c.operator \notin {"Contains", "NotContains"}
          <6>1. c.type \in DOMAIN OperatorsOf
                /\ (c.type # "mime_type" => OperatorsOf[c.type] = "list")
            BY <3>2 DEF OperatorsOf
          <6> QED
            BY <2>3, <6>1, Readings
        <5> QED
          BY <2>4, <3>2, <5>1 DEF Alternatives
      <4> HIDE DEF c, file
      <4> QED
        BY <3>2, <4>1, <4>2, ListHolds
    <3>3. CASE c.type = "content"
      <4>1. {"type", "operator", "value"} \subseteq DOMAIN c
        BY <2>3, <3>3 DEF OperatorsOf, Required
      <4>2. ops = {"Contains", "NotContains"} /\ answers = HasText(file)
        <5>1. c.operator \in {"Contains", "NotContains", "MatchesRegex"}
          <6>1. c.type \in DOMAIN OperatorsOf /\ OperatorsOf[c.type] = "text"
            BY <3>3 DEF OperatorsOf
          <6> QED
            BY <2>3, <6>1, Readings
        <5> QED
          BY <2>4, <3>3, <5>1 DEF Alternatives, Negations
      <4> HIDE DEF c, file
      <4> QED
        BY <3>3, <4>1, <4>2, ContentHolds
    <3>4. CASE c.type = "size"
      <4>1. {"type", "operator", "value", "range", "unit"} \subseteq DOMAIN c
        BY <2>3, <3>4 DEF OperatorsOf, Required, FieldDefaults
      <4>2. c.range = Filled(j).range /\ c.value = Filled(j).value
        BY <2>3, <3>4, <4>1 DEF OperatorsOf
      <4>3. ~c.range /\ c.value \in Seq(Int) /\ Len(c.value) = 1 /\ answers
            /\ ops = {"Gt", "Lt", "Eq"}
        BY <1>1, <2>1, <2>4, <3>4, <4>2 DEF WellFormed, Alternatives
      <4> HIDE DEF c, file
      <4> QED
        BY <2>2, <3>4, <4>1, <4>3, SizeHolds
    <3>5. CASE c.type = "depth"
      <4>1. {"type", "operator", "value", "unit"} \subseteq DOMAIN c
        BY <2>3, <3>5 DEF OperatorsOf, Required, FieldDefaults
      <4>2. c.value = Filled(j).value /\ c.unit = Filled(j).unit
        BY <2>3, <3>5, <4>1 DEF OperatorsOf
      <4>3. c.value \in Int /\ Len(c.unit) \in Nat /\ ops = {"Gt", "Lt", "Eq"}
            /\ answers = (c.unit # <<>> /\ IsPrefix(c.unit, file.path))
        BY <1>1, <2>1, <2>4, <3>5, <4>2 DEF WellFormed, Alternatives
      <4> HIDE DEF c, file
      <4> QED
        BY <2>2, <3>5, <4>1, <4>3, DepthHolds
    <3> QED
      BY <2>4, <3>1, <3>2, <3>3, <3>4, <3>5 DEF Alternatives
  <2>5. ASSUME c.type = "age"
        PROVE  Cardinality(Met(c, file, {"OlderThan", "NewerThan"})) <= 1
    <3>1. {"type", "operator", "value", "unit", "date_type"} \subseteq DOMAIN c
      BY <2>3, <2>5 DEF OperatorsOf, Required, FieldDefaults
    <3>2. c.value = Filled(j).value /\ c.date_type = Filled(j).date_type
      BY <2>3, <2>5, <3>1 DEF OperatorsOf
    <3>3. c.value \in Int /\ file.age[c.date_type] \in Int
      BY <1>1, <2>1, <2>2, <2>5, <3>2 DEF WellFormed
    <3> HIDE DEF c, file
    <3> QED
      BY <2>5, <3>1, <3>3, AgeHolds
  <2>6. ASSUME c.type = "group", c.items # <<>>
        PROVE  LET Mode(m) == evaluate([c EXCEPT !.match = m], file)
               IN  Mode("any") # Mode("none") /\ (Mode("all") => Mode("any"))
    <3> DEFINE T == {deserialize_item(x) : x \in Json}
    <3>1. PICK n \in DOMAIN Levels : Filled(j).items \in Seq(Nested(n))
      BY <2>1, <2>6, LevelsIn
    <3>2. {"type", "match", "items"} \subseteq DOMAIN c
          /\ c.items = [i \in DOMAIN Filled(j).items |-> deserialize_item(Filled(j).items[i])]
      BY <1>3, <2>1, <2>6, ReadGroup
    <3>3. Nested(n) \subseteq Json
      BY DEF Nested, Json
    <3>4. c.items \in Seq(T)
      BY <3>1, <3>2, <3>3
    <3> HIDE DEF c, file, T
    <3> QED
      BY <2>6, <3>2, <3>4, GroupHolds
  <2> QED
    BY <2>4, <2>5, <2>6 DEF OneHolds, Met, With
<1> QED
  BY <1>2, <1>3

(* Saving and reading again. *)
LEMMA OperatorNames ==
    ASSUME NEW type \in DOMAIN OperatorsOf,
           NEW op \in {ReadAs[OperatorsOf[type]][n] : n \in DOMAIN ReadAs[OperatorsOf[type]]}
    PROVE  /\ WrittenAs[OperatorsOf[type]][op] \in DOMAIN ReadAs[OperatorsOf[type]]
           /\ ReadAs[OperatorsOf[type]][WrittenAs[OperatorsOf[type]][op]] = op
<1>1. \A kind \in {"string", "list", "size", "age", "cmp", "text", "perm"} :
        \A n \in DOMAIN ReadAs[kind] :
           /\ WrittenAs[kind][ReadAs[kind][n]] \in DOMAIN ReadAs[kind]
           /\ ReadAs[kind][WrittenAs[kind][ReadAs[kind][n]]] = ReadAs[kind][n]
  <2>1. ASSUME NEW n \in DOMAIN Texts
        PROVE  TextNames[Texts[n]] = n
    BY DEF TextNames, Texts
  <2>2. ASSUME NEW kind \in {"string", "list", "text"}, NEW n \in DOMAIN ReadAs[kind]
        PROVE  ReadAs[kind][n] = Texts[n] /\ WrittenAs[kind] = TextNames /\ n \in DOMAIN Texts
    <3>1. ReadAs["string"] = Texts
      BY DEF ReadAs
    <3>2. /\ ReadAs["list"] = [m \in {"is", "is_not", "is_one_of", "is_not_one_of"} |-> Texts[m]]
          /\ ReadAs["text"] = [m \in {"contains", "not_contains", "matches_regex"} |-> Texts[m]]
      BY DEF ReadAs
    <3>3. /\ WrittenAs["string"] = TextNames /\ WrittenAs["list"] = TextNames
          /\ WrittenAs["text"] = TextNames
      BY DEF WrittenAs
    <3>4. {"is", "is_not", "is_one_of", "is_not_one_of", "contains", "not_contains",
           "matches_regex"} \subseteq DOMAIN Texts
      BY DEF Texts
    <3> QED
      BY <3>1, <3>2, <3>3, <3>4
  <2>3. ASSUME NEW n \in DOMAIN ReadAs["age"]
        PROVE  /\ WrittenAs["age"][ReadAs["age"][n]] \in DOMAIN ReadAs["age"]
               /\ ReadAs["age"][WrittenAs["age"][ReadAs["age"][n]]] = ReadAs["age"][n]
    BY DEF ReadAs, WrittenAs
  <2>4. ASSUME NEW n \in DOMAIN ReadAs["perm"]
        PROVE  /\ WrittenAs["perm"][ReadAs["perm"][n]] \in DOMAIN ReadAs["perm"]
               /\ ReadAs["perm"][WrittenAs["perm"][ReadAs["perm"][n]]] = ReadAs["perm"][n]
    BY DEF ReadAs, WrittenAs
  <2>5. ASSUME NEW n \in DOMAIN ReadAs["cmp"]
        PROVE  /\ WrittenAs["cmp"][ReadAs["cmp"][n]] \in DOMAIN ReadAs["cmp"]
               /\ ReadAs["cmp"][WrittenAs["cmp"][ReadAs["cmp"][n]]] = ReadAs["cmp"][n]
    <3>1. ReadAs["cmp"] = Comparisons /\ WrittenAs["cmp"] = Sizes
      BY DEF ReadAs, WrittenAs
    <3> QED
      BY <3>1 DEF Comparisons, Sizes
  <2>6. ASSUME NEW n \in DOMAIN ReadAs["size"]
        PROVE  /\ WrittenAs["size"][ReadAs["size"][n]] \in DOMAIN ReadAs["size"]
               /\ ReadAs["size"][WrittenAs["size"][ReadAs["size"][n]]] = ReadAs["size"][n]
    <3>1. /\ ReadAs["size"] = [m \in DOMAIN Comparisons \cup {"between"} |->
                                  IF m = "between" THEN "Between" ELSE Comparisons[m]]
          /\ WrittenAs["size"] = Sizes
      BY DEF ReadAs, WrittenAs
    <3> QED
      BY <3>1 DEF Comparisons, Sizes
  <2> QED
    BY <2>1, <2>2, <2>3, <2>4, <2>5, <2>6
<1>2. OperatorsOf[type] \in {"string", "list", "size", "age", "cmp", "text", "perm"}
  BY DEF OperatorsOf
<1> QED
  BY <1>1, <1>2

LEMMA FilledFull ==
    ASSUME NEW s, s = [f \in DOMAIN s |-> s[f]], "type" \in DOMAIN s, s.type \in Types,
           s.type \in DOMAIN FieldDefaults => DOMAIN FieldDefaults[s.type] \subseteq DOMAIN s
    PROVE  Filled(s) = s
<1>1. type_of(s) = s.type
  BY DEF type_of, TypeAliases, Types, OperatorsOf
<1> DEFINE defaults == IF s.type \in DOMAIN FieldDefaults THEN FieldDefaults[s.type] ELSE <<>>
<1>2. DOMAIN defaults \subseteq DOMAIN s
  OBVIOUS
<1>3. Filled(s) = [f \in DOMAIN s \cup DOMAIN defaults |->
                     IF f = "type" THEN s.type ELSE IF f \in DOMAIN s THEN s[f] ELSE defaults[f]]
  BY <1>1 DEF Filled
<1> HIDE DEF defaults
<1> QED
  BY <1>2, <1>3

LEMMA LeafRoundTrip ==
    ASSUME NEW j \in Json, deserialize(j) # Rejected, type_of(j) # "group"
    PROVE  deserialize(serialize(deserialize(j))) = deserialize(j)
<1> DEFINE c == deserialize(j)
           s == serialize(c)
<1>1. WellFormed(j) /\ c.type = type_of(j) /\ c.type \in Types \ {"group"}
  BY LevelsIn, TypeIs
<1>2. CASE c.type \in DOMAIN OperatorsOf
  <2> DEFINE w == WrittenAs[OperatorsOf[c.type]][c.operator]
             names == ReadAs[OperatorsOf[c.type]]
  <2>1. /\ {"type", "operator"} \subseteq DOMAIN c /\ c = [f \in DOMAIN c |-> c[f]]
        /\ c.operator \in {names[n] : n \in DOMAIN names}
        /\ c.type \in DOMAIN FieldDefaults => DOMAIN FieldDefaults[c.type] \subseteq DOMAIN c
    BY <1>1, <1>2, ReadFields
  <2>2. w \in DOMAIN names /\ names[w] = c.operator
    BY <1>2, <2>1, OperatorNames
  <2>3. s = [c EXCEPT !.operator = w]
    BY <1>1, <1>2 DEF serialize
  <2> HIDE DEF c, w, names, s
  <2>4. /\ DOMAIN s = DOMAIN c /\ s.type = c.type /\ s.operator = w
        /\ s = [f \in DOMAIN s |-> s[f]]
    BY <2>1, <2>3
  <2>5. Filled(s) = s
    BY <1>1, <2>1, <2>4, FilledFull
  <2>6. deserialize(s) = IF s.operator \notin DOMAIN names THEN Rejected
                         ELSE [s EXCEPT !.operator = names[s.operator]]
    BY <1>1, <1>2, <2>4, <2>5 DEF deserialize, names
  <2>7. [s EXCEPT !.operator = names[w]] = c
    BY <2>1, <2>2, <2>3
  <2> QED
    BY <2>2, <2>4, <2>6, <2>7 DEF c, s
<1>3. CASE c.type \notin DOMAIN OperatorsOf
  <2>1. c = Filled(j) /\ s = c
    BY <1>1, <1>3, ReadLeaf DEF serialize
  <2>2. /\ c = [f \in DOMAIN c |-> c[f]] /\ "type" \in DOMAIN c
        /\ c.type \in DOMAIN FieldDefaults => DOMAIN FieldDefaults[c.type] \subseteq DOMAIN c
    BY <1>1, <2>1, FilledIs DEF WellFormed
  <2> HIDE DEF c, s
  <2>3. Filled(c) = c
    BY <1>1, <2>2, FilledFull
  <2>4. deserialize(c) = c
    BY <1>1, <1>3, <2>3 DEF deserialize
  <2> QED
    BY <2>1, <2>4 DEF c, s
<1> QED
  BY <1>2, <1>3

LEMMA GroupRoundTrip ==
    ASSUME NEW j \in Json, NEW n \in DOMAIN Levels, deserialize(j) # Rejected,
           type_of(j) = "group", Filled(j).items \in Seq(Nested(n)),
           \A x \in Nested(n) : deserialize(x) # Rejected =>
                deserialize(serialize(deserialize(x))) = deserialize(x)
    PROVE  deserialize(serialize(deserialize(j))) = deserialize(j)
<1> DEFINE c == deserialize(j)
           s == serialize(c)
           xs == Filled(j).items
           items == [i \in DOMAIN xs |-> deserialize_item(xs[i])]
           again == [i \in DOMAIN s.items |-> deserialize_item(s.items[i])]
<1>1. /\ {"type", "match", "items"} \subseteq DOMAIN c /\ c.type = "group"
      /\ c.items = items /\ ~Contains(items, Rejected) /\ c = [f \in DOMAIN c |-> c[f]]
  BY ReadGroup
<1>2. s = [c EXCEPT !.items = [i \in DOMAIN c.items |-> serialize_item(c.items[i])]]
  <2> DEFINE written == [c EXCEPT !.items = [i \in DOMAIN c.items |-> serialize_item(c.items[i])]]
             other == [c EXCEPT !.operator = WrittenAs[OperatorsOf[c.type]][c.operator]]
  <2> HIDE DEF c
  <2>1. serialize(c) = CASE c.type = "group" -> written
                         [] c.type \in DOMAIN OperatorsOf -> other
                         [] OTHER -> c
    BY Zenon DEF serialize
  <2>2. "group" \notin DOMAIN OperatorsOf
    BY DEF OperatorsOf
  <2> HIDE DEF written, other
  <2>3. serialize(c) = written
    BY <1>1, <2>1, <2>2
  <2> QED
    BY <2>3 DEF written
<1>3. /\ DOMAIN s = DOMAIN c /\ s.type = "group" /\ s = [f \in DOMAIN s |-> s[f]]
      /\ s.items = [i \in DOMAIN items |-> serialize_item(items[i])]
  <2> HIDE DEF c, s, items
  <2> QED
    BY <1>1, <1>2
<1>4. ASSUME NEW i \in DOMAIN xs
      PROVE  deserialize_item(serialize_item(items[i])) = items[i]
  <2>1. xs[i] \in Nested(n) /\ xs[i] \in Json
    BY DEF Nested, Json
  <2>2. items[i] = deserialize(xs[i])
    BY <2>1, ItemsAssumption
  <2>3. items[i] # Rejected
    <3>1. items \in Seq({deserialize_item(x) : x \in Nested(n)}) /\ DOMAIN items = DOMAIN xs
      OBVIOUS
    <3>2. DOMAIN items = 1..Len(items)
      BY <3>1
    <3> HIDE DEF items
    <3> QED
      BY <1>1, <3>1, <3>2 DEF Contains
  <2> HIDE DEF items, xs
  <2>4. serialize_item(items[i]) = serialize(items[i])
    BY <2>1, <2>2, <2>3, ItemsAssumption
  <2>5. deserialize_item(serialize(items[i])) = deserialize(serialize(items[i]))
    BY <2>1, <2>2, <2>3, ItemsAssumption
  <2>6. deserialize(serialize(items[i])) = items[i]
    BY <2>1, <2>2, <2>3
  <2> QED
    BY <2>4, <2>5, <2>6
<1>5. again = items
  <2>1. DOMAIN s.items = DOMAIN xs /\ DOMAIN items = DOMAIN xs
    BY <1>3
  <2>2. ASSUME NEW i \in DOMAIN xs PROVE deserialize_item(s.items[i]) = items[i]
    <3>1. s.items[i] = serialize_item(items[i])
      BY <1>3
    <3> QED
      BY <1>4, <3>1
  <2> HIDE DEF s, xs
  <2> QED
    BY <2>1, <2>2
<1>6. Filled(s) = s
  <2>1. "group" \in DOMAIN FieldDefaults /\ DOMAIN FieldDefaults["group"] = {"match", "items"}
        /\ "group" \in Types
    BY DEF FieldDefaults, Types
  <2> HIDE DEF c, s
  <2> QED
    BY <1>1, <1>3, <2>1, FilledFull
<1>7. deserialize(s) = IF Contains(again, Rejected) THEN Rejected ELSE [s EXCEPT !.items = again]
  <2>1. "group" \in Types /\ "group" \notin DOMAIN OperatorsOf
    BY DEF Types, OperatorsOf
  <2> DEFINE names == ReadAs[OperatorsOf[s.type]]
             read == [s EXCEPT !.items = again]
             other == [s EXCEPT !.operator = names[s.operator]]
  <2> HIDE DEF c, s
  <2>2. deserialize(s) =
          CASE Filled(s).type \notin Types -> Rejected
            [] Filled(s).type = "group" ->
                 IF Contains([i \in DOMAIN Filled(s).items |-> deserialize_item(Filled(s).items[i])],
                             Rejected)
                 THEN Rejected
                 ELSE [Filled(s) EXCEPT !.items =
                         [i \in DOMAIN Filled(s).items |-> deserialize_item(Filled(s).items[i])]]
            [] Filled(s).type \in DOMAIN OperatorsOf ->
                 IF Filled(s).operator \notin DOMAIN ReadAs[OperatorsOf[Filled(s).type]]
                 THEN Rejected
                 ELSE [Filled(s) EXCEPT !.operator =
                         ReadAs[OperatorsOf[Filled(s).type]][Filled(s).operator]]
            [] OTHER -> Filled(s)
    BY Zenon DEF deserialize
  <2>3. deserialize(s) =
          CASE s.type \notin Types -> Rejected
            [] s.type = "group" -> IF Contains(again, Rejected) THEN Rejected ELSE read
            [] s.type \in DOMAIN OperatorsOf ->
                 IF s.operator \notin DOMAIN names THEN Rejected ELSE other
            [] OTHER -> s
    BY <1>6, <2>2, Zenon
  <2> HIDE DEF again, names, read, other
  <2>4. deserialize(s) = IF Contains(again, Rejected) THEN Rejected ELSE read
    BY <1>3, <2>1, <2>3
  <2> QED
    BY <2>4 DEF read
<1>8. [s EXCEPT !.items = c.items] = c
  <2> HIDE DEF c, s
  <2> QED
    BY <1>1, <1>2
<1> HIDE DEF again, items, s, c
<1>9. deserialize(s) = c
  BY <1>1, <1>5, <1>7, <1>8
<1> QED
  BY <1>9 DEF s, c

LEMMA RoundTrip ==
    ASSUME NEW j \in Json, deserialize(j) # Rejected
    PROVE  deserialize(serialize(deserialize(j))) = deserialize(j)
<1> DEFINE Kept(k) == deserialize(k) # Rejected => deserialize(serialize(deserialize(k))) = deserialize(k)
           S == {n \in DOMAIN Levels : \E k \in Levels[n] : ~Kept(k)}
<1>1. S \subseteq Nat
  BY LevelsAssumption
<1>2. ASSUME S # {} PROVE FALSE
  <2>1. PICK n \in S : \A m \in S : n <= m
    <3> HIDE DEF S
    <3> QED
      BY <1>1, <1>2, LeastNatural
  <2>2. PICK k \in Levels[n] : ~Kept(k)
    OBVIOUS
  <2>3. /\ k \in Json /\ n \in DOMAIN Levels /\ deserialize(k) # Rejected
        /\ deserialize(serialize(deserialize(k))) # deserialize(k)
    BY <2>2 DEF Json
  <2>4. type_of(k) = "group"
    BY <2>3, LeafRoundTrip
  <2>5. Filled(k).items \in Seq(Nested(n))
    <3>1. k.type = "group"
      BY <2>4 DEF type_of, TypeAliases
    <3> QED
      BY <2>3, <3>1, LevelsAssumption
  <2>6. ASSUME NEW x \in Nested(n) PROVE Kept(x)
    <3>1. PICK m \in DOMAIN Levels : m < n /\ x \in Levels[m]
      BY DEF Nested
    <3>2. m \in Nat /\ n \in Nat
      BY <2>3, <3>1, LevelsAssumption
    <3>3. m \notin S
      <4> HIDE DEF S
      <4> QED
        BY <2>1, <3>1, <3>2
    <3> QED
      BY <3>1, <3>3
  <2>7. \A x \in Nested(n) : deserialize(x) # Rejected =>
           deserialize(serialize(deserialize(x))) = deserialize(x)
    BY <2>6
  <2> QED
    BY <2>3, <2>4, <2>5, <2>7, GroupRoundTrip
<1>3. PICK n \in DOMAIN Levels : j \in Levels[n]
  BY DEF Json
<1> QED
  BY <1>2, <1>3

SavedOK ==
    /\ entry \in Entries
    /\ \E j \in Json : deserialize(json) = deserialize(j)

LEMMA SavedInvariant == ConditionSpec => []SavedOK
<1>1. ConditionInit => SavedOK
  BY DEF ConditionInit, SavedOK
<1>2. SavedOK /\ [ConditionNext]_conditionVars => SavedOK'
  <2> SUFFICES ASSUME SavedOK, [ConditionNext]_conditionVars
               PROVE  SavedOK'
    OBVIOUS
  <2>1. CASE SaveRule
    BY <2>1, RoundTrip DEF SavedOK, SaveRule
  <2>2. CASE ChangeFile
    BY <2>2 DEF SavedOK, ChangeFile
  <2>3. CASE UNCHANGED conditionVars
    BY <2>3 DEF SavedOK, conditionVars
  <2> QED
    BY <2>1, <2>2, <2>3 DEF ConditionNext
<1> QED
  BY <1>1, <1>2, PTL DEF ConditionSpec

(* Whatever conditions people write, with whatever values, and however deep
   groups lie in groups, a file meets exactly one of those that exclude each
   other. *)
THEOREM OneAnswer == ConditionSpec => []ExactlyOneHolds
<1>1. SavedOK => ExactlyOneHolds
  BY OneOfEach DEF SavedOK, ExactlyOneHolds
<1> QED
  BY <1>1, SavedInvariant, PTL

(* A condition that is read, written and read again is the same, in every
   item of every group. *)
THEOREM SavedAsMeant == ConditionSpec => SavingKeepsMeaning
<1>1. SavedOK /\ [ConditionNext]_conditionVars =>
        [json' # json => deserialize(json') = deserialize(json)]_conditionVars
  <2> SUFFICES ASSUME SavedOK, ConditionNext, json' # json
               PROVE  deserialize(json') = deserialize(json)
    OBVIOUS
  <2>1. SaveRule
    BY DEF ConditionNext, ChangeFile
  <2> QED
    BY <2>1, RoundTrip DEF SavedOK, SaveRule
<1> QED
  BY <1>1, SavedInvariant, PTL DEF ConditionSpec, SavingKeepsMeaning
==============================================================================
