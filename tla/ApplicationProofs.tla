------------------------ MODULE ApplicationProofs ------------------------
(***************************************************************************)
(* What is promised to an application: a private attribute stays private in *)
(* what an event carries of a context, whatever the contexts, the lists of *)
(* private attributes and the options; and the flags that are built for    *)
(* tests are what the builder was told, and the same for every client.     *)
(*                                                                         *)
(* The filter copies a context member by member and leaves out the places  *)
(* it is told of.  Every place in the copy is a place in the original with *)
(* the same value, or leads to one of the members that the filter adds; so *)
(* what a reference finds in the copy it finds in the original, and there  *)
(* it was not to be excluded.                                              *)
(*                                                                         *)
(* A flag that is built is decided in one call: by the first of its sorted *)
(* targets that has the key, or else its first rule that applies.  A key is *)
(* in the lists of the variation that was told last and of no lesser one,  *)
(* and a builder shares its lists with nothing but the flags it has built. *)
(***************************************************************************)
EXTENDS EvaluationProofs

-----------------------------------------------------------------------------
(* Objects in objects.                                                     *)

Inside(o) ==
  {<<Append(o[1], name), o[2][name].of>> : name \in {n \in DOMAIN o[2] : o[2][n].type = "object"}}

ObjectLevels(depths, N, f) ==
  depths = [n \in 0..N |-> IF n = 0 THEN {<<<<>>, f>>} ELSE UNION {Inside(o) : o \in depths[n - 1]}]

(* There are objects at every depth, or none.                              *)
LEMMA ObjectLevelsExist ==
  ASSUME NEW f, NEW N \in Nat
  PROVE  \E depths : ObjectLevels(depths, N, f)
<1> DEFINE S == {k \in Nat : \E depths : ObjectLevels(depths, k, f)}
<1>1. 0 \in S
  <2> DEFINE top == [n \in 0..0 |-> {<<<<>>, f>>}]
  <2>1. top = [n \in 0..0 |-> IF n = 0 THEN {<<<<>>, f>>} ELSE UNION {Inside(o) : o \in top[n - 1]}]
    OBVIOUS
  <2> QED BY <2>1 DEF ObjectLevels
<1>2. ASSUME NEW k \in S PROVE k + 1 \in S
  <2>1. PICK h : ObjectLevels(h, k, f)
    OBVIOUS
  <2> DEFINE below == UNION {Inside(o) : o \in h[k]}
             g == [n \in 0..k + 1 |-> IF n <= k THEN h[n] ELSE below]
             goal == [n \in 0..k + 1 |-> IF n = 0 THEN {<<<<>>, f>>} ELSE UNION {Inside(o) : o \in g[n - 1]}]
  <2>2. h[0] = {<<<<>>, f>>} /\ \A n \in 1..k : h[n] = UNION {Inside(o) : o \in h[n - 1]}
    BY <2>1 DEF ObjectLevels
  <2>3. ASSUME NEW n \in 0..k + 1 PROVE g[n] = goal[n]
    <3>1. CASE n = 0
      BY <2>2, <3>1
    <3>2. CASE n \in 1..k
      <4>1. n - 1 \in 0..k + 1 /\ n - 1 <= k /\ n # 0
        BY <3>2
      <4>2. g[n - 1] = h[n - 1] /\ g[n] = h[n]
        BY <3>2, <4>1
      <4> QED BY <2>2, <3>2, <4>1, <4>2
    <3>3. CASE n = k + 1
      <4>1. n - 1 = k /\ n - 1 \in 0..k + 1 /\ n # 0 /\ ~(n <= k)
        BY <3>3
      <4>2. g[n - 1] = h[k] /\ g[n] = below
        BY <4>1
      <4> QED BY <4>1, <4>2
    <3> QED BY <3>1, <3>2, <3>3
  <2>4. g = goal
    <3>1. g = [n \in 0..k + 1 |-> g[n]] /\ goal = [n \in 0..k + 1 |-> goal[n]]
      OBVIOUS
    <3> HIDE DEF g, goal
    <3> QED BY <2>3, <3>1
  <2>5. ObjectLevels(g, k + 1, f)
    BY <2>4 DEF ObjectLevels
  <2> QED BY <2>5
<1>3. S = Nat
  <2> HIDE DEF S
  <2>1. S \in SUBSET Nat
    BY DEF S
  <2> QED BY <1>1, <1>2, <2>1, AllNumbers
<1> QED BY <1>3

(* The objects of all depths.                                              *)
LEMMA ObjectsUnfold ==
  ASSUME NEW f
  PROVE  \E depths : ObjectLevels(depths, MaxNesting, f) /\ Objects(f) = UNION {depths[n] : n \in 0..MaxNesting}
<1> DEFINE chosen == CHOOSE depths : ObjectLevels(depths, MaxNesting, f)
<1>1. MaxNesting \in Nat
  BY AttributesAssumption
<1>2. ObjectLevels(chosen, MaxNesting, f)
  BY <1>1, ObjectLevelsExist
<1>3. Objects(f) = UNION {chosen[n] : n \in 0..MaxNesting}
  BY Zenon DEF Objects, ObjectLevels, Inside
<1> HIDE DEF chosen
<1> QED BY <1>2, <1>3

(* What is inside an object.                                               *)
LEMMA InsideIs ==
  ASSUME NEW o, NEW p
  PROVE  p \in Inside(o) <=> \E name \in DOMAIN o[2] :
                               o[2][name].type = "object" /\ p = <<Append(o[1], name), o[2][name].of>>
  BY DEF Inside

(* An object is at the end of a path that is as long as it is deep.        *)
AtDepth(o, W, n) == o = <<o[1], o[2]>> /\ o[1] \in Seq(W) /\ Len(o[1]) = n

(* So it is with each object, at whatever depth.                           *)
LEMMA ObjectsAtDepth ==
  ASSUME NEW f, NEW depths, NEW N \in Nat, ObjectLevels(depths, N, f),
         NEW W, \A n \in 0..N : \A o \in depths[n] : DOMAIN o[2] \subseteq W
  PROVE  \A n \in 0..N : \A o \in depths[n] : AtDepth(o, W, n)
<1> DEFINE S == {n \in 0..N : \A o \in depths[n] : AtDepth(o, W, n)}
<1>1. 0 \in S
  <2>1. depths[0] = {<<<<>>, f>>}
    BY DEF ObjectLevels
  <2>2. <<>> \in Seq(W) /\ Len(<<>>) = 0
    OBVIOUS
  <2> DEFINE empty == <<>>
             top == <<empty, f>>
  <2>3. top = <<top[1], top[2]>> /\ top[1] = empty
    OBVIOUS
  <2> HIDE DEF empty, top
  <2>4. AtDepth(top, W, 0)
    <3>1. empty \in Seq(W) /\ Len(empty) = 0
      BY <2>2 DEF empty
    <3> QED BY <2>3, <3>1 DEF AtDepth
  <2>5. depths[0] = {top}
    BY <2>1 DEF top, empty
  <2> QED BY <2>4, <2>5
<1>2. ASSUME NEW n \in 0..N, n \in S, n < N PROVE n + 1 \in S
  <2>1. depths[n + 1] = UNION {Inside(o) : o \in depths[n]}
    <3>1. n + 1 \in 0..N /\ n + 1 # 0 /\ (n + 1) - 1 = n
      BY <1>2
    <3> QED BY <3>1 DEF ObjectLevels
  <2>2. SUFFICES ASSUME NEW o \in depths[n], NEW name \in DOMAIN o[2] 
                 PROVE  AtDepth(<<Append(o[1], name), o[2][name].of>>, W, n + 1)
    BY <1>2, <2>1, InsideIs
  <2>3. o[1] \in Seq(W) /\ Len(o[1]) = n /\ name \in W
    BY <1>2 DEF AtDepth
  <2>4. Append(o[1], name) \in Seq(W) /\ Len(Append(o[1], name)) = n + 1
    BY <2>3, AppendProperties
  <2> QED BY <2>4 DEF AtDepth
<1> HIDE DEF S
<1>3. \A n \in 0..N : n \in S
  BY <1>1, <1>2, AllNumbersUpTo
<1> QED BY <1>3 DEF S

(* The paths of a context of an application end in time.                   *)
Ends(f) ==
  \A o \in Objects(f) : Len(o[1]) < MaxNesting \/ \A name \in DOMAIN o[2] : o[2][name].type # "object"

(* The objects of a context, with what is in them, and their paths.        *)
ObjectsIn(objects, f, W) ==
  /\ <<<<>>, f>> \in objects
  /\ \A o \in objects :
       /\ DOMAIN o[2] \subseteq W /\ o = <<o[1], o[2]>> /\ o[1] \in Seq(W) /\ Len(o[1]) \in 0..MaxNesting
       /\ \A name \in DOMAIN o[2] : o[2][name].type = "object" => <<Append(o[1], name), o[2][name].of>> \in objects

(* If paths end in time, what is inside one of the objects is one of them. *)
LEMMA ObjectsClosed ==
  ASSUME NEW f, Ends(f)
  PROVE  \E W : ObjectsIn(Objects(f), f, W)
<1>0. MaxNesting \in Nat
  BY AttributesAssumption
<1>1. PICK depths : ObjectLevels(depths, MaxNesting, f) /\ Objects(f) = UNION {depths[n] : n \in 0..MaxNesting}
  BY ObjectsUnfold
<1> DEFINE W == UNION {DOMAIN o[2] : o \in Objects(f)}
<1>2. \A n \in 0..MaxNesting : \A o \in depths[n] : DOMAIN o[2] \subseteq W
  BY <1>1
<1>3. \A o \in Objects(f) : DOMAIN o[2] \subseteq W
  OBVIOUS
<1> HIDE DEF W
<1>4. \A n \in 0..MaxNesting : \A o \in depths[n] : AtDepth(o, W, n)
  BY <1>0, <1>1, <1>2, ObjectsAtDepth
<1>5. <<<<>>, f>> \in Objects(f)
  <2>1. depths[0] = {<<<<>>, f>>} /\ 0 \in 0..MaxNesting
    BY <1>0, <1>1 DEF ObjectLevels
  <2> QED BY <1>1, <2>1
<1>6. ASSUME NEW o \in Objects(f)
      PROVE  /\ o = <<o[1], o[2]>> /\ o[1] \in Seq(W) /\ Len(o[1]) \in 0..MaxNesting
             /\ \A name \in DOMAIN o[2] : o[2][name].type = "object" => <<Append(o[1], name), o[2][name].of>> \in Objects(f)
  <2>1. PICK n \in 0..MaxNesting : o \in depths[n]
    BY <1>1
  <2>2. o = <<o[1], o[2]>> /\ o[1] \in Seq(W) /\ Len(o[1]) = n
    BY <1>4, <2>1 DEF AtDepth
  <2>3. ASSUME NEW name \in DOMAIN o[2], o[2][name].type = "object"
        PROVE  <<Append(o[1], name), o[2][name].of>> \in Objects(f)
    <3>1. n < MaxNesting
      BY <2>2, <2>3 DEF Ends
    <3>2. n + 1 \in 0..MaxNesting /\ n + 1 # 0 /\ (n + 1) - 1 = n
      BY <1>0, <3>1
    <3>3. depths[n + 1] = UNION {Inside(q) : q \in depths[n]}
      BY <1>1, <3>2 DEF ObjectLevels
    <3>4. <<Append(o[1], name), o[2][name].of>> \in Inside(o)
      BY <2>3, InsideIs
    <3> QED BY <1>1, <2>1, <3>2, <3>3, <3>4
  <2> QED BY <2>2, <2>3
<1>7. ObjectsIn(Objects(f), f, W)
  BY <1>3, <1>5, <1>6 DEF ObjectsIn
<1> QED BY <1>7

-----------------------------------------------------------------------------
(* Clones of objects in objects.                                           *)

InsideAt(o, name) == <<Append(o[1], name), o[2][name].of>>

CloneOf(o, paths, clone) ==
  [name \in {n \in DOMAIN o[2] : Append(o[1], n) \notin paths} |->
     IF o[2][name].type = "object" THEN Obj(clone[InsideAt(o, name)]) ELSE o[2][name]]

Cloning(clone, objects, paths) == clone = [o \in objects |-> CloneOf(o, paths, clone)]

(* A clone has what the objects inside are cloned to.                      *)
LEMMA CloneOfSame ==
  ASSUME NEW o, NEW paths, NEW g, NEW h,
         \A name \in DOMAIN o[2] : o[2][name].type = "object" => g[InsideAt(o, name)] = h[InsideAt(o, name)]
  PROVE  CloneOf(o, paths, g) = CloneOf(o, paths, h)
<1> DEFINE D == {n \in DOMAIN o[2] : Append(o[1], n) \notin paths}
           Value(clone, name) == IF o[2][name].type = "object" THEN Obj(clone[InsideAt(o, name)]) ELSE o[2][name]
<1>1. \A name \in D : Value(g, name) = Value(h, name)
  OBVIOUS
<1>2. CloneOf(o, paths, g) = [name \in D |-> Value(g, name)] /\ CloneOf(o, paths, h) = [name \in D |-> Value(h, name)]
  BY DEF CloneOf
<1> HIDE DEF D, Value
<1> QED BY <1>1, <1>2

(* What ends can be cloned, from the inside.                               *)
LEMMA CloneExists ==
  ASSUME NEW objects, NEW f, NEW W, ObjectsIn(objects, f, W), NEW paths
  PROVE  \E clone : Cloning(clone, objects, paths)
<1> DEFINE Inner(k) == {o \in objects : Len(o[1]) + k > MaxNesting}
           S == {k \in Nat : \E clone : Cloning(clone, Inner(k), paths)}
<1>0. MaxNesting \in Nat /\ \A o \in objects : Len(o[1]) \in 0..MaxNesting
  BY AttributesAssumption DEF ObjectsIn
<1>1. 0 \in S
  <2>1. Inner(0) = {}
    BY <1>0
  <2> DEFINE none == [o \in {} |-> {}]
  <2>2. none = [o \in {} |-> CloneOf(o, paths, none)]
    OBVIOUS
  <2> HIDE DEF none
  <2>3. Cloning(none, Inner(0), paths)
    BY <2>1, <2>2 DEF Cloning
  <2> QED BY <2>3
<1>2. ASSUME NEW k \in S PROVE k + 1 \in S
  <2>1. PICK h : Cloning(h, Inner(k), paths)
    OBVIOUS
  <2> DEFINE g == [o \in Inner(k + 1) |-> CloneOf(o, paths, h)]
             goal == [o \in Inner(k + 1) |-> CloneOf(o, paths, g)]
  <2>2. \A o \in Inner(k) : h[o] = CloneOf(o, paths, h)
    BY <2>1 DEF Cloning
  <2>3. ASSUME NEW o \in Inner(k) PROVE o \in Inner(k + 1)
    <3>1. o \in objects /\ Len(o[1]) + k > MaxNesting /\ Len(o[1]) \in 0..MaxNesting
      BY <1>0
    <3> DEFINE l == Len(o[1])
    <3>2. l \in Nat
      BY <1>0, <3>1
    <3>3. l + k > MaxNesting
      BY <3>1
    <3> HIDE DEF l
    <3>4. k \in Nat
      OBVIOUS
    <3>5. l + (k + 1) > MaxNesting
      BY <1>0, <3>2, <3>3, <3>4
    <3> QED BY <3>1, <3>5 DEF l
  <2>4. \A o \in Inner(k) : g[o] = h[o]
    BY <2>2, <2>3
  <2>5. ASSUME NEW o \in Inner(k + 1), NEW name \in DOMAIN o[2], o[2][name].type = "object"
        PROVE  InsideAt(o, name) \in Inner(k)
    <3>1. InsideAt(o, name) \in objects /\ o[1] \in Seq(W) /\ name \in W
      BY <2>5 DEF ObjectsIn, InsideAt
    <3>2. InsideAt(o, name)[1] = Append(o[1], name)
      BY DEF InsideAt
    <3>3. Len(Append(o[1], name)) = Len(o[1]) + 1 /\ Len(o[1]) \in Nat
      BY <3>1, AppendProperties, LenProperties
    <3>4. Len(o[1]) + (k + 1) > MaxNesting
      OBVIOUS
    <3> HIDE DEF S
    <3>5. k \in Nat
      BY DEF S
    <3> DEFINE l == Len(o[1])
    <3>6. l \in Nat /\ l + (k + 1) > MaxNesting
      BY <3>3, <3>4
    <3> HIDE DEF l
    <3>7. (l + 1) + k > MaxNesting
      BY <1>0, <3>5, <3>6
    <3>8. Len(InsideAt(o, name)[1]) + k > MaxNesting
      BY <3>2, <3>3, <3>7 DEF l
    <3> QED BY <3>1, <3>8
  <2>6. ASSUME NEW o \in Inner(k + 1) PROVE CloneOf(o, paths, g) = CloneOf(o, paths, h)
    <3> HIDE DEF g, Inner
    <3>1. \A name \in DOMAIN o[2] : o[2][name].type = "object" => g[InsideAt(o, name)] = h[InsideAt(o, name)]
      BY <2>4, <2>5
    <3> QED BY <3>1, CloneOfSame
  <2>7. g = goal
    BY <2>6
  <2> HIDE DEF g, Inner
  <2>8. Cloning(g, Inner(k + 1), paths)
    BY <2>7 DEF Cloning
  <2> QED BY <2>8
<1>3. MaxNesting + 1 \in S
  <2> HIDE DEF S
  <2>1. S \in SUBSET Nat
    BY DEF S
  <2>2. S = Nat
    BY <1>1, <1>2, <2>1, AllNumbers
  <2> QED BY <1>0, <2>2
<1>4. Inner(MaxNesting + 1) = objects
  <2>1. ASSUME NEW o \in objects PROVE Len(o[1]) + (MaxNesting + 1) > MaxNesting
    <3> DEFINE l == Len(o[1])
    <3>1. l \in Nat
      BY <1>0
    <3> HIDE DEF l
    <3>2. l + (MaxNesting + 1) > MaxNesting
      BY <1>0, <3>1
    <3> QED BY <3>2 DEF l
  <2> QED BY <2>1
<1> QED BY <1>3, <1>4

(* A clone with redactions is one of all the objects.                      *)
LEMMA CloneUnfolds ==
  ASSUME NEW f, NEW W, ObjectsIn(Objects(f), f, W), NEW paths
  PROVE  \E clone : Cloning(clone, Objects(f), paths) /\ CloneWithRedactions(f, paths) = clone[<<<<>>, f>>]
<1> DEFINE chosen == CHOOSE clone : Cloning(clone, Objects(f), paths)
<1>1. Cloning(chosen, Objects(f), paths)
  BY CloneExists
<1>2. CloneWithRedactions(f, paths) = chosen[<<<<>>, f>>]
  BY Zenon DEF CloneWithRedactions, Cloning, CloneOf, InsideAt
<1> HIDE DEF chosen
<1> QED BY <1>1, <1>2

(* Nothing on the path is left out.                                        *)
Spared(path, paths) == \A n \in 1..Len(path) : SubSeq(path, 1, n) \notin paths

Outer(path) == path = <<>> \/ path[1] # <<"_meta">>

(* What is on the path to a name.                                          *)
LEMMA PathGrows ==
  ASSUME NEW W, NEW s \in Seq(W), NEW name \in W
  PROVE  /\ Append(s, name) \in Seq(W) /\ Len(Append(s, name)) = Len(s) + 1 /\ Append(s, name) # <<>>
         /\ \A n \in 1..Len(s) : SubSeq(Append(s, name), 1, n) = SubSeq(s, 1, n)
         /\ SubSeq(Append(s, name), 1, Len(s) + 1) = Append(s, name)
         /\ Append(s, name)[1] = IF s = <<>> THEN name ELSE s[1]
<1> DEFINE a == Append(s, name)
           k == Len(s)
<1>1. a \in Seq(W) /\ Len(a) = k + 1 /\ k \in Nat /\ (\A n \in 1..k : a[n] = s[n]) /\ a[k + 1] = name
  BY AppendProperties, LenProperties
<1>2. a # <<>>
  <2>1. Len(a) # 0
    <3> HIDE DEF a
    <3> QED BY <1>1
  <2>2. Len(<<>>) = 0
    BY EmptySeq
  <2> HIDE DEF a
  <2> QED BY <2>1, <2>2
<1> HIDE DEF a
<1>3. ASSUME NEW n \in 1..k PROVE SubSeq(a, 1, n) = SubSeq(s, 1, n)
  <2>1. SubSeq(a, 1, n) \in Seq(W) /\ Len(SubSeq(a, 1, n)) = n /\ \A m \in 1..n : SubSeq(a, 1, n)[m] = a[m]
    BY <1>1, SubSeqProperties
  <2>2. SubSeq(s, 1, n) \in Seq(W) /\ Len(SubSeq(s, 1, n)) = n /\ \A m \in 1..n : SubSeq(s, 1, n)[m] = s[m]
    BY <1>1, SubSeqProperties
  <2>3. \A m \in 1..n : a[m] = s[m]
    BY <1>1
  <2> DEFINE x == SubSeq(a, 1, n)
             y == SubSeq(s, 1, n)
  <2> HIDE DEF x, y
  <2>4. x \in Seq(W) /\ y \in Seq(W) /\ Len(x) = Len(y) /\ \A m \in 1..Len(x) : x[m] = y[m]
    BY <2>1, <2>2, <2>3 DEF x, y
  <2>5. x = y
    BY <2>4, SeqEqual
  <2> QED BY <2>5 DEF x, y
<1>4. SubSeq(a, 1, k + 1) = a
  <2> DEFINE x == SubSeq(a, 1, k + 1)
  <2>1. x \in Seq(W) /\ Len(x) = k + 1 /\ \A m \in 1..k + 1 : x[m] = a[m]
    BY <1>1, SubSeqProperties
  <2> HIDE DEF x
  <2>2. x = a
    BY <1>1, <2>1, SeqEqual
  <2> QED BY <2>2 DEF x
<1>5. a[1] = IF s = <<>> THEN name ELSE s[1]
  <2>1. CASE s = <<>>
    BY <1>1, <2>1
  <2>2. CASE s # <<>>
    <3>1. 1 \in 1..k
      BY <2>2, EmptySeq, <1>1
    <3> QED BY <1>1, <2>2, <3>1
  <2> QED BY <2>1, <2>2
<1> QED BY <1>1, <1>2, <1>3, <1>4, <1>5 DEF a, k

(* So it is spared if what it is in is.                                    *)
LEMMA SparedGrows ==
  ASSUME NEW W, NEW s \in Seq(W), NEW name \in W, NEW paths
  PROVE  /\ Spared(Append(s, name), paths) <=> Spared(s, paths) /\ Append(s, name) \notin paths
         /\ Outer(Append(s, name)) => Outer(s)
         /\ Outer(Append(s, name)) <=> Append(s, name)[1] # <<"_meta">>
<1> DEFINE a == Append(s, name)
           k == Len(s)
<1>1. /\ Len(a) = k + 1 /\ k \in Nat /\ a # <<>>
      /\ \A n \in 1..k : SubSeq(a, 1, n) = SubSeq(s, 1, n)
      /\ SubSeq(a, 1, k + 1) = a
      /\ a[1] = IF s = <<>> THEN name ELSE s[1]
  BY PathGrows, LenProperties
<1> HIDE DEF a, k
<1>2. Spared(a, paths) <=> Spared(s, paths) /\ a \notin paths
  <2>1. Spared(a, paths) <=> \A n \in 1..k + 1 : SubSeq(a, 1, n) \notin paths
    BY <1>1 DEF Spared
  <2>2. Spared(s, paths) <=> \A n \in 1..k : SubSeq(s, 1, n) \notin paths
    BY DEF Spared, k
  <2>3. \A n : n \in 1..k + 1 <=> n \in 1..k \/ n = k + 1
    BY <1>1
  <2> QED BY <1>1, <2>1, <2>2, <2>3
<1>3. (Outer(a) => Outer(s)) /\ (Outer(a) <=> a[1] # <<"_meta">>)
  BY <1>1 DEF Outer
<1> QED BY <1>2, <1>3 DEF a

(* Each object is copied without what is left out of it; what is in _meta  *)
(* is left open.                                                           *)
CopyOf(copy, o, name, paths) ==
  /\ name \in DOMAIN copy[o] <=> name \in DOMAIN o[2] /\ Append(o[1], name) \notin paths
  /\ name \in DOMAIN o[2] /\ Append(o[1], name) \notin paths =>
       /\ copy[o][name].type = "object" <=> o[2][name].type = "object"
       /\ o[2][name].type = "object" => copy[o][name].of = copy[InsideAt(o, name)]
       /\ o[2][name].type # "object" => copy[o][name] = o[2][name]

Copying(copy, f, paths) ==
  \A o \in Objects(f) : \A name : Outer(Append(o[1], name)) => CopyOf(copy, o, name, paths)

(* The copy of an object that is spared.                                   *)
Copied(q, o, copy, paths) == Outer(o[1]) /\ Spared(o[1], paths) /\ q = <<o[1], copy[o]>>

(* What is inside the copy of an object is the copy of what is inside it.  *)
LEMMA InsideCopied ==
  ASSUME NEW f, NEW W, ObjectsIn(Objects(f), f, W), NEW copy, NEW paths, Copying(copy, f, paths),
         NEW o \in Objects(f), NEW p, Copied(p, o, copy, paths), NEW q, Outer(q[1])
  PROVE  q \in Inside(p) <=> \E r \in Inside(o) : Copied(q, r, copy, paths)
<1>1. p[1] = o[1] /\ p[2] = copy[o]
  BY DEF Copied
<1>2. o[1] \in Seq(W) /\ DOMAIN o[2] \subseteq W
  BY DEF ObjectsIn
<1>3. ASSUME NEW name \in DOMAIN o[2], Outer(Append(o[1], name))
      PROVE  CopyOf(copy, o, name, paths)
  BY <1>3 DEF Copying
<1>4. ASSUME q \in Inside(p) PROVE \E r \in Inside(o) : Copied(q, r, copy, paths)
  <2>1. PICK name \in DOMAIN copy[o] : copy[o][name].type = "object" /\ q = <<Append(o[1], name), copy[o][name].of>>
    BY <1>1, <1>4, InsideIs
  <2>2. Outer(Append(o[1], name))
    BY <2>1
  <2>3. CopyOf(copy, o, name, paths)
    BY <2>2 DEF Copying
  <2>4. name \in DOMAIN o[2] /\ Append(o[1], name) \notin paths /\ o[2][name].type = "object"
        /\ copy[o][name].of = copy[InsideAt(o, name)]
    BY <2>1, <2>3 DEF CopyOf
  <2>5. InsideAt(o, name) \in Inside(o)
    BY <2>4, InsideIs DEF InsideAt
  <2>6. InsideAt(o, name)[1] = Append(o[1], name)
    BY DEF InsideAt
  <2>7. Spared(Append(o[1], name), paths)
    BY <1>2, <2>4, SparedGrows DEF Copied
  <2>8. q = <<Append(o[1], name), copy[InsideAt(o, name)]>>
    BY <2>1, <2>4
  <2>9. Copied(q, InsideAt(o, name), copy, paths)
    BY <2>2, <2>6, <2>7, <2>8 DEF Copied
  <2> QED BY <2>5, <2>9
<1>5. ASSUME NEW r \in Inside(o), Copied(q, r, copy, paths) PROVE q \in Inside(p)
  <2>1. PICK name \in DOMAIN o[2] : o[2][name].type = "object" /\ r = <<Append(o[1], name), o[2][name].of>>
    BY InsideIs
  <2>2. r = InsideAt(o, name) /\ r[1] = Append(o[1], name)
    BY <2>1 DEF InsideAt
  <2>3. Outer(Append(o[1], name)) /\ Spared(Append(o[1], name), paths) /\ q = <<Append(o[1], name), copy[r]>>
    BY <1>5, <2>2 DEF Copied
  <2>4. Append(o[1], name) \notin paths
    BY <1>2, <2>3, SparedGrows
  <2>5. CopyOf(copy, o, name, paths)
    BY <1>3, <2>3
  <2>6. name \in DOMAIN copy[o] /\ copy[o][name].type = "object" /\ copy[o][name].of = copy[r]
    BY <2>1, <2>2, <2>4, <2>5 DEF CopyOf
  <2>7. q = <<Append(p[1], name), p[2][name].of>> /\ name \in DOMAIN p[2] /\ p[2][name].type = "object"
    BY <1>1, <2>3, <2>6
  <2> QED BY <2>7, InsideIs
<1> QED BY <1>4, <1>5

(* The copy of the whole, and the objects in a copy at their depths.       *)
LevelsOf(depths, f) ==
  ObjectLevels(depths, MaxNesting, f) /\ Objects(f) = UNION {depths[n] : n \in 0..MaxNesting}

CopyIs(g, copy, f) == g = copy[<<<<>>, f>>]

AtDepths(copies, V) == \A n \in 0..MaxNesting : \A p \in copies[n] : AtDepth(p, V, n) /\ DOMAIN p[2] \subseteq V

(* So it is at every depth.                                                *)
LEMMA ObjectsCopied ==
  ASSUME NEW f, NEW W, ObjectsIn(Objects(f), f, W), NEW copy, NEW paths, Copying(copy, f, paths),
         NEW depths, LevelsOf(depths, f),
         NEW g, CopyIs(g, copy, f),
         NEW copies, ObjectLevels(copies, MaxNesting, g), NEW V, AtDepths(copies, V)
  PROVE  \A n \in 0..MaxNesting : \A q :
           q \in copies[n] /\ Outer(q[1]) <=> \E o \in depths[n] : Copied(q, o, copy, paths)
<1> DEFINE S == {n \in 0..MaxNesting : \A q : q \in copies[n] /\ Outer(q[1]) <=> \E o \in depths[n] : Copied(q, o, copy, paths)}
<1>0. MaxNesting \in Nat
  BY AttributesAssumption
<1>01. ObjectLevels(depths, MaxNesting, f) /\ Objects(f) = UNION {depths[n] : n \in 0..MaxNesting}
  BY DEF LevelsOf
<1>1. 0 \in S
  <2> DEFINE empty == <<>>
             top == <<empty, f>>
             first == <<empty, g>>
  <2>1. top[1] = empty /\ first[1] = empty /\ g = copy[top] /\ Outer(empty) /\ Spared(empty, paths)
    BY DEF Outer, Spared, CopyIs
  <2>2. depths[0] = {top} /\ copies[0] = {first}
    BY <1>0, <1>01 DEF ObjectLevels
  <2> HIDE DEF empty, top
  <2>3. first = <<top[1], copy[top]>>
    BY <2>1
  <2> HIDE DEF first
  <2>4. \A q : Copied(q, top, copy, paths) <=> q = first
    BY <2>1, <2>3 DEF Copied
  <2> QED BY <1>0, <2>1, <2>2, <2>4
<1>2. ASSUME NEW n \in 0..MaxNesting, n \in S, n < MaxNesting PROVE n + 1 \in S
  <2>1. n + 1 \in 0..MaxNesting /\ n + 1 # 0 /\ (n + 1) - 1 = n
    BY <1>0, <1>2
  <2>2. depths[n + 1] = UNION {Inside(o) : o \in depths[n]} /\ copies[n + 1] = UNION {Inside(p) : p \in copies[n]}
    BY <1>01, <2>1 DEF ObjectLevels
  <2>3. \A q : q \in copies[n] /\ Outer(q[1]) <=> \E o \in depths[n] : Copied(q, o, copy, paths)
    BY <1>2
  <2>4. \A o \in depths[n] : o \in Objects(f)
    BY <1>01
  <2> HIDE DEF S
  <2>5. ASSUME NEW q, q \in copies[n + 1], Outer(q[1]) PROVE \E o \in depths[n + 1] : Copied(q, o, copy, paths)
    <3>1. PICK p \in copies[n] : q \in Inside(p)
      BY <2>2, <2>5
    <3>2. PICK name \in DOMAIN p[2] : q = <<Append(p[1], name), p[2][name].of>>
      BY <3>1, InsideIs
    <3>3. p[1] \in Seq(V) /\ name \in V
      BY <3>2 DEF AtDepths, AtDepth
    <3>4. Outer(Append(p[1], name))
      BY <2>5, <3>2
    <3>5. Outer(p[1])
      BY <3>3, <3>4, SparedGrows
    <3>6. PICK o \in depths[n] : Copied(p, o, copy, paths)
      BY <2>3, <3>5
    <3>7. \E r \in Inside(o) : Copied(q, r, copy, paths)
      BY <2>4, <2>5, <3>1, <3>6, InsideCopied
    <3> QED BY <2>2, <3>7
  <2>6. ASSUME NEW q, NEW r \in depths[n + 1], Copied(q, r, copy, paths) PROVE q \in copies[n + 1] /\ Outer(q[1])
    <3>1. PICK o \in depths[n] : r \in Inside(o)
      BY <2>2
    <3>2. PICK name \in DOMAIN o[2] : r = <<Append(o[1], name), o[2][name].of>>
      BY <3>1, InsideIs
    <3>3. o[1] \in Seq(W) /\ name \in W
      BY <2>4, <3>2 DEF ObjectsIn
    <3>4. Outer(Append(o[1], name)) /\ Spared(Append(o[1], name), paths) /\ Outer(q[1])
      BY <2>6, <3>2 DEF Copied
    <3>5. Outer(o[1]) /\ Spared(o[1], paths)
      BY <3>3, <3>4, SparedGrows
    <3> DEFINE p == <<o[1], copy[o]>>
    <3>6. Copied(p, o, copy, paths)
      BY <3>5 DEF Copied
    <3> HIDE DEF p
    <3>7. p \in copies[n]
      BY <2>3, <3>6
    <3>8. q \in Inside(p)
      BY <2>4, <2>6, <3>1, <3>4, <3>6, InsideCopied
    <3> QED BY <2>2, <3>4, <3>7, <3>8
  <2> QED BY <2>1, <2>5, <2>6 DEF S
<1> HIDE DEF S
<1>3. \A n \in 0..MaxNesting : n \in S
  BY <1>0, <1>1, <1>2, AllNumbersUpTo
<1> QED BY <1>3 DEF S

(* What is in an object that is not an object.                             *)
LeafOf(l, o, name) ==
  name \in DOMAIN o[2] /\ o[2][name].type # "object" /\ l = <<Append(o[1], name), o[2][name]>>

(* Leaves are in the objects.                                              *)
LEMMA LeavesAre ==
  ASSUME NEW f, NEW l
  PROVE  l \in Leaves(f) <=> \E o \in Objects(f) : \E name : LeafOf(l, o, name)
  BY DEF Leaves, LeafOf

(* A copy has the leaves that are not left out.                            *)
LEMMA LeavesCopied ==
  ASSUME NEW f, NEW W, ObjectsIn(Objects(f), f, W), NEW copy, NEW paths, Copying(copy, f, paths),
         NEW g, CopyIs(g, copy, f), NEW l
  PROVE  l \in Leaves(g) /\ l[1][1] # <<"_meta">> <=> l \in Leaves(f) /\ l[1][1] # <<"_meta">> /\ Spared(l[1], paths)
<1>0. MaxNesting \in Nat
  BY AttributesAssumption
<1>1. PICK depths : ObjectLevels(depths, MaxNesting, f) /\ Objects(f) = UNION {depths[n] : n \in 0..MaxNesting}
  BY ObjectsUnfold
<1>2. PICK copies : ObjectLevels(copies, MaxNesting, g) /\ Objects(g) = UNION {copies[n] : n \in 0..MaxNesting}
  BY ObjectsUnfold
<1> DEFINE V == UNION {DOMAIN p[2] : p \in Objects(g)}
<1>3. \A n \in 0..MaxNesting : \A p \in copies[n] : DOMAIN p[2] \subseteq V
  BY <1>2
<1> HIDE DEF V
<1>4. \A n \in 0..MaxNesting : \A p \in copies[n] : AtDepth(p, V, n)
  BY <1>0, <1>2, <1>3, ObjectsAtDepth
<1>45. AtDepths(copies, V)
  BY <1>3, <1>4 DEF AtDepths
<1>46. LevelsOf(depths, f)
  BY <1>1 DEF LevelsOf
<1>5. \A n \in 0..MaxNesting : \A q : q \in copies[n] /\ Outer(q[1]) <=> \E o \in depths[n] : Copied(q, o, copy, paths)
  BY <1>2, <1>45, <1>46, ObjectsCopied
<1>6. ASSUME l \in Leaves(g), l[1][1] # <<"_meta">> PROVE l \in Leaves(f) /\ Spared(l[1], paths)
  <2>1. PICK p \in Objects(g) : \E name : LeafOf(l, p, name)
    BY <1>6, LeavesAre
  <2>2. PICK name : LeafOf(l, p, name)
    BY <2>1
  <2>3. PICK n \in 0..MaxNesting : p \in copies[n]
    BY <1>2
  <2>4. p[1] \in Seq(V) /\ name \in V /\ l[1] = Append(p[1], name) /\ l[2] = p[2][name]
    BY <1>3, <1>4, <2>2, <2>3 DEF LeafOf, AtDepth
  <2>45. Append(p[1], name)[1] # <<"_meta">>
    BY <1>6, <2>4
  <2>5. Outer(Append(p[1], name)) /\ Outer(p[1])
    BY <2>4, <2>45, SparedGrows
  <2>6. PICK o \in depths[n] : Copied(p, o, copy, paths)
    BY <1>5, <2>3, <2>5
  <2>7. o \in Objects(f) /\ p[1] = o[1] /\ p[2] = copy[o] /\ Spared(o[1], paths)
    BY <1>1, <2>6 DEF Copied
  <2>8. CopyOf(copy, o, name, paths)
    BY <2>5, <2>7 DEF Copying
  <2>9. name \in DOMAIN o[2] /\ Append(o[1], name) \notin paths /\ o[2][name].type # "object" /\ copy[o][name] = o[2][name]
    BY <2>2, <2>7, <2>8 DEF CopyOf, LeafOf
  <2>10. LeafOf(l, o, name)
    BY <2>2, <2>7, <2>9 DEF LeafOf
  <2>11. o[1] \in Seq(W) /\ name \in W
    BY <2>7, <2>9 DEF ObjectsIn
  <2>12. Spared(Append(o[1], name), paths)
    BY <2>7, <2>9, <2>11, SparedGrows
  <2> QED BY <2>4, <2>7, <2>10, <2>12, LeavesAre
<1>7. ASSUME l \in Leaves(f), l[1][1] # <<"_meta">>, Spared(l[1], paths) PROVE l \in Leaves(g)
  <2>1. PICK o \in Objects(f) : \E name : LeafOf(l, o, name)
    BY <1>7, LeavesAre
  <2>2. PICK name : LeafOf(l, o, name)
    BY <2>1
  <2>3. PICK n \in 0..MaxNesting : o \in depths[n]
    BY <1>1
  <2>4. o[1] \in Seq(W) /\ name \in W /\ l[1] = Append(o[1], name)
    BY <2>2 DEF LeafOf, ObjectsIn
  <2>5. Outer(Append(o[1], name)) /\ Outer(o[1]) /\ Spared(o[1], paths) /\ Append(o[1], name) \notin paths
    BY <1>7, <2>4, SparedGrows
  <2> DEFINE p == <<o[1], copy[o]>>
  <2>6. Copied(p, o, copy, paths) /\ p[1] = o[1] /\ p[2] = copy[o]
    BY <2>5 DEF Copied
  <2> HIDE DEF p
  <2>7. p \in copies[n]
    BY <1>5, <2>3, <2>6
  <2>8. CopyOf(copy, o, name, paths)
    BY <2>5 DEF Copying
  <2>9. name \in DOMAIN copy[o] /\ copy[o][name].type # "object" /\ copy[o][name] = o[2][name]
    BY <2>2, <2>5, <2>8 DEF CopyOf, LeafOf
  <2>10. LeafOf(l, p, name)
    BY <2>2, <2>6, <2>9 DEF LeafOf
  <2>11. p \in Objects(g)
    BY <1>2, <2>7
  <2> QED BY <2>10, <2>11, LeavesAre
<1> QED BY <1>6, <1>7

(* The path to a leaf is not empty, begins with a name of the context, and *)
(* all that is on it is there.                                             *)
LEMMA LeavesHavePlaces ==
  ASSUME NEW f, NEW W, ObjectsIn(Objects(f), f, W), NEW l \in Leaves(f)
  PROVE  /\ l[1] \in Seq(W) /\ l[1] # <<>> /\ Len(l[1]) \in Nat /\ 1 \in 1..Len(l[1])
         /\ l[1][1] \in DOMAIN f
         /\ \A n \in 1..Len(l[1]) : SubSeq(l[1], 1, n) \in Places(f)
<1>0. MaxNesting \in Nat
  BY AttributesAssumption
<1>1. PICK depths : ObjectLevels(depths, MaxNesting, f) /\ Objects(f) = UNION {depths[n] : n \in 0..MaxNesting}
  BY ObjectsUnfold
<1> DEFINE Known(path) == (path # <<>> => path[1] \in DOMAIN f) /\ \A n \in 1..Len(path) : SubSeq(path, 1, n) \in Places(f)
           S == {n \in 0..MaxNesting : \A o \in depths[n] : Known(o[1])}
<1>2. ASSUME NEW o \in Objects(f), Known(o[1]), NEW name \in DOMAIN o[2], o[1] = <<>> => o[2] = f
      PROVE  Known(Append(o[1], name)) /\ Append(o[1], name) # <<>> /\ Append(o[1], name) \in Seq(W)
  <2> DEFINE a == Append(o[1], name)
             k == Len(o[1])
  <2>1. o[1] \in Seq(W) /\ name \in W
    BY DEF ObjectsIn
  <2>2. /\ a \in Seq(W) /\ Len(a) = k + 1 /\ k \in Nat /\ a # <<>>
        /\ \A n \in 1..k : SubSeq(a, 1, n) = SubSeq(o[1], 1, n)
        /\ SubSeq(a, 1, k + 1) = a
        /\ a[1] = IF o[1] = <<>> THEN name ELSE o[1][1]
    BY <2>1, PathGrows, LenProperties
  <2>3. a \in Places(f)
    BY DEF Places
  <2> HIDE DEF a
  <2>4. ASSUME NEW n \in 1..k + 1 PROVE SubSeq(a, 1, n) \in Places(f)
    <3>1. CASE n \in 1..k
      BY <1>2, <2>2, <3>1
    <3>2. CASE n = k + 1
      BY <2>2, <2>3, <3>2
    <3> QED BY <2>2, <3>1, <3>2
  <2>5. a[1] \in DOMAIN f
    BY <1>2, <2>2
  <2> QED BY <2>2, <2>4, <2>5 DEF a
<1>3. \A o \in depths[0] : o[1] = <<>> /\ o[2] = f
  BY <1>0, <1>1 DEF ObjectLevels
<1>4. 0 \in S
  <2> DEFINE empty == <<>>
  <2>1. Len(empty) = 0
    OBVIOUS
  <2>2. Known(empty)
    BY <2>1
  <2> QED BY <1>0, <1>3, <2>2
<1>5. ASSUME NEW n \in 0..MaxNesting, NEW o \in depths[n], o[1] = <<>> PROVE o[2] = f
  <2>1. CASE n = 0
    BY <1>3, <2>1
  <2>2. CASE n # 0
    <3>1. n - 1 \in 0..MaxNesting /\ depths[n] = UNION {Inside(p) : p \in depths[n - 1]}
      BY <1>0, <1>1, <2>2 DEF ObjectLevels
    <3>2. PICK p \in depths[n - 1] : o \in Inside(p)
      BY <3>1
    <3>3. PICK name \in DOMAIN p[2] : o = <<Append(p[1], name), p[2][name].of>>
      BY <3>2, InsideIs
    <3>4. p \in Objects(f)
      BY <1>1, <3>1
    <3>5. p[1] \in Seq(W) /\ name \in W
      BY <3>4 DEF ObjectsIn
    <3>6. Append(p[1], name) # <<>>
      BY <3>5, PathGrows
    <3> QED BY <1>5, <3>3, <3>6
  <2> QED BY <2>1, <2>2
<1>6. ASSUME NEW n \in 0..MaxNesting, n \in S, n < MaxNesting PROVE n + 1 \in S
  <2>1. n + 1 \in 0..MaxNesting /\ n + 1 # 0 /\ (n + 1) - 1 = n
    BY <1>0, <1>6
  <2>2. depths[n + 1] = UNION {Inside(o) : o \in depths[n]}
    BY <1>1, <2>1 DEF ObjectLevels
  <2>3. SUFFICES ASSUME NEW q \in depths[n + 1] PROVE Known(q[1])
    BY <2>1
  <2>4. PICK o \in depths[n] : q \in Inside(o)
    BY <2>2
  <2>5. PICK name \in DOMAIN o[2] : q = <<Append(o[1], name), o[2][name].of>>
    BY <2>4, InsideIs
  <2>6. o \in Objects(f) /\ Known(o[1]) /\ (o[1] = <<>> => o[2] = f)
    BY <1>1, <1>5, <1>6
  <2> HIDE DEF Known, S
  <2>7. Known(Append(o[1], name))
    BY <1>2, <2>6
  <2> QED BY <2>5, <2>7
<1> HIDE DEF S
<1>7. \A n \in 0..MaxNesting : n \in S
  BY <1>0, <1>4, <1>6, AllNumbersUpTo
<1>8. PICK o \in Objects(f) : \E name : LeafOf(l, o, name)
  BY LeavesAre
<1>9. PICK name \in DOMAIN o[2] : l = <<Append(o[1], name), o[2][name]>>
  BY <1>8 DEF LeafOf
<1>10. Known(o[1]) /\ (o[1] = <<>> => o[2] = f)
  <2>1. PICK n \in 0..MaxNesting : o \in depths[n]
    BY <1>1
  <2> QED BY <1>5, <1>7, <2>1 DEF S
<1> HIDE DEF Known
<1>11. l[1] = Append(o[1], name) /\ Known(l[1]) /\ l[1] # <<>> /\ l[1] \in Seq(W)
  BY <1>2, <1>9, <1>10
<1>12. Len(l[1]) \in Nat /\ Len(l[1]) # 0
  BY <1>11, LenProperties, EmptySeq
<1> QED BY <1>11, <1>12 DEF Known

(* What the filter makes of a context is, outside _meta, a copy of it.     *)
SameOutside(g, cloned) ==
  \A name : name # <<"_meta">> =>
    /\ name \in DOMAIN g <=> name \in DOMAIN cloned
    /\ name \in DOMAIN cloned => g[name] = cloned[name]

(* It is a copy, object by object, of the whole context.                   *)
LEMMA FilterCopies ==
  ASSUME NEW f, NEW W, ObjectsIn(Objects(f), f, W), NEW paths, NEW g, SameOutside(g, CloneWithRedactions(f, paths))
  PROVE  \E copy : Copying(copy, f, paths) /\ CopyIs(g, copy, f)
<1>1. PICK clone : Cloning(clone, Objects(f), paths) /\ CloneWithRedactions(f, paths) = clone[<<<<>>, f>>]
  BY CloneUnfolds
<1> DEFINE top == <<<<>>, f>>
           copy == [o \in Objects(f) |-> IF o = top THEN g ELSE clone[o]]
<1>2. top \in Objects(f) /\ top[1] = <<>>
  BY DEF ObjectsIn
<1>3. SameOutside(g, clone[top])
  BY <1>1
<1>4. CopyIs(g, copy, f)
  BY <1>2 DEF CopyIs
<1>5. copy[top] = g /\ \A o \in Objects(f) : o # top => copy[o] = clone[o]
  BY <1>2
<1>6. \A o \in Objects(f) : clone[o] = CloneOf(o, paths, clone)
  BY <1>1 DEF Cloning
<1> HIDE DEF copy
<1>7. ASSUME NEW o \in Objects(f), NEW name, Outer(Append(o[1], name)) PROVE CopyOf(copy, o, name, paths)
  <2> DEFINE there == name \in DOMAIN o[2] /\ Append(o[1], name) \notin paths
             v == o[2][name]
  <2>1. name \in DOMAIN clone[o] <=> there
    BY <1>6 DEF CloneOf
  <2>2. there => clone[o][name] = IF v.type = "object" THEN Obj(clone[InsideAt(o, name)]) ELSE v
    <3> DEFINE D == {n \in DOMAIN o[2] : Append(o[1], n) \notin paths}
               Value(n) == IF o[2][n].type = "object" THEN Obj(clone[InsideAt(o, n)]) ELSE o[2][n]
    <3>1. clone[o] = [n \in D |-> Value(n)]
      BY <1>6 DEF CloneOf
    <3>2. there => name \in D
      OBVIOUS
    <3>3. Value(name) = IF v.type = "object" THEN Obj(clone[InsideAt(o, name)]) ELSE v
      OBVIOUS
    <3> HIDE DEF D, Value, there, v
    <3> QED BY <3>1, <3>2, <3>3
  <2>3. there /\ v.type = "object" => InsideAt(o, name) \in Objects(f)
    BY DEF ObjectsIn, InsideAt
  <2>4. there => InsideAt(o, name) # top
    <3>1. SUFFICES ASSUME there, InsideAt(o, name) = top PROVE FALSE
      OBVIOUS
    <3>2. Append(o[1], name) = <<>>
      BY <1>2, <3>1 DEF InsideAt
    <3>3. o[1] \in Seq(W) /\ name \in W
      BY <3>1 DEF ObjectsIn
    <3> QED BY <3>2, <3>3, PathGrows
  <2>5. (name \in DOMAIN copy[o] <=> there) /\ (there => copy[o][name] = clone[o][name])
    <3>1. CASE o = top
      <4>1. name # <<"_meta">>
        <5>1. Append(o[1], name) = <<name>>
          BY <1>2, <3>1
        <5> QED BY <1>7, <5>1 DEF Outer
      <4>2. (name \in DOMAIN g <=> name \in DOMAIN clone[top]) /\ (name \in DOMAIN clone[top] => g[name] = clone[top][name])
        BY <1>3, <4>1 DEF SameOutside
      <4> HIDE DEF there
      <4> QED BY <1>5, <2>1, <3>1, <4>2
    <3>2. CASE o # top
      <4> HIDE DEF there, top
      <4> QED BY <1>5, <2>1, <3>2
    <3> QED BY <3>1, <3>2
  <2>6. there /\ v.type = "object" => copy[o][name].type = "object" /\ copy[o][name].of = copy[InsideAt(o, name)]
    <3>1. SUFFICES ASSUME there, v.type = "object"
                   PROVE  copy[o][name].type = "object" /\ copy[o][name].of = copy[InsideAt(o, name)]
      OBVIOUS
    <3>2. copy[InsideAt(o, name)] = clone[InsideAt(o, name)]
      BY <1>5, <2>3, <2>4, <3>1
    <3>3. copy[o][name] = Obj(clone[InsideAt(o, name)])
      BY <2>2, <2>5, <3>1
    <3> QED BY <3>2, <3>3 DEF Obj
  <2>7. there /\ v.type # "object" => copy[o][name] = v
    BY <2>2, <2>5
  <2> QED BY <2>5, <2>6, <2>7 DEF CopyOf
<1>8. Copying(copy, f, paths)
  BY <1>7 DEF Copying
<1> QED BY <1>4, <1>8

(* A legacy user has strings for its attributes.                           *)
LegacyStrings(context, f) == context.legacy => \A name \in LegacyNames \cap DOMAIN f : f[name] = Str(f[name].of)

(* The first step of the filter, and what it puts in _meta.                *)
Stringified(context, cloned) ==
  IF context.legacy THEN [name \in DOMAIN cloned |-> IF name \in LegacyNames THEN Str(cloned[name].of) ELSE cloned[name]]
  ELSE cloned

MetaOf(cloned) == LET m == Property(cloned, <<"_meta">>) IN IF m.type = "object" THEN m.of ELSE <<>>

Told(excluded, meta) ==
  IF excluded # {} THEN [name \in {<<"redactedAttributes">>} |-> [type |-> "array", of |-> excluded]]
  ELSE [name \in DOMAIN meta \cap {<<"redactedAttributes">>} |-> meta[name]]

AllMeta(excluded, meta) ==
  WithDefaults(Told(excluded, meta), [name \in DOMAIN meta \ {<<"privateAttributes">>, <<"redactedAttributes">>} |-> meta[name]])

WithMeta(all, strings) ==
  LET outside == [name \in DOMAIN strings \ {<<"_meta">>} |-> strings[name]] IN
  IF DOMAIN all = {} THEN outside ELSE WithDefaults([name \in {<<"_meta">>} |-> Obj(all)], outside)

PathsOf(references) == {r.components : r \in references}

(* The filter is these steps.                                              *)
LEMMA FilterIs ==
  ASSUME NEW context, NEW kind, NEW config, NEW references, references = AttributesToFilter(context, kind, config),
         NEW f, f = context.contexts[kind], NEW cloned, cloned = CloneWithRedactions(f, PathsOf(references))
  PROVE  FilterSingleKind(context, kind, config) =
           WithMeta(AllMeta(Excluded(f, references), MetaOf(cloned)), Stringified(context, cloned))
  BY Zenon DEF FilterSingleKind, WithMeta, AllMeta, Told, MetaOf, Stringified, PathsOf

(* What is in _meta of what is sent.                                       *)
LEMMA MetaTold ==
  ASSUME NEW excluded, excluded # {}, NEW meta, NEW strings
  PROVE  InMeta(WithMeta(AllMeta(excluded, meta), strings), <<"redactedAttributes">>) = [type |-> "array", of |-> excluded]
<1> DEFINE name == <<"redactedAttributes">>
           under == <<"_meta">>
           all == AllMeta(excluded, meta)
           array == [type |-> "array", of |-> excluded]
<1> HIDE DEF name, under, array
<1>1. Told(excluded, meta) = [n \in {name} |-> array]
  BY DEF Told, name, array
<1>2. name \in DOMAIN all /\ all[name] = array
  BY <1>1 DEF AllMeta, WithDefaults
<1> HIDE DEF all
<1> DEFINE g == WithMeta(all, strings)
<1>3. under \in DOMAIN g /\ g[under] = Obj(all)
  <2>1. DOMAIN all # {}
    BY <1>2
  <2> DEFINE outside == [n \in DOMAIN strings \ {under} |-> strings[n]]
             first == [n \in {under} |-> Obj(all)]
  <2>2. g = WithDefaults(first, outside)
    BY <2>1 DEF WithMeta, under
  <2>3. under \in DOMAIN first /\ first[under] = Obj(all)
    OBVIOUS
  <2> HIDE DEF g, first, outside
  <2> QED BY <2>2, <2>3 DEF WithDefaults
<1> HIDE DEF g
<1>4. Property(g, under) = Obj(all)
  BY <1>3 DEF Property
<1>5. Obj(all).type = "object" /\ Obj(all).of = all
  BY DEF Obj
<1>6. InMeta(g, name) = Property(all, name)
  BY <1>4, <1>5 DEF InMeta, under
<1>7. Property(all, name) = array
  BY <1>2 DEF Property
<1>8. InMeta(g, name) = array
  BY <1>6, <1>7
<1> QED BY <1>8 DEF g, array, name, all

(* And what is outside of it.                                              *)
LEMMA OutsideMeta ==
  ASSUME NEW all, NEW strings
  PROVE  SameOutside(WithMeta(all, strings), strings)
<1> DEFINE outside == [name \in DOMAIN strings \ {<<"_meta">>} |-> strings[name]]
           first == [name \in {<<"_meta">>} |-> Obj(all)]
<1>1. SameOutside(outside, strings)
  BY DEF SameOutside
<1>2. SameOutside(WithDefaults(first, outside), strings)
  BY DEF SameOutside, WithDefaults
<1>3. WithMeta(all, strings) = IF DOMAIN all = {} THEN outside ELSE WithDefaults(first, outside)
  BY DEF WithMeta
<1> HIDE DEF outside, first
<1> QED BY <1>1, <1>2, <1>3

(* What is not an object in what is sent is what is spared.                *)
LEMMA StringsSame ==
  ASSUME NEW context, NEW f, NEW W, ObjectsIn(Objects(f), f, W), LegacyStrings(context, f), NEW paths
  PROVE  SameOutside(Stringified(context, CloneWithRedactions(f, paths)), CloneWithRedactions(f, paths))
<1> DEFINE cloned == CloneWithRedactions(f, paths)
           top == <<<<>>, f>>
<1>1. PICK clone : Cloning(clone, Objects(f), paths) /\ cloned = clone[top]
  BY CloneUnfolds
<1>2. cloned = CloneOf(top, paths, clone)
  BY <1>1 DEF Cloning, ObjectsIn
<1>3. ASSUME NEW name \in DOMAIN cloned, name \in LegacyNames, context.legacy PROVE Str(cloned[name].of) = cloned[name]
  <2>1. name \in DOMAIN f /\ cloned[name] = IF f[name].type = "object" THEN Obj(clone[InsideAt(top, name)]) ELSE f[name]
    <3> DEFINE D == {n \in DOMAIN f : Append(top[1], n) \notin paths}
               Value(n) == IF f[n].type = "object" THEN Obj(clone[InsideAt(top, n)]) ELSE f[n]
    <3>1. cloned = [n \in D |-> Value(n)]
      BY <1>2 DEF CloneOf
    <3>2. DOMAIN cloned = D /\ D \subseteq DOMAIN f
      BY <3>1
    <3>3. Value(name) = IF f[name].type = "object" THEN Obj(clone[InsideAt(top, name)]) ELSE f[name]
      OBVIOUS
    <3> HIDE DEF D, Value, cloned, top
    <3> QED BY <3>1, <3>2, <3>3
  <2>2. f[name] = Str(f[name].of)
    BY <1>3, <2>1 DEF LegacyStrings
  <2>3. f[name].type = "string"
    BY <2>2 DEF Str
  <2>4. cloned[name] = f[name]
    BY <2>1, <2>3
  <2> HIDE DEF cloned
  <2> QED BY <2>2, <2>4
<1> HIDE DEF cloned
<1>4. SameOutside(Stringified(context, cloned), cloned)
  BY <1>3 DEF Stringified, SameOutside
<1> QED BY <1>4 DEF cloned

(* Leaves of what is sent are the leaves that are spared.                  *)
LEMMA LeavesFiltered ==
  ASSUME NEW context, NEW kind, NEW config, NEW f, f = context.contexts[kind], Ends(f), LegacyStrings(context, f), NEW l
  PROVE  l \in Leaves(FilterSingleKind(context, kind, config)) /\ l[1][1] # <<"_meta">>
         <=> /\ l \in Leaves(f) /\ l[1][1] # <<"_meta">>
             /\ Spared(l[1], PathsOf(AttributesToFilter(context, kind, config)))
<1> DEFINE references == AttributesToFilter(context, kind, config)
           paths == PathsOf(references)
           cloned == CloneWithRedactions(f, paths)
           strings == Stringified(context, cloned)
           g == FilterSingleKind(context, kind, config)
<1>1. PICK W : ObjectsIn(Objects(f), f, W)
  BY ObjectsClosed
<1>2. g = WithMeta(AllMeta(Excluded(f, references), MetaOf(cloned)), strings)
  BY FilterIs
<1>3. SameOutside(strings, cloned)
  BY <1>1, StringsSame
<1> HIDE DEF g, strings
<1>4. SameOutside(g, strings)
  BY <1>2, OutsideMeta
<1>5. SameOutside(g, cloned)
  BY <1>3, <1>4 DEF SameOutside
<1> HIDE DEF paths
<1>6. PICK copy : Copying(copy, f, paths) /\ CopyIs(g, copy, f)
  BY <1>1, <1>5, FilterCopies
<1>7. l \in Leaves(g) /\ l[1][1] # <<"_meta">> <=> l \in Leaves(f) /\ l[1][1] # <<"_meta">> /\ Spared(l[1], paths)
  BY <1>1, <1>6, LeavesCopied
<1> QED BY <1>7 DEF g, paths

-----------------------------------------------------------------------------
(* Options.                                                                *)

(* What is private by the options, whatever was passed.                    *)
LEMMA ConfigurationHas ==
  ASSUME NEW options, NEW name \in {"allAttributesPrivate", "privateAttributes"}
  PROVE  Configuration(options)[name] =
           IF name \in DOMAIN options THEN ValidatedOption(name, options[name]) ELSE DefaultValues[name]
<1> DEFINE validated == ValidateTypesAndNames(options)
<1>1. name \in DOMAIN DefaultValues /\ name \in DOMAIN Validations
  BY DEF DefaultValues, Validations
<1>2. /\ name \in DOMAIN validated
      /\ validated[name] = IF name \in DOMAIN options THEN ValidatedOption(name, options[name]) ELSE DefaultValues[name]
  BY <1>1 DEF ValidateTypesAndNames, WithDefaults
<1> HIDE DEF validated
<1> DEFINE first == [serviceEndpoints |-> [streaming |-> Endpoint(validated["streamUri"]),
                           polling |-> Endpoint(validated["baseUri"]),
                           events |-> Endpoint(validated["eventsUri"])],
     eventsCapacity |-> validated["capacity"],
     updateProcessorFactory |-> Factory(Property(validated, "updateProcessor")),
     featureStoreFactory |-> Factory(validated["featureStore"])]
<1>3. Configuration(options) = WithDefaults(first, validated)
  BY DEF Configuration, Configure, validated
<1>4. name \notin DOMAIN first
  OBVIOUS
<1> HIDE DEF first
<1> QED BY <1>2, <1>3, <1>4 DEF WithDefaults

(* allAttributesPrivate is what the option is taken for.                   *)
LEMMA AllPrivateIs ==
  ASSUME NEW options
  PROVE  ContextFilter(Configuration(options)).allAttributesPrivate <=> Truthy(Property(options, "allAttributesPrivate"))
<1> DEFINE name == "allAttributesPrivate"
           v == options[name]
           config == Configuration(options)
<1>1. ContextFilter(config).allAttributesPrivate = config[name].of
  BY DEF ContextFilter
<1>2. CASE name \in DOMAIN options
  <2>1. config[name] = ValidatedOption(name, v) /\ Property(options, name) = v
    BY <1>2, ConfigurationHas DEF Property
  <2>2. Validations[name] = Type("boolean")
    BY DEF Validations
  <2>3. Type("boolean").name = "Type" /\ Type("boolean").type = "boolean"
    BY DEF Type
  <2>4. Validates(Type("boolean"), v) <=> TypeOf(v) = "boolean"
    BY <2>3, Zenon DEF Validates
  <2>5. TypeOf(v) = "boolean" => v.type = "boolean"
    BY DEF TypeOf
  <2>6. v.type = "boolean" => Truthy(v) = v.of
    BY Zenon DEF Truthy
  <2> HIDE DEF v
  <2>7. ValidatedOption(name, v) = IF TypeOf(v) = "boolean" THEN v ELSE Bool(Truthy(v))
    BY <2>2, <2>3, <2>4, Zenon DEF ValidatedOption
  <2>8. Bool(Truthy(v)).of = Truthy(v)
    BY DEF Bool
  <2>9. config[name].of = Truthy(v)
    BY <2>1, <2>5, <2>6, <2>7, <2>8
  <2> QED BY <1>1, <2>1, <2>9
<1>3. CASE name \notin DOMAIN options
  <2>1. config[name] = DefaultValues[name]
    BY <1>3, ConfigurationHas
  <2>2. DefaultValues[name] = Bool(FALSE)
    BY DEF DefaultValues
  <2>3. config[name].of = FALSE
    BY <2>1, <2>2 DEF Bool
  <2>4. Property(options, name) = Undefined
    BY <1>3 DEF Property
  <2>5. Undefined.type = "undefined" /\ ~IsDefined(Undefined)
    BY DEF Undefined, IsDefined
  <2>6. Undefined.type # "boolean" /\ Undefined.type # "number" /\ Undefined.type # "string"
    BY <2>5
  <2>7. Truthy(Undefined) <=> FALSE
    BY <2>5, <2>6, Zenon DEF Truthy
  <2> QED BY <1>1, <2>3, <2>4, <2>7
<1> QED BY <1>2, <1>3

ListedIn(listed) ==
  IF listed.type = "array" /\ \A entry \in listed.of : entry.type = "string"
  THEN {Reference(entry.of) : entry \in listed.of} ELSE {}

(* privateAttributes is the list, if it is one of strings only.            *)
LEMMA PrivateListedIs ==
  ASSUME NEW options
  PROVE  ContextFilter(Configuration(options)).privateAttributes = ListedIn(Property(options, "privateAttributes"))
<1> DEFINE name == "privateAttributes"
           v == options[name]
           config == Configuration(options)
<1>1. ContextFilter(config).privateAttributes = {Reference(entry.of) : entry \in config[name].of}
  BY DEF ContextFilter
<1>2. DefaultValues[name] = List({}) /\ name \in DOMAIN DefaultValues
  BY DEF DefaultValues
<1>3. List({}).of = {}
  BY DEF List
<1>4. CASE name \in DOMAIN options
  <2>1. config[name] = ValidatedOption(name, v) /\ Property(options, name) = v
    BY <1>4, ConfigurationHas DEF Property
  <2>2. Validations[name] = StringArray
    BY DEF Validations
  <2>3. StringArray.name = "TypeArray" /\ StringArray.type = "string[]"
    BY DEF StringArray
  <2>4. StringArray.name # "Type" /\ StringArray.name # "NumberWithMinimum" /\ StringArray.name # "FactoryOrInstance"
        /\ StringArray.type # "boolean"
    BY <2>3
  <2> DEFINE strings == v.type = "array" /\ \A entry \in v.of : entry.type = "string"
  <2>5. Validates(StringArray, v) <=> strings
    BY <2>3, <2>4, Zenon DEF Validates
  <2>6. Property(DefaultValues, name) = List({})
    BY <1>2 DEF Property
  <2>7. ValidatedOption(name, v) = IF strings THEN v ELSE List({})
    <3> HIDE DEF v, strings
    <3> QED BY <2>2, <2>4, <2>5, <2>6 DEF ValidatedOption
  <2> QED BY <1>1, <1>3, <2>1, <2>7 DEF ListedIn
<1>5. CASE name \notin DOMAIN options
  <2>1. config[name] = List({})
    BY <1>2, <1>5, ConfigurationHas
  <2>2. Property(options, name).type # "array"
    BY <1>5 DEF Property, Undefined
  <2> QED BY <1>1, <1>3, <2>1, <2>2 DEF ListedIn
<1> QED BY <1>4, <1>5

(* A path that begins with a path of one name.                             *)
LEMMA OneName ==
  ASSUME NEW W, NEW p \in Seq(W), NEW n \in 1..Len(p), NEW name, SubSeq(p, 1, n) = <<name>>
  PROVE  n = 1 /\ name = p[1]
<1> DEFINE k == Len(p)
           x == SubSeq(p, 1, n)
           y == <<name>>
<1>1. k \in Nat
  BY LenProperties
<1>2. Len(x) = n /\ \A m \in 1..n : x[m] = p[m]
  BY <1>1, SubSeqProperties
<1>3. Len(y) = 1 /\ y[1] = name
  OBVIOUS
<1>4. x = y
  OBVIOUS
<1> HIDE DEF x, y, k
<1> QED BY <1>2, <1>3, <1>4

(* Its first name is a path.                                               *)
LEMMA FirstName ==
  ASSUME NEW W, NEW p \in Seq(W), 1 \in 1..Len(p)
  PROVE  SubSeq(p, 1, 1) = <<p[1]>>
<1> DEFINE x == SubSeq(p, 1, 1)
           y == <<p[1]>>
<1>1. Len(p) \in Nat
  BY LenProperties
<1>2. x \in Seq(W) /\ Len(x) = 1 /\ \A m \in 1..1 : x[m] = p[m]
  BY <1>1, SubSeqProperties
<1>3. p[1] \in W
  BY ElementOfSeq
<1>4. y \in Seq(W) /\ Len(y) = 1 /\ y[1] = p[1]
  BY <1>3
<1>5. \A m \in 1..Len(x) : x[m] = y[m]
  BY <1>2, <1>4
<1> HIDE DEF x, y
<1>6. x = y
  BY <1>2, <1>4, <1>5, SeqEqual
<1> QED BY <1>6 DEF x, y

-----------------------------------------------------------------------------
(* What is private is not spared.                                          *)

(* The references to what is private, if not everything is.                *)
SomePrivate(listed, context, kind) == {r \in listed \cup context.private[kind] : r.components \notin ProtectedAttributes}

IsPrivateBy(all, some, p) == IF all THEN <<p[1]>> \notin ProtectedAttributes ELSE \E r \in some : RefersTo(r, p)

(* References that are to the names of a context, without those protected. *)
EveryName(references, f) ==
  references = {r \in {LiteralReference(name) : name \in DOMAIN f} : r.components \notin ProtectedAttributes}

(* A literal reference is a path of one name.                              *)
LEMMA LiteralIs ==
  ASSUME NEW name
  PROVE  LiteralReference(name).components = <<name>>
  BY DEF LiteralReference

(* If everything is private, so is all that is not protected, by its name. *)
LEMMA AllNotSpared ==
  ASSUME NEW f, NEW references, EveryName(references, f), NEW W, NEW p \in Seq(W), 1 \in 1..Len(p), p[1] \in DOMAIN f
  PROVE  /\ ~Spared(p, PathsOf(references)) <=> <<p[1]>> \notin ProtectedAttributes
         /\ \A r \in references : RefersTo(r, p) => r = LiteralReference(p[1])
<1>1. \A r : r \in references <=> \E name \in DOMAIN f : r = LiteralReference(name) /\ <<name>> \notin ProtectedAttributes
  BY LiteralIs DEF EveryName
<1>2. ASSUME ~Spared(p, PathsOf(references)) PROVE <<p[1]>> \notin ProtectedAttributes
  <2>1. PICK n \in 1..Len(p) : SubSeq(p, 1, n) \in PathsOf(references)
    BY <1>2 DEF Spared
  <2>2. PICK r \in references : SubSeq(p, 1, n) = r.components
    BY <2>1 DEF PathsOf
  <2>3. PICK name \in DOMAIN f : r = LiteralReference(name) /\ <<name>> \notin ProtectedAttributes
    BY <1>1
  <2>4. SubSeq(p, 1, n) = <<name>>
    BY <2>2, <2>3, LiteralIs
  <2>5. name = p[1]
    BY <2>4, OneName
  <2> QED BY <2>3, <2>5
<1>3. ASSUME <<p[1]>> \notin ProtectedAttributes PROVE ~Spared(p, PathsOf(references))
  <2>1. LiteralReference(p[1]) \in references
    BY <1>1, <1>3
  <2>2. SubSeq(p, 1, 1) = LiteralReference(p[1]).components
    BY FirstName, LiteralIs
  <2>3. SubSeq(p, 1, 1) \in PathsOf(references)
    BY <2>1, <2>2 DEF PathsOf
  <2> QED BY <2>3 DEF Spared
<1>4. ASSUME NEW r \in references, RefersTo(r, p) PROVE r = LiteralReference(p[1])
  <2>1. PICK name \in DOMAIN f : r = LiteralReference(name)
    BY <1>1
  <2>2. PICK n \in 1..Len(p) : r.components = SubSeq(p, 1, n)
    BY <1>4 DEF RefersTo
  <2>3. SubSeq(p, 1, n) = <<name>>
    BY <2>1, <2>2, LiteralIs
  <2>4. name = p[1]
    BY <2>3, OneName
  <2> QED BY <2>1, <2>4
<1> QED BY <1>2, <1>3, <1>4

(* Otherwise what there is a reference to, or to what it is in.            *)
LEMMA SomeNotSpared ==
  ASSUME NEW references, NEW p
  PROVE  ~Spared(p, PathsOf(references)) <=> \E r \in references : RefersTo(r, p)
<1>1. ASSUME NEW r \in references, RefersTo(r, p) PROVE ~Spared(p, PathsOf(references))
  <2>1. PICK n \in 1..Len(p) : r.components = SubSeq(p, 1, n)
    BY <1>1 DEF RefersTo
  <2> QED BY <2>1 DEF Spared, PathsOf
<1>2. ASSUME ~Spared(p, PathsOf(references)) PROVE \E r \in references : RefersTo(r, p)
  <2>1. PICK n \in 1..Len(p) : SubSeq(p, 1, n) \in PathsOf(references)
    BY <1>2 DEF Spared
  <2>2. PICK r \in references : SubSeq(p, 1, n) = r.components
    BY <2>1 DEF PathsOf
  <2>3. RefersTo(r, p)
    BY <2>2 DEF RefersTo
  <2> QED BY <2>3
<1> QED BY <1>1, <1>2

-----------------------------------------------------------------------------
(* What is left out is named: by the shortest path to it that is.          *)
LEMMA LeftOutIsNamed ==
  ASSUME NEW f, NEW references, NEW W, NEW p \in Seq(W),
         \A n \in 1..Len(p) : SubSeq(p, 1, n) \in Places(f), ~Spared(p, PathsOf(references))
  PROVE  \E r \in references : RefersTo(r, p) /\ r.redactionName \in Excluded(f, references)
<1> DEFINE paths == PathsOf(references)
           k == Len(p)
           I == {n \in 1..k : SubSeq(p, 1, n) \in paths}
           n == Min(I)
           path == SubSeq(p, 1, n)
<1>1. k \in Nat
  BY LenProperties
<1>2. I \in SUBSET Nat /\ I # {}
  BY <1>1 DEF Spared
<1>3. n \in I /\ \A m \in I : n <= m
  <2> HIDE DEF I
  <2> QED BY <1>2, LeastNumber
<1>4. n \in 1..k /\ path \in paths
  BY <1>3
<1>5. \A m \in 1..k : SubSeq(p, 1, m) \in paths => n <= m
  BY <1>3
<1> HIDE DEF n, I
<1>6. Len(path) = n /\ path \in Seq(W)
  BY <1>1, <1>4, SubSeqProperties
<1>7. ASSUME NEW m \in 1..n - 1 PROVE SubSeq(path, 1, m) \notin paths
  <2>1. m \in 1..k /\ m \in 1..n /\ ~(n <= m)
    BY <1>1, <1>4
  <2> DEFINE x == SubSeq(path, 1, m)
             y == SubSeq(p, 1, m)
  <2>2. x \in Seq(W) /\ Len(x) = m /\ \A i \in 1..m : x[i] = path[i]
    BY <1>6, <2>1, SubSeqProperties
  <2>3. y \in Seq(W) /\ Len(y) = m /\ \A i \in 1..m : y[i] = p[i]
    BY <1>1, <2>1, SubSeqProperties
  <2>4. \A i \in 1..n : path[i] = p[i]
    BY <1>1, <1>4, SubSeqProperties
  <2>5. \A i \in 1..m : i \in 1..n
    BY <1>4, <2>1
  <2> HIDE DEF x, y, path
  <2>6. \A i \in 1..Len(x) : x[i] = y[i]
    BY <2>2, <2>3, <2>4, <2>5
  <2>7. x = y
    BY <2>2, <2>3, <2>6, SeqEqual
  <2>8. y \notin paths
    BY <1>5, <2>1 DEF y
  <2> QED BY <2>7, <2>8 DEF x
<1>8. path \in Places(f)
  BY <1>4
<1> HIDE DEF path
<1> DEFINE reference(q) == CHOOSE r \in references : r.components = q
           below(q) == \E m \in 1..Len(q) - 1 : SubSeq(q, 1, m) \in paths
<1>9. ~below(path)
  BY <1>6, <1>7
<1>10. Excluded(f, references) = {reference(q).redactionName : q \in {q \in paths \cap Places(f) : ~below(q)}}
  BY Zenon DEF Excluded, PathsOf
<1>11. \E r \in references : r.components = path
  BY <1>4 DEF PathsOf
<1>12. reference(path) \in references /\ reference(path).components = path
  BY <1>11
<1> HIDE DEF reference, below, paths
<1>13. reference(path).redactionName \in Excluded(f, references)
  BY <1>4, <1>8, <1>9, <1>10
<1>14. RefersTo(reference(path), p)
  BY <1>4, <1>12 DEF RefersTo, path, k
<1> QED BY <1>12, <1>13, <1>14

(* What is filtered, and what is not, by what is private.                  *)
LEMMA PrivateLeftOut ==
  ASSUME NEW context, NEW kind, NEW config, NEW f, f = context.contexts[kind], Ends(f), LegacyStrings(context, f),
         NEW l, l[1][1] # <<"_meta">>
  PROVE  LET all == config.allAttributesPrivate
             some == SomePrivate(config.privateAttributes, context, kind)
             references == AttributesToFilter(context, kind, config)
         IN /\ l \in Leaves(FilterSingleKind(context, kind, config)) <=> l \in Leaves(f) /\ ~IsPrivateBy(all, some, l[1])
            /\ l \in Leaves(f) /\ IsPrivateBy(all, some, l[1]) =>
                 \E r \in some \cup {LiteralReference(l[1][1])} :
                   RefersTo(r, l[1]) /\ r.redactionName \in Excluded(f, references)
<1> DEFINE all == config.allAttributesPrivate
           some == SomePrivate(config.privateAttributes, context, kind)
           references == AttributesToFilter(context, kind, config)
           paths == PathsOf(references)
           g == FilterSingleKind(context, kind, config)
<1>1. l \in Leaves(g) <=> l \in Leaves(f) /\ Spared(l[1], paths)
  BY LeavesFiltered
<1>2. PICK W : ObjectsIn(Objects(f), f, W)
  BY ObjectsClosed
<1>3. all => EveryName(references, f)
  BY DEF AttributesToFilter, EveryName
<1>4. ~all => references = some
  BY DEF AttributesToFilter, SomePrivate
<1> HIDE DEF all, some, references, g
<1>5. ASSUME l \in Leaves(f)
      PROVE  /\ ~Spared(l[1], paths) <=> IsPrivateBy(all, some, l[1])
             /\ ~Spared(l[1], paths) => \E r \in some \cup {LiteralReference(l[1][1])} :
                                          RefersTo(r, l[1]) /\ r.redactionName \in Excluded(f, references)
  <2> DEFINE p == l[1]
  <2>1. /\ p \in Seq(W) /\ 1 \in 1..Len(p) /\ p[1] \in DOMAIN f
        /\ \A n \in 1..Len(p) : SubSeq(p, 1, n) \in Places(f)
    BY <1>2, <1>5, LeavesHavePlaces
  <2> HIDE DEF p
  <2>2. ~Spared(p, paths) => \E r \in references : RefersTo(r, p) /\ r.redactionName \in Excluded(f, references)
    BY <2>1, LeftOutIsNamed
  <2>3. CASE all
    <3>1. /\ ~Spared(p, paths) <=> <<p[1]>> \notin ProtectedAttributes
          /\ \A r \in references : RefersTo(r, p) => r = LiteralReference(p[1])
      BY <1>3, <2>1, <2>3, AllNotSpared
    <3>2. IsPrivateBy(all, some, p) <=> <<p[1]>> \notin ProtectedAttributes
      BY <2>3 DEF IsPrivateBy
    <3> HIDE DEF paths
    <3> QED BY <2>2, <3>1, <3>2 DEF p
  <2>4. CASE ~all
    <3>1. ~Spared(p, paths) <=> \E r \in references : RefersTo(r, p)
      BY SomeNotSpared
    <3>2. IsPrivateBy(all, some, p) <=> \E r \in some : RefersTo(r, p)
      BY <2>4 DEF IsPrivateBy
    <3> HIDE DEF paths
    <3> QED BY <1>4, <2>2, <2>4, <3>1, <3>2 DEF p
  <2> QED BY <2>3, <2>4
<1> HIDE DEF paths
<1>6. l \in Leaves(g) <=> l \in Leaves(f) /\ ~IsPrivateBy(all, some, l[1])
  BY <1>1, <1>5
<1>7. l \in Leaves(f) /\ IsPrivateBy(all, some, l[1]) =>
        \E r \in some \cup {LiteralReference(l[1][1])} : RefersTo(r, l[1]) /\ r.redactionName \in Excluded(f, references)
  BY <1>5
<1> QED BY <1>6, <1>7 DEF all, some, references, g

(* So it is with what is identified.                                       *)
LEMMA IdentifiedPrivately ==
  ASSUME DataFollows
  PROVE  PrivateStaysPrivate
<1> SUFFICES ASSUME identified # NoOne PROVE PrivateStaysPrivate
  BY DEF PrivateStaysPrivate
<1>1. PICK c \in Identified, options \in ClientOptions :
        /\ FromLDContext(c).valid
        /\ identified = [context |-> FromLDContext(c), options |-> options]
        /\ filtered = Filter(FromLDContext(c), ContextFilter(Configuration(options)))
  BY DEF DataFollows, IdentifiedFollows
<1> DEFINE context == FromLDContext(c)
           config == ContextFilter(Configuration(options))
           named(kind) == LET redacted == InMeta(filtered[kind], <<"redactedAttributes">>)
                          IN IF redacted.type = "array" THEN redacted.of ELSE {}
           has(f) == {l \in Leaves(f) : l[1][1] # <<"_meta">>}
           All(l, kind) == \E r \in PrivateOf(kind) \cup {LiteralReference(l[1][1])} :
                             RefersTo(r, l[1]) /\ r.redactionName \in named(kind)
<1>2. identified.context = context /\ identified.options = options
  BY <1>1
<1>3. ASSUME NEW kind \in Kinds(context)
      PROVE  LET f == context.contexts[kind] IN Ends(f) /\ LegacyStrings(context, f)
  BY <1>1, AttributesAssumption DEF Ends, LegacyStrings
<1>4. /\ config.allAttributesPrivate <=> Truthy(Option("allAttributesPrivate"))
      /\ config.privateAttributes = ListedPrivate
  BY <1>2, AllPrivateIs, PrivateListedIs DEF Option, ListedPrivate, ListedIn
<1> HIDE DEF context, config
<1>5. ASSUME NEW kind \in Kinds(context)
      PROVE  /\ has(filtered[kind]) = {l \in has(context.contexts[kind]) : ~IsPrivate(kind, l[1])}
             /\ \A l \in has(context.contexts[kind]) : IsPrivate(kind, l[1]) => All(l, kind)
  <2> DEFINE f == context.contexts[kind]
             some == SomePrivate(config.privateAttributes, context, kind)
             references == AttributesToFilter(context, kind, config)
             g == FilterSingleKind(context, kind, config)
             excluded == Excluded(f, references)
  <2>1. filtered[kind] = g
    BY <1>1 DEF Filter, context, config
  <2>2. PrivateOf(kind) = some
    BY <1>2, <1>4 DEF PrivateOf, SomePrivate
  <2>3. \A l : IsPrivate(kind, l[1]) <=> IsPrivateBy(config.allAttributesPrivate, some, l[1])
    BY <1>4, <2>2 DEF IsPrivate, IsPrivateBy
  <2>4. excluded # {} => named(kind) = excluded
    <3>1. ASSUME excluded # {} PROVE InMeta(g, <<"redactedAttributes">>) = [type |-> "array", of |-> excluded]
      <4> DEFINE cloned == CloneWithRedactions(f, PathsOf(references))
                 strings == Stringified(context, cloned)
                 meta == MetaOf(cloned)
      <4>1. g = WithMeta(AllMeta(excluded, meta), strings)
        BY FilterIs
      <4> HIDE DEF g, excluded, strings, meta
      <4> QED BY <3>1, <4>1, MetaTold
    <3> HIDE DEF g, excluded
    <3> QED BY <2>1, <3>1
  <2>5. ASSUME NEW l, l[1][1] # <<"_meta">>
        PROVE  /\ l \in Leaves(g) <=> l \in Leaves(f) /\ ~IsPrivateBy(config.allAttributesPrivate, some, l[1])
               /\ l \in Leaves(f) /\ IsPrivateBy(config.allAttributesPrivate, some, l[1]) =>
                    \E r \in some \cup {LiteralReference(l[1][1])} : RefersTo(r, l[1]) /\ r.redactionName \in excluded
    BY <1>3, <2>5, PrivateLeftOut
  <2> HIDE DEF f, some, references, g, excluded, named
  <2>6. has(g) = {l \in has(f) : ~IsPrivate(kind, l[1])}
    BY <2>3, <2>5
  <2>7. ASSUME NEW l \in has(f), IsPrivate(kind, l[1]) PROVE All(l, kind)
    BY <2>2, <2>3, <2>4, <2>5, <2>7
  <2> HIDE DEF has, All
  <2> QED BY <2>1, <2>6, <2>7 DEF f
<1> HIDE DEF has, All, named
<1>6. \A kind \in Kinds(context) :
        /\ has(filtered[kind]) = {l \in has(context.contexts[kind]) : ~IsPrivate(kind, l[1])}
        /\ \A l \in has(context.contexts[kind]) : IsPrivate(kind, l[1]) => All(l, kind)
  BY <1>5
<1> QED BY <1>2, <1>6 DEF PrivateStaysPrivate, has, All, named

(* PrivateStaysPrivate: what LDClientImpl.identify sends has all that is   *)
(* not private and nothing that is, and names what is left out, in every   *)
(* state, for all contexts and options.                                    *)
THEOREM PrivateStaysPrivateEver == Spec => []PrivateStaysPrivate
<1>1. DataFollows => PrivateStaysPrivate
  BY IdentifiedPrivately
<1> QED BY <1>1, DataFollowsEver, PTL

-----------------------------------------------------------------------------
(* The evaluation of a flag that an application builds: it has no          *)
(* prerequisites and no segments, so that one call is all there is.        *)

CallAnswered(data, c, n, below, call) ==
  IF n = 0 \/ Endless(call.st) THEN Evaluated(Malformed, WithoutEnd(call.st))
  ELSE EvaluateInternal(data, c, below, call.key, call.visited, call.st)

FlagLevelsTo(m, N, data, c) ==
  m = [n \in 0..N |-> [call \in CallsFor(data, "flag") |-> CallAnswered(data, c, n, m[n - 1], call)]]

(* There are answers at every depth of calls, whatever the data.           *)
LEMMA FlagLevelsExist ==
  ASSUME NEW data, NEW c, NEW N \in Nat
  PROVE  \E m : FlagLevelsTo(m, N, data, c)
<1> DEFINE C == CallsFor(data, "flag")
           Level(n, below) == [call \in C |-> CallAnswered(data, c, n, below, call)]
           S == {k \in Nat : \E m : m = [n \in 0..k |-> Level(n, m[n - 1])]}
<1> HIDE DEF Level
<1>1. 0 \in S
  <2> DEFINE top == [n \in 0..0 |-> Level(0, <<>>[-1])]
  <2>1. \A below : Level(0, below) = Level(0, <<>>[-1])
    BY DEF Level, CallAnswered
  <2>2. top = [n \in 0..0 |-> Level(n, top[n - 1])]
    BY <2>1
  <2> QED BY <2>2
<1>2. ASSUME NEW k \in S PROVE k + 1 \in S
  <2>1. PICK h : h = [n \in 0..k |-> Level(n, h[n - 1])]
    OBVIOUS
  <2> DEFINE g == [n \in 0..k + 1 |-> IF n <= k THEN h[n] ELSE Level(k + 1, h[k])]
             goal == [n \in 0..k + 1 |-> Level(n, g[n - 1])]
  <2>2. ASSUME NEW n \in 0..k + 1 PROVE g[n] = goal[n]
    <3>1. CASE n = 0
      <4>1. h[0] = Level(0, h[-1]) /\ g[0] = h[0]
        BY <2>1
      <4>2. \A below : Level(0, below) = Level(0, h[-1])
        BY DEF Level, CallAnswered
      <4>3. goal[0] = Level(0, g[-1])
        OBVIOUS
      <4> HIDE DEF g, goal
      <4> QED BY <3>1, <4>1, <4>2, <4>3
    <3>2. CASE n \in 1..k
      <4>1. n - 1 \in 0..k + 1 /\ n - 1 <= k /\ n \in 0..k
        BY <3>2
      <4>2. g[n - 1] = h[n - 1] /\ g[n] = h[n] /\ h[n] = Level(n, h[n - 1])
        BY <2>1, <3>2, <4>1
      <4>3. goal[n] = Level(n, g[n - 1])
        OBVIOUS
      <4> HIDE DEF g, goal
      <4> QED BY <4>2, <4>3
    <3>3. CASE n = k + 1
      <4>1. n - 1 = k /\ n - 1 \in 0..k + 1 /\ ~(n <= k)
        BY <3>3
      <4>2. g[n - 1] = h[k] /\ g[n] = Level(k + 1, h[k])
        BY <4>1
      <4>3. goal[n] = Level(n, g[n - 1])
        OBVIOUS
      <4> HIDE DEF g, goal
      <4> QED BY <3>3, <4>2, <4>3
    <3> QED BY <3>1, <3>2, <3>3
  <2>3. g = goal
    <3>1. g = [n \in 0..k + 1 |-> g[n]] /\ goal = [n \in 0..k + 1 |-> goal[n]]
      OBVIOUS
    <3> HIDE DEF g, goal
    <3> QED BY <2>2, <3>1
  <2>4. k + 1 \in Nat
    OBVIOUS
  <2> HIDE DEF g
  <2>5. g = [n \in 0..k + 1 |-> Level(n, g[n - 1])]
    BY <2>3
  <2> QED BY <2>4, <2>5
<1>3. S = Nat
  <2> HIDE DEF S
  <2>1. S \in SUBSET Nat
    BY DEF S
  <2> QED BY <1>1, <1>2, <2>1, AllNumbers
<1> QED BY <1>3 DEF FlagLevelsTo, Level

(* An evaluation is the call for the flag, with the calls it makes.        *)
LEMMA EvaluateOnce ==
  ASSUME NEW data, NEW c, NEW key \in DOMAIN data, data[key].kind = "flag"
  PROVE  \E below : Evaluate(data, c, key) = EvaluateInternal(data, c, below, key, {}, EvalState)
<1> DEFINE N == MaxDepth
           C == CallsFor(data, "flag")
           call == Call(key, {}, EvalState)
           P(f) == f = [n \in 0..N |-> [x \in C |->
                     IF n = 0 \/ Endless(x.st) THEN Evaluated(Malformed, WithoutEnd(x.st))
                     ELSE EvaluateInternal(data, c, f[n - 1], x.key, x.visited, x.st)]]
           m == CHOOSE f : P(f)
<1>1. N \in Nat \ {0}
  <2>1. Cardinality(Item) \in Nat
    BY ItemAssumption, FS_CardinalityType
  <2> QED BY <2>1, DepthAssumption
<1>2. Evaluations(data, c) = m[N]
  BY DEF Evaluations
<1>3. P(m)
  <2>1. \E f : FlagLevelsTo(f, N, data, c)
    BY <1>1, FlagLevelsExist
  <2>2. \A f : FlagLevelsTo(f, N, data, c) <=> P(f)
    BY DEF FlagLevelsTo, CallAnswered
  <2> QED BY <2>1, <2>2
<1>4. call \in C
  <2>1. EvalState \in EvalStates(DOMAIN data)
    BY DEF EvalState, EvalStates, StatusPriority
  <2>2. key \in KeysOf(data, "flag")
    BY DEF KeysOf
  <2> QED BY <2>1, <2>2 DEF CallsFor, Call
<1>5. call.key = key /\ call.visited = {} /\ call.st = EvalState /\ ~Endless(EvalState)
  BY DEF Call, Endless, EvalState
<1> HIDE DEF m, C, call
<1>6. m[N][call] = EvaluateInternal(data, c, m[N - 1], call.key, call.visited, call.st)
  <2>1. m = [n \in 0..N |-> [x \in C |-> CallAnswered(data, c, n, m[n - 1], x)]]
    BY <1>3 DEF CallAnswered
  <2> HIDE DEF P, N
  <2>2. m[N] = [x \in C |-> CallAnswered(data, c, N, m[N - 1], x)]
    BY <1>1, <2>1
  <2>3. m[N][call] = CallAnswered(data, c, N, m[N - 1], call)
    BY <1>4, <2>2
  <2> QED BY <1>1, <1>5, <2>3 DEF CallAnswered
<1> HIDE DEF P
<1>7. Evaluate(data, c, key) = EvaluateInternal(data, c, m[N - 1], key, {}, EvalState)
  BY <1>2, <1>5, <1>6 DEF Evaluate, call
<1> QED BY <1>7

(* Without prerequisites none fails.                                       *)
LEMMA NothingRequired ==
  ASSUME NEW data, NEW below, NEW key, NEW visited, NEW st, data[key].prerequisites = <<>>
  PROVE  CheckPrerequisites(data, below, key, visited, st) = [go |-> TRUE, res |-> NoResult, st |-> st]
<1> DEFINE first == [go |-> TRUE, res |-> NoResult, st |-> st]
           Step(before, n) == CheckPrerequisite(data, below, key, data[key].prerequisites[n], visited, before)
           P(a) == a = [n \in 0..0 |-> IF n = 0 THEN first
                                       ELSE IF ~a[n - 1].go THEN a[n - 1] ELSE Step(a[n - 1], n)]
           a0 == [n \in 0..0 |-> first]
           after == CHOOSE a : P(a)
<1>1. CheckPrerequisites(data, below, key, visited, st) = after[0]
  BY DEF CheckPrerequisites, Series
<1> HIDE DEF first, Step
<1>2. P(a0)
  OBVIOUS
<1>3. P(after)
  BY <1>2
<1>4. after[0] = first
  BY <1>3
<1> QED BY <1>1, <1>4 DEF first

ClauseIn(clause, c, st) ==
  IF ~clause.attributeReference.valid THEN MatchError(st) ELSE Match(st, MatchClause(clause, c))

(* A rule has no regard for clauses that are malformed, but for the last.  *)
Denied(clauses, c, n) == \E m \in 1..n : clauses[m].attributeReference.valid /\ ~MatchClause(clauses[m], c)

ClausesSay(clauses, c, n, st) ==
  IF Denied(clauses, c, n) THEN Match(st, FALSE)
  ELSE IF n # 0 /\ ~clauses[n].attributeReference.valid THEN MatchError(st) ELSE Match(st, TRUE)

(* One clause more.                                                        *)
LEMMA OneMoreClause ==
  ASSUME NEW clauses, NEW c, NEW st, NEW n \in Nat \ {0}
  PROVE  ClausesSay(clauses, c, n, st) =
           IF AllEnd(ClausesSay(clauses, c, n - 1, st)) THEN ClausesSay(clauses, c, n - 1, st)
           ELSE ClauseIn(clauses[n], c, st)
<1>1. Denied(clauses, c, n) <=> Denied(clauses, c, n - 1) \/ (clauses[n].attributeReference.valid /\ ~MatchClause(clauses[n], c))
  BY DEF Denied
<1>2. AllEnd(Match(st, FALSE)) /\ ~AllEnd(Match(st, TRUE)) /\ ~AllEnd(MatchError(st))
  BY DEF AllEnd, Match, MatchError
<1>3. AllEnd(ClausesSay(clauses, c, n - 1, st)) <=> Denied(clauses, c, n - 1)
  BY <1>2 DEF ClausesSay
<1>4. MatchClause(clauses[n], c) \in BOOLEAN
  BY MatchClauseTyped
<1>5. CASE Denied(clauses, c, n - 1)
  BY <1>1, <1>3, <1>5 DEF ClausesSay
<1>6. CASE ~Denied(clauses, c, n - 1) /\ clauses[n].attributeReference.valid
  <2>1. ClauseIn(clauses[n], c, st) = Match(st, MatchClause(clauses[n], c))
    BY <1>6 DEF ClauseIn
  <2>2. CASE MatchClause(clauses[n], c) = TRUE
    BY <1>1, <1>3, <1>6, <2>1, <2>2 DEF ClausesSay
  <2>3. CASE MatchClause(clauses[n], c) = FALSE
    BY <1>1, <1>3, <1>6, <2>1, <2>3 DEF ClausesSay
  <2> QED BY <1>4, <2>2, <2>3
<1>7. CASE ~Denied(clauses, c, n - 1) /\ ~clauses[n].attributeReference.valid
  BY <1>1, <1>3, <1>7 DEF ClausesSay, ClauseIn
<1> QED BY <1>5, <1>6, <1>7

(* The clauses of a rule that an application makes.                        *)
LEMMA InClausesMatch ==
  ASSUME NEW data, NEW c, NEW below, NEW clauses, NEW visited, NEW st, Len(clauses) \in Nat,
         \A n \in 1..Len(clauses) : clauses[n].op = "in"
  PROVE  AllClausesMatch(data, c, below, clauses, visited, st) = ClausesSay(clauses, c, Len(clauses), st)
<1> DEFINE N == Len(clauses)
           first == Match(st, TRUE)
           Step(before, n) == ClauseMatch(data, c, below, clauses[n], visited, before.st)
           P(a) == a = [n \in 0..N |-> IF n = 0 THEN first ELSE IF AllEnd(a[n - 1]) THEN a[n - 1] ELSE Step(a[n - 1], n)]
           a0 == [n \in 0..N |-> ClausesSay(clauses, c, n, st)]
           after == CHOOSE a : P(a)
<1>1. AllClausesMatch(data, c, below, clauses, visited, st) = after[N]
  BY DEF AllClausesMatch, Series
<1>2. ClausesSay(clauses, c, 0, st) = first
  BY DEF ClausesSay, Denied
<1>3. ASSUME NEW n \in 1..N
      PROVE  Step(ClausesSay(clauses, c, n - 1, st), n) = ClauseIn(clauses[n], c, st)
  <2>1. ClausesSay(clauses, c, n - 1, st).st = st
    BY DEF ClausesSay, Match, MatchError
  <2>2. clauses[n].op # "segmentMatch"
    BY <1>3
  <2> QED BY <2>1, <2>2 DEF ClauseMatch, ClauseIn
<1> HIDE DEF N, first, Step
<1>4. N \in Nat
  BY DEF N
<1>5. P(a0)
  <2>1. ASSUME NEW n \in 0..N
        PROVE  a0[n] = IF n = 0 THEN first ELSE IF AllEnd(a0[n - 1]) THEN a0[n - 1] ELSE Step(a0[n - 1], n)
    <3>1. CASE n = 0
      BY <1>2, <3>1
    <3>2. CASE n # 0
      <4>1. n \in 1..N /\ n \in Nat \ {0} /\ n - 1 \in 0..N
        BY <1>4, <3>2
      <4>2. a0[n - 1] = ClausesSay(clauses, c, n - 1, st) /\ a0[n] = ClausesSay(clauses, c, n, st)
        BY <4>1
      <4>3. Step(a0[n - 1], n) = ClauseIn(clauses[n], c, st)
        BY <1>3, <4>1, <4>2
      <4> HIDE DEF a0
      <4> QED BY <3>2, <4>1, <4>2, <4>3, OneMoreClause
    <3> QED BY <3>1, <3>2
  <2> DEFINE g == [n \in 0..N |-> IF n = 0 THEN first ELSE IF AllEnd(a0[n - 1]) THEN a0[n - 1] ELSE Step(a0[n - 1], n)]
  <2>2. \A n \in 0..N : a0[n] = g[n]
    BY <2>1
  <2>3. a0 = [n \in 0..N |-> a0[n]] /\ g = [n \in 0..N |-> g[n]]
    OBVIOUS
  <2>4. a0 = g
    <3> HIDE DEF a0, g
    <3> QED BY <2>2, <2>3
  <2> QED BY <2>4
<1>6. P(after)
  <2> HIDE DEF a0
  <2> QED BY <1>5
<1> HIDE DEF after
<1>7. ASSUME NEW n \in 0..N PROVE after[n] = a0[n]
  <2> DEFINE A == {m \in 0..N : after[m] = a0[m]}
  <2> HIDE DEF a0
  <2>1. 0 \in A
    BY <1>4, <1>5, <1>6
  <2>2. ASSUME NEW m \in 0..N, m \in A, m < N PROVE m + 1 \in A
    <3>1. m + 1 \in 0..N /\ (m + 1) - 1 = m /\ m + 1 # 0
      BY <1>4, <2>2
    <3>2. after[m + 1] = IF AllEnd(after[m]) THEN after[m] ELSE Step(after[m], m + 1)
      BY <1>6, <3>1
    <3>3. a0[m + 1] = IF AllEnd(a0[m]) THEN a0[m] ELSE Step(a0[m], m + 1)
      BY <1>5, <3>1
    <3> QED BY <2>2, <3>1, <3>2, <3>3
  <2> HIDE DEF A
  <2>3. \A m \in 0..N : m \in A
    BY <1>4, <2>1, <2>2, AllNumbersUpTo
  <2> QED BY <2>3 DEF A
<1>8. after[N] = ClausesSay(clauses, c, N, st)
  BY <1>4, <1>7
<1> QED BY <1>1, <1>8 DEF N

(* A flag that has nothing but fixed variations and clauses with in.       *)
Built(flag) ==
  /\ flag.kind = "flag" /\ flag.prerequisites = <<>>
  /\ flag.variations \in Nat /\ flag.offVariation \in Nat /\ flag.fallthrough.variation \in Nat
  /\ Len(flag.rules) \in Nat
  /\ \A n \in 1..Len(flag.rules) :
       /\ flag.rules[n].variation \in Nat
       /\ Len(flag.rules[n].clauses) \in Nat \ {0}
       /\ \A m \in 1..Len(flag.rules[n].clauses) : flag.rules[n].clauses[m].op = "in"

Applies(rule, c) == ~Denied(rule.clauses, c, Len(rule.clauses))

(* k is the first rule that applies, or 0.                                 *)
FirstApplies(flag, c, k) ==
  /\ k \in 0..Len(flag.rules)
  /\ k # 0 => Applies(flag.rules[k], c)
  /\ \A n \in 1..Len(flag.rules) : n < k \/ k = 0 => ~Applies(flag.rules[n], c)

RuleServes(flag, n, c) ==
  LET clauses == flag.rules[n].clauses IN
  IF clauses[Len(clauses)].attributeReference.valid
  THEN Numbered(GetVariation(flag, flag.rules[n].variation, "RULE_MATCH"), n) ELSE Malformed

(* What is given is something.                                             *)
LEMMA RuleServesSomething ==
  ASSUME NEW flag, NEW c, NEW n
  PROVE  RuleServes(flag, n, c) # NoResult
<1>1. Malformed # NoResult
  BY DEF Malformed, ForError, NoResult
<1>2. GetVariation(flag, flag.rules[n].variation, "RULE_MATCH").kind # "undecided"
  BY DEF GetVariation, Success, Malformed, ForError
<1>3. Numbered(GetVariation(flag, flag.rules[n].variation, "RULE_MATCH"), n).kind # "undecided"
  BY <1>2 DEF Numbered, GetVariation, Success, Malformed, ForError
<1> QED BY <1>1, <1>3 DEF RuleServes, NoResult

RuleIs(data, c, below, flag, n, st) ==
  RuleResult(flag, n, c, AllClausesMatch(data, c, below, flag.rules[n].clauses, {}, st))
  = Evaluated(IF Applies(flag.rules[n], c) THEN RuleServes(flag, n, c) ELSE NoResult, st)

(* One rule.                                                               *)
LEMMA RuleResultIs ==
  ASSUME NEW data, NEW c, NEW below, NEW flag, Built(flag), NEW n \in 1..Len(flag.rules), NEW st
  PROVE  RuleIs(data, c, below, flag, n, st)
<1> DEFINE clauses == flag.rules[n].clauses
           r == ClausesSay(clauses, c, Len(clauses), st)
<1>1. /\ Len(clauses) \in Nat \ {0} /\ flag.rules[n].variation \in Nat
      /\ \A m \in 1..Len(clauses) : clauses[m].op = "in"
  BY DEF Built
<1>2. AllClausesMatch(data, c, below, clauses, {}, st) = r
  BY <1>1, InClausesMatch
<1>3. r.st = st
  BY DEF ClausesSay, Match, MatchError
<1>4. VariationForContext(flag.rules[n], flag, c, "RULE_MATCH") = GetVariation(flag, flag.rules[n].variation, "RULE_MATCH")
  BY <1>1 DEF VariationForContext, NoVariation
<1>5. CASE ~Applies(flag.rules[n], c)
  <2>1. r = Match(st, FALSE)
    BY <1>5 DEF ClausesSay, Applies
  <2>2. ~r.error /\ ~r.match
    BY <2>1 DEF Match
  <2> HIDE DEF r, clauses
  <2> QED BY <1>2, <1>3, <1>5, <2>2 DEF RuleResult, RuleIs, clauses
<1>6. CASE Applies(flag.rules[n], c) /\ clauses[Len(clauses)].attributeReference.valid
  <2>1. r = Match(st, TRUE)
    BY <1>6 DEF ClausesSay, Applies
  <2>2. ~r.error /\ r.match
    BY <2>1 DEF Match
  <2> HIDE DEF r
  <2>3. RuleServes(flag, n, c) = Numbered(GetVariation(flag, flag.rules[n].variation, "RULE_MATCH"), n)
    BY <1>6 DEF RuleServes
  <2> HIDE DEF clauses
  <2> QED BY <1>2, <1>3, <1>4, <1>6, <2>2, <2>3 DEF RuleResult, RuleIs, clauses
<1>7. CASE Applies(flag.rules[n], c) /\ ~clauses[Len(clauses)].attributeReference.valid
  <2>1. r = MatchError(st)
    BY <1>1, <1>7 DEF ClausesSay, Applies
  <2>2. r.error
    BY <2>1 DEF MatchError
  <2> HIDE DEF r
  <2>3. RuleServes(flag, n, c) = Malformed
    BY <1>7 DEF RuleServes
  <2> HIDE DEF clauses
  <2> QED BY <1>2, <1>3, <1>7, <2>2, <2>3 DEF RuleResult, RuleIs, clauses
<1> HIDE DEF clauses, r
<1> QED BY <1>5, <1>6, <1>7 DEF RuleIs, clauses

(* What the first n rules say, where k is the first that applies.          *)
RulesSay(flag, c, k, target, n) ==
  IF target # NoResult THEN target ELSE IF k \in 1..n THEN RuleServes(flag, k, c) ELSE NoResult

(* The rules of a flag, one after the other.                               *)
LEMMA RulesEvaluated ==
  ASSUME NEW data, NEW c, NEW flag, Built(flag), NEW st, NEW target, NEW k, FirstApplies(flag, c, k)
  PROVE  EvaluateRules(data, c, flag, Evaluated(target, st))
         = Evaluated(RulesSay(flag, c, k, target, Len(flag.rules)), st)
<1> DEFINE N == Len(flag.rules)
           first == Evaluated(target, st)
           Step(before, n) == RuleResult(flag, n, c, AllClausesMatch(data, c, SegmentMatches(data, c), flag.rules[n].clauses, {}, before.st))
           P(a) == a = [n \in 0..N |-> IF n = 0 THEN first ELSE IF a[n - 1].res # NoResult THEN a[n - 1] ELSE Step(a[n - 1], n)]
           Say(n) == Evaluated(RulesSay(flag, c, k, target, n), st)
           a0 == [n \in 0..N |-> Say(n)]
           after == CHOOSE a : P(a)
<1>1. EvaluateRules(data, c, flag, first) = after[N]
  BY DEF EvaluateRules, Series
<1>2. Say(0) = first
  BY DEF RulesSay
<1>3. \A n : Say(n).res = RulesSay(flag, c, k, target, n) /\ Say(n).st = st
  BY DEF Evaluated
<1>4. N \in Nat
  BY DEF Built
<1>5. ASSUME NEW n \in 1..N
      PROVE  Say(n) = IF Say(n - 1).res # NoResult THEN Say(n - 1) ELSE Step(Say(n - 1), n)
  <2>1. Step(Say(n - 1), n) = Evaluated(IF Applies(flag.rules[n], c) THEN RuleServes(flag, n, c) ELSE NoResult, st)
    <3> DEFINE s == Say(n - 1).st
               below == SegmentMatches(data, c)
    <3>1. s = st
      BY <1>3
    <3> HIDE DEF s, below
    <3>2. n \in 1..Len(flag.rules)
      OBVIOUS
    <3>3. RuleIs(data, c, below, flag, n, s)
      BY <3>2, RuleResultIs
    <3> HIDE DEF Say
    <3> QED BY <3>1, <3>3 DEF s, below, RuleIs
  <2>2. RuleServes(flag, k, c) # NoResult
    BY RuleServesSomething
  <2> HIDE DEF Step
  <2>3. CASE target # NoResult
    BY <1>3, <2>3 DEF RulesSay
  <2>4. CASE target = NoResult /\ k \in 1..n - 1
    <3>1. k \in 1..n
      BY <1>4, <2>4
    <3> QED BY <1>3, <2>2, <2>4, <3>1 DEF RulesSay
  <2>5. CASE target = NoResult /\ k \notin 1..n - 1
    <3>1. Say(n - 1).res = NoResult
      BY <1>3, <2>5 DEF RulesSay
    <3>2. k \in Nat /\ k <= N
      BY <1>4 DEF FirstApplies
    <3>3. n < k \/ n = k \/ k = 0
      BY <1>4, <2>5, <3>2
    <3>4. Applies(flag.rules[n], c) <=> n = k
      BY <1>4, <3>2, <3>3 DEF FirstApplies
    <3>5. k \in 1..n <=> n = k
      BY <1>4, <2>5, <3>2
    <3> QED BY <2>1, <2>5, <3>1, <3>4, <3>5 DEF RulesSay
  <2> QED BY <2>3, <2>4, <2>5
<1> HIDE DEF N, first, Step, Say
<1>6. P(a0)
  <2>1. ASSUME NEW n \in 0..N
        PROVE  a0[n] = IF n = 0 THEN first ELSE IF a0[n - 1].res # NoResult THEN a0[n - 1] ELSE Step(a0[n - 1], n)
    <3>1. CASE n = 0
      BY <1>2, <3>1
    <3>2. CASE n # 0
      <4>1. n \in 1..N /\ n - 1 \in 0..N
        BY <1>4, <3>2
      <4>2. a0[n - 1] = Say(n - 1) /\ a0[n] = Say(n)
        BY <4>1
      <4> HIDE DEF a0
      <4> QED BY <1>5, <3>2, <4>1, <4>2
    <3> QED BY <3>1, <3>2
  <2> DEFINE g == [n \in 0..N |-> IF n = 0 THEN first ELSE IF a0[n - 1].res # NoResult THEN a0[n - 1] ELSE Step(a0[n - 1], n)]
  <2>2. \A n \in 0..N : a0[n] = g[n]
    BY <2>1
  <2>3. a0 = [n \in 0..N |-> a0[n]] /\ g = [n \in 0..N |-> g[n]]
    OBVIOUS
  <2>4. a0 = g
    <3> HIDE DEF a0, g
    <3> QED BY <2>2, <2>3
  <2> QED BY <2>4
<1>7. P(after)
  <2> HIDE DEF a0
  <2> QED BY <1>6
<1> HIDE DEF after
<1>8. ASSUME NEW n \in 0..N PROVE after[n] = a0[n]
  <2> DEFINE A == {m \in 0..N : after[m] = a0[m]}
  <2> HIDE DEF a0
  <2>1. 0 \in A
    BY <1>4, <1>6, <1>7
  <2>2. ASSUME NEW m \in 0..N, m \in A, m < N PROVE m + 1 \in A
    <3>1. m + 1 \in 0..N /\ (m + 1) - 1 = m /\ m + 1 # 0
      BY <1>4, <2>2
    <3>2. after[m + 1] = IF after[m].res # NoResult THEN after[m] ELSE Step(after[m], m + 1)
      BY <1>7, <3>1
    <3>3. a0[m + 1] = IF a0[m].res # NoResult THEN a0[m] ELSE Step(a0[m], m + 1)
      BY <1>6, <3>1
    <3> QED BY <2>2, <3>1, <3>2, <3>3
  <2> HIDE DEF A
  <2>3. \A m \in 0..N : m \in A
    BY <1>4, <2>1, <2>2, AllNumbersUpTo
  <2> QED BY <2>3 DEF A
<1>9. after[N] = Say(N)
  BY <1>4, <1>8
<1> QED BY <1>1, <1>9 DEF N, first, Say

WhatIsServed(flag, c, k) ==
  IF ~flag.on THEN GetVariation(flag, flag.offVariation, "OFF")
  ELSE IF EvalTargets(flag, c) # NoResult THEN EvalTargets(flag, c)
  ELSE IF k # 0 THEN RuleServes(flag, k, c) ELSE GetVariation(flag, flag.fallthrough.variation, "FALLTHROUGH")

(* What a flag is that an application has built.                           *)
LEMMA BuiltAnswered ==
  ASSUME NEW data, NEW c, NEW key \in DOMAIN data, Built(data[key]), NEW k, FirstApplies(data[key], c, k)
  PROVE  Evaluate(data, c, key).res = WhatIsServed(data[key], c, k)
<1> DEFINE flag == data[key]
           target == EvalTargets(flag, c)
           rules == Evaluated(RulesSay(flag, c, k, target, Len(flag.rules)), EvalState)
<1>1. PICK below : Evaluate(data, c, key) = EvaluateInternal(data, c, below, key, {}, EvalState)
  <2>1. flag.kind = "flag"
    BY DEF Built
  <2> QED BY <2>1, EvaluateOnce
<1>2. CheckPrerequisites(data, below, key, {}, EvalState) = [go |-> TRUE, res |-> NoResult, st |-> EvalState]
  <2>1. flag.prerequisites = <<>>
    BY DEF Built
  <2> QED BY <2>1, NothingRequired
<1>3. EvaluateRules(data, c, flag, Evaluated(target, EvalState)) = rules
  BY RulesEvaluated
<1>4. GetOffVariation(flag, "OFF") = GetVariation(flag, flag.offVariation, "OFF")
  <2>1. flag.offVariation # NoVariation
    BY DEF Built, NoVariation
  <2> QED BY <2>1 DEF GetOffVariation
<1>5. VariationForContext(flag.fallthrough, flag, c, "FALLTHROUGH") = GetVariation(flag, flag.fallthrough.variation, "FALLTHROUGH")
  <2>1. flag.fallthrough.variation # NoVariation
    BY DEF Built, NoVariation
  <2> QED BY <2>1 DEF VariationForContext
<1>6. rules.res = IF target # NoResult THEN target ELSE IF k # 0 THEN RuleServes(flag, k, c) ELSE NoResult
  <2>1. k \in 1..Len(flag.rules) <=> k # 0
    BY DEF FirstApplies, Built
  <2> QED BY <2>1 DEF RulesSay, Evaluated
<1>7. RuleServes(flag, k, c) # NoResult
  BY RuleServesSomething
<1> HIDE DEF flag, target, rules
<1>8. CASE ~flag.on
  BY <1>1, <1>4, <1>8 DEF EvaluateInternal, Evaluated, WhatIsServed, flag
<1>9. CASE flag.on
  <2>1. Evaluate(data, c, key) = AfterPrerequisites(data, c, flag, [go |-> TRUE, res |-> NoResult, st |-> EvalState], target)
    BY <1>1, <1>2, <1>9 DEF EvaluateInternal, flag, target
  <2>2. Evaluate(data, c, key) = OrFallthrough(flag, c, rules)
    BY <1>3, <2>1 DEF AfterPrerequisites
  <2>3. Evaluate(data, c, key).res = IF rules.res # NoResult THEN rules.res ELSE GetVariation(flag, flag.fallthrough.variation, "FALLTHROUGH")
    BY <1>5, <2>2 DEF OrFallthrough, Evaluated
  <2> QED BY <1>6, <1>7, <1>9, <2>3 DEF WhatIsServed, flag, target
<1> QED BY <1>8, <1>9

-----------------------------------------------------------------------------
(* The properties of an object, listed by their number.                    *)

Listing(s, S) ==
  /\ s \in [1..Cardinality(S) -> S]
  /\ \A m, n \in DOMAIN s : m < n => s[m] # s[n] /\ s[m][1] <= s[n][1]

Listable(S) == IsFiniteSet(S) /\ \A t \in S : t[1] \in Nat

(* There is such a list.                                                   *)
LEMMA ListingExists ==
  ASSUME NEW S, Listable(S)
  PROVE  \E s : Listing(s, S)
<1> DEFINE A == {k \in Nat : \A T : Listable(T) /\ Cardinality(T) = k => \E s : Listing(s, T)}
<1>1. 0 \in A
  <2>1. ASSUME NEW T, Listable(T), Cardinality(T) = 0 PROVE \E s : Listing(s, T)
    <3> DEFINE s == [n \in 1..0 |-> n]
    <3>1. T = {}
      BY <2>1, FS_EmptySet DEF Listable
    <3>2. s \in [1..0 -> T] /\ DOMAIN s = {}
      OBVIOUS
    <3> HIDE DEF s
    <3>3. Listing(s, T)
      BY <2>1, <3>2 DEF Listing
    <3> QED BY <3>3
  <2> QED BY <2>1
<1>2. ASSUME NEW k \in A PROVE k + 1 \in A
  <2>1. ASSUME NEW T, Listable(T), Cardinality(T) = k + 1 PROVE \E s : Listing(s, T)
    <3> DEFINE I == {t[1] : t \in T}
    <3>1. k \in Nat /\ IsFiniteSet(T) /\ T # {}
      BY <2>1, FS_EmptySet DEF Listable
    <3>2. I \in SUBSET Nat /\ I # {}
      BY <2>1, <3>1 DEF Listable
    <3>3. Min(I) \in I /\ \A m \in I : Min(I) <= m
      <4> HIDE DEF I
      <4> QED BY <3>2, LeastNumber
    <3>4. PICK t \in T : \A u \in T : t[1] <= u[1]
      BY <3>3
    <3> HIDE DEF I
    <3> DEFINE R == T \ {t}
    <3>5. IsFiniteSet(R) /\ Cardinality(R) = k
      BY <2>1, <3>1, FS_RemoveElement
    <3>6. Listable(R)
      BY <2>1, <3>5 DEF Listable
    <3>7. PICK r : Listing(r, R)
      BY <3>5, <3>6
    <3> DEFINE s == [n \in 1..k + 1 |-> IF n = 1 THEN t ELSE r[n - 1]]
    <3>8. r \in [1..k -> R] /\ DOMAIN r = 1..k /\ \A m, n \in 1..k : m < n => r[m] # r[n] /\ r[m][1] <= r[n][1]
      BY <3>5, <3>7 DEF Listing
    <3>9. ASSUME NEW n \in 1..k + 1, n # 1 PROVE n - 1 \in 1..k /\ s[n] = r[n - 1] /\ r[n - 1] \in R
      BY <3>1, <3>8, <3>9
    <3>10. s[1] = t
      BY <3>1
    <3>11. s \in [1..k + 1 -> T] /\ DOMAIN s = 1..k + 1
      BY <3>9, <3>10
    <3> HIDE DEF s
    <3>12. ASSUME NEW m \in 1..k + 1, NEW n \in 1..k + 1, m < n PROVE s[m] # s[n] /\ s[m][1] <= s[n][1]
      <4>1. n # 1
        BY <3>12
      <4>2. n - 1 \in 1..k /\ s[n] = r[n - 1] /\ r[n - 1] \in R
        BY <3>9, <4>1
      <4>3. CASE m = 1
        BY <3>4, <3>10, <4>2, <4>3
      <4>4. CASE m # 1
        <5>1. m - 1 \in 1..k /\ s[m] = r[m - 1]
          BY <3>9, <4>4
        <5>2. m - 1 < n - 1
          BY <3>12
        <5> QED BY <3>8, <4>2, <5>1, <5>2
      <4> QED BY <4>3, <4>4
    <3>13. Listing(s, T)
      BY <2>1, <3>11, <3>12 DEF Listing
    <3> QED BY <3>13
  <2>2. k + 1 \in Nat
    OBVIOUS
  <2> QED BY <2>1, <2>2
<1>3. A = Nat
  <2> HIDE DEF A
  <2>1. A \in SUBSET Nat
    BY DEF A
  <2> QED BY <1>1, <1>2, <2>1, AllNumbers
<1>4. Cardinality(S) \in Nat
  BY FS_CardinalityType DEF Listable
<1> QED BY <1>3, <1>4

(* The list that is made has everything, from the lowest number on.        *)
LEMMA ByVariationLists ==
  ASSUME NEW S, Listable(S)
  PROVE  /\ Cardinality(S) \in Nat
         /\ ByVariation(S) \in [1..Cardinality(S) -> S]
         /\ \A m, n \in 1..Cardinality(S) : m < n => ByVariation(S)[m] # ByVariation(S)[n] /\ ByVariation(S)[m][1] <= ByVariation(S)[n][1]
         /\ \A t \in S : \E n \in 1..Cardinality(S) : ByVariation(S)[n] = t
<1> DEFINE N == Cardinality(S)
           b == ByVariation(S)
<1>1. PICK s : Listing(s, S)
  BY ListingExists
<1>2. /\ s \in [1..Cardinality(S) -> S]
      /\ \A m, n \in DOMAIN s : m < n => s[m] # s[n] /\ s[m][1] <= s[n][1]
  BY <1>1 DEF Listing
<1>3. b = CHOOSE r \in [1..Cardinality(S) -> S] : \A m, n \in DOMAIN r : m < n => r[m] # r[n] /\ r[m][1] <= r[n][1]
  BY DEF ByVariation
<1>4. b \in [1..N -> S] /\ \A m, n \in DOMAIN b : m < n => b[m] # b[n] /\ b[m][1] <= b[n][1]
  <2> DEFINE F == [1..Cardinality(S) -> S]
             Q(r) == \A m, n \in DOMAIN r : m < n => r[m] # r[n] /\ r[m][1] <= r[n][1]
  <2>1. s \in F /\ Q(s) /\ b = CHOOSE r \in F : Q(r)
    BY <1>2, <1>3
  <2> HIDE DEF b, F, Q
  <2>2. b \in F /\ Q(b)
    BY <2>1
  <2> QED BY <2>2 DEF F, Q
<1>5. N \in Nat /\ IsFiniteSet(S)
  BY FS_CardinalityType DEF Listable
<1>6. DOMAIN b = 1..N
  BY <1>4
<1> HIDE DEF b, N
<1>7. b \in Injection(1..N, S)
  <2>1. ASSUME NEW m \in 1..N, NEW n \in 1..N, b[m] = b[n] PROVE m = n
    <3>1. m < n \/ n < m \/ m = n
      BY <1>5
    <3> QED BY <1>4, <1>6, <2>1, <3>1
  <2> QED BY <1>4, <2>1 DEF Injection, IsInjective
<1>8. IsFiniteSet(1..N) /\ Cardinality(1..N) = N
  <2>1. 1 \in Int /\ N \in Int
    BY <1>5
  <2> QED BY <1>5, <2>1, FS_Interval
<1>9. b \in Surjection(1..N, S)
  BY <1>5, <1>7, <1>8, FS_Injection DEF N
<1>10. \A t \in S : \E n \in 1..N : b[n] = t
  BY <1>9 DEF Surjection
<1> QED BY <1>4, <1>5, <1>6, <1>10 DEF b, N

-----------------------------------------------------------------------------
(* The targets of a flag that an application builds.                       *)

TargetsTo(V) == UNION {[D -> V] : D \in {D \in SUBSET (Nat \X (STRING \ {""})) : IsFiniteSet(D)}}

BuiltRules ==
  [clauses : {Each(conditions, MatchOrNot) : conditions \in Conditions}, variation : Nat, rollout : {<<>>}, trackEvents : {FALSE}]

BuildersOf(V) ==
  [on : BOOLEAN, values : Seq(BOOLEAN) \cup Seq(Nat), off : Nat, fallthrough : Nat, targets : TargetsTo(V),
   rules : Seq(BuiltRules), told : [TargetKey -> Nat \cup {NoVariation}]]

Users(targets) == {t \in DOMAIN targets : t[2] = "user"}

UserTargets(targets, heap) ==
  LET s == ByVariation(Users(targets))
  IN [n \in DOMAIN s |-> [contextKind |-> "", variation |-> s[n][1], values |-> heap[targets[s[n]]]]]

AllTargets(targets, heap) ==
  LET s == ByVariation(DOMAIN targets)
  IN [n \in DOMAIN s |-> [contextKind |-> s[n][2], variation |-> s[n][1],
                          values |-> IF s[n][2] = "user" THEN {} ELSE heap[targets[s[n]]]]]

(* What maps pairs of numbers and kinds.                                   *)
LEMMA TargetsToIs ==
  ASSUME NEW V, NEW targets
  PROVE  targets \in TargetsTo(V)
         <=> /\ targets \in [DOMAIN targets -> V] /\ IsFiniteSet(DOMAIN targets)
             /\ DOMAIN targets \in SUBSET (Nat \X (STRING \ {""}))
<1>1. ASSUME targets \in TargetsTo(V)
      PROVE  /\ targets \in [DOMAIN targets -> V] /\ IsFiniteSet(DOMAIN targets)
             /\ DOMAIN targets \in SUBSET (Nat \X (STRING \ {""}))
  <2>1. PICK D \in SUBSET (Nat \X (STRING \ {""})) : IsFiniteSet(D) /\ targets \in [D -> V]
    BY <1>1 DEF TargetsTo
  <2>2. DOMAIN targets = D
    BY <2>1
  <2> QED BY <2>1, <2>2
<1>2. ASSUME /\ targets \in [DOMAIN targets -> V] /\ IsFiniteSet(DOMAIN targets)
             /\ DOMAIN targets \in SUBSET (Nat \X (STRING \ {""}))
      PROVE  targets \in TargetsTo(V)
  <2> DEFINE D == DOMAIN targets
  <2>1. D \in {E \in SUBSET (Nat \X (STRING \ {""})) : IsFiniteSet(E)} /\ targets \in [D -> V]
    BY <1>2
  <2> HIDE DEF D
  <2> QED BY <2>1 DEF TargetsTo
<1> QED BY <1>1, <1>2

(* Targets can be listed, and so can those of users.                       *)
LEMMA TargetsListable ==
  ASSUME NEW V, NEW targets \in TargetsTo(V)
  PROVE  Listable(DOMAIN targets) /\ Listable(Users(targets))
<1>1. IsFiniteSet(DOMAIN targets) /\ DOMAIN targets \in SUBSET (Nat \X (STRING \ {""}))
  BY TargetsToIs
<1>2. Users(targets) \in SUBSET DOMAIN targets
  BY DEF Users
<1>3. IsFiniteSet(Users(targets))
  BY <1>1, <1>2, FS_Subset
<1>4. \A t \in DOMAIN targets : t[1] \in Nat
  BY <1>1
<1> QED BY <1>1, <1>2, <1>3, <1>4 DEF Listable

(* The flag that is built, with what its lists have.                       *)
LEMMA ReadBuild ==
  ASSUME NEW b, NEW heap, b.targets \in TargetsTo(Nat \ {0})
  PROVE  LET flag == Read(Build(b), heap) IN
         /\ flag.kind = "flag" /\ flag.on = b.on /\ flag.prerequisites = <<>> /\ flag.rules = b.rules
         /\ flag.fallthrough.variation = b.fallthrough /\ flag.offVariation = b.off
         /\ flag.variations = Len(b.values)
         /\ flag.targets = UserTargets(b.targets, heap)
         /\ flag.contextTargets = AllTargets(b.targets, heap)
<1> DEFINE targets == b.targets
           users == {t \in DOMAIN b.targets : t[2] = "user"}
           target(t) == [contextKind |-> t[2], list |-> IF t \in users THEN 0 ELSE b.targets[t], variation |-> t[1]]
           userTarget(t) == [contextKind |-> "", list |-> b.targets[t], variation |-> t[1]]
           values(t) == [contextKind |-> t.contextKind, variation |-> t.variation,
                         values |-> IF t.list = 0 THEN {} ELSE heap[t.list]]
           built == Build(b)
           flag == Read(built, heap)
           su == ByVariation(users)
           sd == ByVariation(DOMAIN b.targets)
           ut == Each(su, userTarget)
           ct == Each(sd, target)
<1>1. /\ built.targets = ut /\ built.contextTargets = ct
      /\ built.kind = "flag" /\ built.on = b.on /\ built.prerequisites = <<>> /\ built.rules = b.rules
      /\ built.fallthrough.variation = b.fallthrough /\ built.offVariation = b.off /\ built.variations = Len(b.values)
      /\ built \in [DOMAIN built -> {built[x] : x \in DOMAIN built}]
      /\ DOMAIN built = {"kind", "on", "prerequisites", "rules", "targets", "contextTargets", "fallthrough", "offVariation",
            "variations", "trackEvents", "trackEventsFallthrough", "debugEventsUntilDate", "usingEnvironmentId", "nullVariation"}
  <2> HIDE DEF ut, ct
  <2>1. built = [kind |-> "flag", on |-> b.on, prerequisites |-> <<>>, rules |-> b.rules,
          targets |-> ut, contextTargets |-> ct,
          fallthrough |-> [variation |-> b.fallthrough, rollout |-> <<>>], offVariation |-> b.off,
          variations |-> Len(b.values), trackEvents |-> FALSE, trackEventsFallthrough |-> FALSE,
          debugEventsUntilDate |-> FALSE, usingEnvironmentId |-> FALSE, nullVariation |-> FALSE]
    BY DEF Build, ut, ct
  <2> HIDE DEF built
  <2> QED BY <2>1
<1>2. flag = [built EXCEPT !.targets = Each(@, values), !.contextTargets = Each(@, values)]
  BY DEF Read
<1>3. /\ flag.kind = "flag" /\ flag.on = b.on /\ flag.prerequisites = <<>> /\ flag.rules = b.rules
      /\ flag.fallthrough.variation = b.fallthrough /\ flag.offVariation = b.off /\ flag.variations = Len(b.values)
      /\ flag.targets = Each(ut, values) /\ flag.contextTargets = Each(ct, values)
  <2> DEFINE eu == Each(ut, values)
             ec == Each(ct, values)
  <2>1. flag = [built EXCEPT !.targets = eu, !.contextTargets = ec]
    BY <1>1, <1>2
  <2> HIDE DEF eu, ec, built, ut, ct, flag
  <2> QED BY <1>1, <2>1 DEF eu, ec
<1>4. Listable(users) /\ Listable(DOMAIN targets)
  BY TargetsListable DEF Users
<1>5. targets \in [DOMAIN targets -> Nat \ {0}]
  BY TargetsToIs
<1>6. su \in [1..Cardinality(users) -> users]
  <2> HIDE DEF users
  <2> QED BY <1>4, ByVariationLists
<1>7. sd \in [1..Cardinality(DOMAIN targets) -> DOMAIN targets]
  BY <1>4, ByVariationLists
<1>8. \A n \in DOMAIN su : su[n] \in DOMAIN targets /\ targets[su[n]] # 0
  BY <1>5, <1>6
<1>9. \A n \in DOMAIN sd : sd[n] \in DOMAIN targets /\ targets[sd[n]] # 0
  <2> HIDE DEF sd
  <2> QED BY <1>5, <1>7
<1> DEFINE ug == [n \in DOMAIN su |-> [contextKind |-> "", variation |-> su[n][1], values |-> heap[targets[su[n]]]]]
           cg == [n \in DOMAIN sd |-> [contextKind |-> sd[n][2], variation |-> sd[n][1],
                                       values |-> IF sd[n][2] = "user" THEN {} ELSE heap[targets[sd[n]]]]]
<1>10. Each(ut, values) = ug
  <2> HIDE DEF su
  <2>1. ut = [n \in DOMAIN su |-> userTarget(su[n])]
    BY DEF Each
  <2> HIDE DEF ut
  <2>2. Each(ut, values) = [n \in DOMAIN su |-> values(userTarget(su[n]))]
    BY <2>1 DEF Each
  <2>3. \A n \in DOMAIN su : values(userTarget(su[n])) = [contextKind |-> "", variation |-> su[n][1], values |-> heap[targets[su[n]]]]
    BY <1>8
  <2> QED BY <2>2, <2>3
<1>11. Each(ct, values) = cg
  <2> HIDE DEF sd
  <2>1. ct = [n \in DOMAIN sd |-> target(sd[n])]
    BY DEF Each
  <2> HIDE DEF ct
  <2>2. Each(ct, values) = [n \in DOMAIN sd |-> values(target(sd[n]))]
    BY <2>1 DEF Each
  <2>3. \A n \in DOMAIN sd : values(target(sd[n])) = [contextKind |-> sd[n][2], variation |-> sd[n][1],
                                       values |-> IF sd[n][2] = "user" THEN {} ELSE heap[targets[sd[n]]]]
    <3> TAKE n \in DOMAIN sd
    <3>1. sd[n] \in users <=> sd[n][2] = "user"
      BY <1>9
    <3>2. (IF sd[n] \in users THEN 0 ELSE targets[sd[n]]) = 0 <=> sd[n][2] = "user"
      BY <1>9, <3>1
    <3> HIDE DEF users
    <3> QED BY <3>1, <3>2
  <2> QED BY <2>2, <2>3
<1>12. ug = UserTargets(targets, heap) /\ cg = AllTargets(targets, heap)
  BY DEF UserTargets, AllTargets, Users
<1> HIDE DEF flag, ug, cg, ut, ct, values
<1>13. flag.targets = UserTargets(b.targets, heap) /\ flag.contextTargets = AllTargets(b.targets, heap)
  BY <1>3, <1>10, <1>11, <1>12
<1> HIDE DEF built
<1> QED BY <1>3, <1>13 DEF flag, built

(* A pair is its parts.                                                    *)
LEMMA PairIs ==
  ASSUME NEW A, NEW B, NEW v \in A \X B
  PROVE  v = <<v[1], v[2]>>
<1>1. PICK a \in A, b \in B : v = <<a, b>>
  OBVIOUS
<1> QED BY <1>1

(* The first result of many.                                               *)
LEMMA FirstResultIs ==
  ASSUME NEW N \in Nat, NEW results, DOMAIN results = 1..N, Len(results) = N
  PROVE  /\ (\A n \in 1..N : results[n] = NoResult) => FirstResult(results) = NoResult
         /\ \A k \in 1..N : results[k] # NoResult /\ (\A n \in 1..k - 1 : results[n] = NoResult) => FirstResult(results) = results[k]
<1> DEFINE I == {i \in 1..Len(results) : results[i] # NoResult}
<1>1. FirstResult(results) = IF (IF I # {} THEN Min(I) ELSE 0) = 0 THEN NoResult ELSE results[IF I # {} THEN Min(I) ELSE 0]
  BY DEF FirstResult, SelectInSeq
<1>2. I \in SUBSET Nat /\ \A n \in 1..N : n \in I <=> results[n] # NoResult
  OBVIOUS
<1>3. I \subseteq 1..N
  OBVIOUS
<1> HIDE DEF I
<1>4. CASE I = {}
  BY <1>1, <1>2, <1>4
<1>5. CASE I # {}
  <2>1. Min(I) \in I /\ \A m \in I : Min(I) <= m
    BY <1>2, <1>5, LeastNumber
  <2>2. Min(I) \in 1..N
    BY <1>3, <2>1
  <2>3. FirstResult(results) = results[Min(I)]
    BY <1>1, <1>5, <2>2
  <2>4. ASSUME NEW k \in 1..N, results[k] # NoResult, \A n \in 1..k - 1 : results[n] = NoResult PROVE k = Min(I)
    <3>1. Min(I) <= k
      BY <1>2, <2>1, <2>4
    <3>2. Min(I) \notin 1..k - 1
      BY <1>2, <2>1, <2>2, <2>4
    <3> QED BY <2>2, <3>1, <3>2
  <2>5. ~(\A n \in 1..N : results[n] = NoResult)
    BY <1>2, <2>1, <2>2
  <2> QED BY <2>3, <2>4, <2>5
<1> QED BY <1>4, <1>5

(* The context has a key that the list of a target has.                    *)
Hits(targets, heap, c, t) == HasKind(c, t[2]) /\ KeyOf(c, t[2]) \in heap[targets[t]]

HitOrNot(flag, targets, heap, c, t) ==
  IF Hits(targets, heap, c, t) THEN GetVariation(flag, t[1], "TARGET_MATCH") ELSE NoResult

Targeted(flag, targets, heap) ==
  /\ targets \in TargetsTo(Nat \ {0})
  /\ flag.targets = UserTargets(targets, heap) /\ flag.contextTargets = AllTargets(targets, heap)

(* A context target gives what its target says, for users by way of the    *)
(* user target of the same variation.                                      *)
LEMMA ContextTargetAnswers ==
  ASSUME NEW flag, NEW targets, NEW heap, NEW c, Targeted(flag, targets, heap),
         NEW n \in DOMAIN flag.contextTargets
  PROVE  EvalContextTarget(flag, flag.contextTargets[n], c)
         = HitOrNot(flag, targets, heap, c, ByVariation(DOMAIN targets)[n])
<1> DEFINE sd == ByVariation(DOMAIN targets)
           su == ByVariation(Users(targets))
           t == sd[n]
           ct == flag.contextTargets[n]
           NU == Cardinality(Users(targets))
<1>1. Listable(DOMAIN targets) /\ Listable(Users(targets))
  BY TargetsListable DEF Targeted
<1>2. sd \in [1..Cardinality(DOMAIN targets) -> DOMAIN targets]
  BY <1>1, ByVariationLists
<1>3. /\ NU \in Nat /\ su \in [1..NU -> Users(targets)] /\ DOMAIN su = 1..NU
      /\ \A u \in Users(targets) : \E m \in 1..NU : su[m] = u
  BY <1>1, ByVariationLists
<1>4. DOMAIN targets \in SUBSET (Nat \X (STRING \ {""}))
  BY TargetsToIs DEF Targeted
<1> HIDE DEF sd, su
<1>5. /\ n \in DOMAIN sd /\ ct.contextKind = t[2] /\ ct.variation = t[1]
      /\ t[2] # "user" => ct.values = heap[targets[t]]
  <2> DEFINE of(m) == [contextKind |-> sd[m][2], variation |-> sd[m][1],
                       values |-> IF sd[m][2] = "user" THEN {} ELSE heap[targets[sd[m]]]]
             all == [m \in DOMAIN sd |-> of(m)]
  <2>1. flag.contextTargets = all
    BY DEF Targeted, AllTargets, sd
  <2> HIDE DEF of
  <2>2. n \in DOMAIN sd /\ ct = of(n)
    BY <2>1
  <2> HIDE DEF ct, sd
  <2> QED BY <2>2 DEF of
<1>6. t \in DOMAIN targets /\ t[2] # ""
  <2>1. t \in DOMAIN targets
    BY <1>2, <1>5
  <2>2. t \in Nat \X (STRING \ {""})
    BY <1>4, <2>1
  <2> HIDE DEF t
  <2> QED BY <2>1, <2>2
<1>7. OrUser(ct.contextKind) = t[2]
  BY <1>5, <1>6 DEF OrUser
<1> DEFINE of(m) == [contextKind |-> "", variation |-> su[m][1], values |-> heap[targets[su[m]]]]
<1>8. flag.targets = [m \in 1..NU |-> of(m)]
  BY <1>3 DEF Targeted, UserTargets, su
<1>9. /\ Len(flag.targets) = NU
      /\ \A m \in 1..NU :
           /\ flag.targets[m].contextKind = "" /\ flag.targets[m].variation = su[m][1]
           /\ flag.targets[m].values = heap[targets[su[m]]]
  <2>1. \A m \in 1..NU : of(m).contextKind = "" /\ of(m).variation = su[m][1] /\ of(m).values = heap[targets[su[m]]]
    OBVIOUS
  <2>2. NU \in Nat
    BY <1>3
  <2> HIDE DEF of, NU, ct, t
  <2>3. Len(flag.targets) = NU
    BY <1>8, <2>2
  <2>4. \A m \in 1..NU : flag.targets[m] = of(m)
    BY <1>8
  <2> QED BY <2>1, <2>3, <2>4
<1> HIDE DEF of
<1>10. CASE t[2] # "user"
  <2>1. EvalContextTarget(flag, ct, c) = EvalTarget(flag, ct, c)
    BY <1>7, <1>10 DEF EvalContextTarget
  <2>2. ct.values = heap[targets[t]] /\ ct.variation = t[1]
    <3> HIDE DEF ct, t
    <3> QED BY <1>5, <1>10
  <2> HIDE DEF ct, t
  <2>3. EvalTarget(flag, ct, c) = HitOrNot(flag, targets, heap, c, t)
    BY <1>7, <2>2, Zenon DEF EvalTarget, HitOrNot, Hits
  <2> QED BY <2>1, <2>3 DEF ct, t, sd
<1>11. CASE t[2] = "user"
  <2> DEFINE I == {i \in 1..Len(flag.targets) : flag.targets[i].variation = ct.variation}
             k == IF I # {} THEN Min(I) ELSE 0
             ut == flag.targets[k]
  <2>1. EvalContextTarget(flag, ct, c) = IF k = 0 THEN NoResult ELSE EvalTarget(flag, flag.targets[k], c)
    BY <1>7, <1>11 DEF EvalContextTarget, SelectInSeq
  <2>2. t \in Users(targets) /\ ct.variation = t[1]
    BY <1>5, <1>6, <1>11 DEF Users
  <2>3. PICK m \in 1..NU : su[m] = t
    BY <1>3, <2>2
  <2>4. m \in I
    BY <1>9, <2>2, <2>3
  <2>5. I \in SUBSET Nat /\ I # {}
    <3>1. NU \in Nat /\ Len(flag.targets) = NU
      BY <1>3, <1>9
    <3>2. 1..Len(flag.targets) \in SUBSET Nat
      <4> HIDE DEF NU
      <4> QED BY <3>1
    <3> HIDE DEF NU, ct
    <3> QED BY <2>4, <3>2
  <2>6. k \in I
    <3> HIDE DEF I
    <3> QED BY <2>5, LeastNumber
  <2>7. k \in 1..NU /\ flag.targets[k].variation = t[1]
    BY <1>9, <2>2, <2>6
  <2> HIDE DEF k
  <2>8. su[k] \in Users(targets) /\ su[k][1] = t[1]
    BY <1>3, <1>9, <2>7
  <2>9. su[k] = t
    <3>1. su[k] \in Nat \X (STRING \ {""}) /\ t \in Nat \X (STRING \ {""}) /\ su[k][2] = t[2]
      BY <1>4, <1>6, <1>11, <2>8 DEF Users
    <3> DEFINE v == su[k]
    <3>2. v[1] = t[1] /\ v[2] = t[2] /\ v \in Nat \X (STRING \ {""}) /\ t \in Nat \X (STRING \ {""})
      BY <2>8, <3>1
    <3> HIDE DEF t, v
    <3>3. v = <<v[1], v[2]>> /\ t = <<t[1], t[2]>>
      BY <3>2, PairIs
    <3>4. v = t
      BY <3>2, <3>3, Zenon
    <3> QED BY <3>4 DEF v
  <2>10. ut.contextKind = "" /\ ut.variation = t[1] /\ ut.values = heap[targets[t]]
    BY <1>9, <2>7, <2>9
  <2>11. OrUser(ut.contextKind) = t[2]
    BY <1>11, <2>10 DEF OrUser
  <2>12. EvalContextTarget(flag, ct, c) = EvalTarget(flag, ut, c)
    BY <2>1, <2>7
  <2> HIDE DEF ct, t, ut
  <2>13. EvalTarget(flag, ut, c) = HitOrNot(flag, targets, heap, c, t)
    BY <2>10, <2>11, Zenon DEF EvalTarget, HitOrNot, Hits
  <2> QED BY <2>12, <2>13 DEF ct, t, sd
<1> QED BY <1>10, <1>11

(* The target of least variation that hits.                                *)
LEMMA TargetsAnswer ==
  ASSUME NEW flag, NEW targets, NEW heap, NEW c, Targeted(flag, targets, heap)
  PROVE  /\ (\A t \in DOMAIN targets : ~Hits(targets, heap, c, t)) => EvalTargets(flag, c) = NoResult
         /\ \A t \in DOMAIN targets :
              Hits(targets, heap, c, t) /\ (\A u \in DOMAIN targets : Hits(targets, heap, c, u) => t[1] <= u[1])
              => EvalTargets(flag, c) = GetVariation(flag, t[1], "TARGET_MATCH")
<1> DEFINE D == DOMAIN targets
           N == Cardinality(D)
           s == ByVariation(D)
           a == [n \in DOMAIN flag.targets |-> EvalTarget(flag, flag.targets[n], c)]
           b == [n \in DOMAIN flag.contextTargets |-> EvalContextTarget(flag, flag.contextTargets[n], c)]
<1>1. Listable(D)
  BY TargetsListable DEF Targeted
<1>2. /\ N \in Nat /\ s \in [1..N -> D]
      /\ \A m, n \in 1..N : m < n => s[m] # s[n] /\ s[m][1] <= s[n][1]
      /\ \A t \in D : \E n \in 1..N : s[n] = t
  BY <1>1, ByVariationLists
<1> HIDE DEF N
<1>3. DOMAIN flag.contextTargets = 1..N
  BY <1>2 DEF Targeted, AllTargets
<1>4. ASSUME NEW n \in 1..N PROVE b[n] = HitOrNot(flag, targets, heap, c, s[n])
  <2>1. n \in DOMAIN flag.contextTargets
    BY <1>3
  <2>2. EvalContextTarget(flag, flag.contextTargets[n], c) = HitOrNot(flag, targets, heap, c, ByVariation(DOMAIN targets)[n])
    BY <2>1, ContextTargetAnswers
  <2> QED BY <2>1, <2>2
<1>5. DOMAIN b = 1..N /\ Len(b) = N
  <2>1. b = [n \in 1..N |-> b[n]]
    BY <1>3
  <2> HIDE DEF b
  <2> QED BY <1>2, <2>1
<1>6. EvalTargets(flag, c) = FirstResult(IF flag.contextTargets = <<>> THEN a ELSE b)
  BY DEF EvalTargets
<1>7. \A t \in D : t[1] \in Nat
  BY <1>1 DEF Listable
<1>8. \A t \in D : HitOrNot(flag, targets, heap, c, t) # NoResult <=> Hits(targets, heap, c, t)
  <2>1. \A t \in D : GetVariation(flag, t[1], "TARGET_MATCH").kind # "undecided"
    BY DEF GetVariation, Success, Malformed, ForError
  <2>2. \A t \in D : GetVariation(flag, t[1], "TARGET_MATCH") # NoResult
    BY <2>1 DEF NoResult
  <2> QED BY <2>2, Zenon DEF HitOrNot
<1> HIDE DEF s, a, b
<1>9. CASE D = {}
  <2>1. N = 0
    BY <1>9, FS_EmptySet DEF N
  <2>2. flag.contextTargets = <<>>
    BY <1>2, <1>3, <2>1 DEF Targeted, AllTargets, s
  <2>3. DOMAIN flag.targets = 1..0
    <3>1. Users(targets) = {}
      BY <1>9 DEF Users
    <3>2. Listable(Users(targets)) /\ Cardinality(Users(targets)) = 0
      BY <3>1, TargetsListable, FS_EmptySet DEF Targeted
    <3>3. ByVariation(Users(targets)) \in [1..0 -> Users(targets)]
      BY <3>2, ByVariationLists
    <3> QED BY <3>3 DEF Targeted, UserTargets
  <2>4. DOMAIN a = 1..0 /\ Len(a) = 0
    <3>1. a = [n \in 1..0 |-> a[n]]
      BY <2>3 DEF a
    <3> QED BY <3>1
  <2>5. FirstResult(a) = NoResult
    BY <2>4, FirstResultIs
  <2> QED BY <1>6, <1>9, <2>2, <2>5
<1>10. CASE D # {}
  <2>1. N # 0 /\ flag.contextTargets # <<>>
    BY <1>2, <1>3, <1>10
  <2>2. EvalTargets(flag, c) = FirstResult(b)
    BY <1>6, <2>1
  <2>3. ASSUME \A t \in D : ~Hits(targets, heap, c, t) PROVE EvalTargets(flag, c) = NoResult
    <3>1. \A n \in 1..N : b[n] = NoResult
      BY <1>2, <1>4, <1>8, <2>3
    <3> QED BY <1>2, <1>5, <2>2, <3>1, FirstResultIs
  <2>4. ASSUME NEW t \in D, Hits(targets, heap, c, t), \A u \in D : Hits(targets, heap, c, u) => t[1] <= u[1]
        PROVE  EvalTargets(flag, c) = GetVariation(flag, t[1], "TARGET_MATCH")
    <3> DEFINE I == {n \in 1..N : Hits(targets, heap, c, s[n])}
               k == Min(I)
    <3>1. PICK j \in 1..N : s[j] = t
      BY <1>2
    <3>2. I \in SUBSET Nat /\ j \in I
      BY <2>4, <3>1
    <3>3. k \in I /\ \A m \in I : k <= m
      <4> HIDE DEF I
      <4> QED BY <3>2, LeastNumber
    <3>4. k \in 1..N /\ Hits(targets, heap, c, s[k]) /\ k <= j /\ s[k] \in D
      BY <1>2, <3>2, <3>3
    <3>5. \A n \in 1..k - 1 : n \in 1..N /\ ~Hits(targets, heap, c, s[n]) /\ s[n] \in D
      <4> TAKE n \in 1..k - 1
      <4>1. n \in 1..N /\ n < k
        BY <1>2, <3>4
      <4>2. n \notin I
        BY <3>3, <3>4, <4>1
      <4> QED BY <1>2, <4>1, <4>2
    <3> HIDE DEF I, k
    <3>6. \A n \in 1..k - 1 : b[n] = NoResult
      BY <1>4, <1>8, <3>5
    <3>7. b[k] # NoResult /\ b[k] = HitOrNot(flag, targets, heap, c, s[k])
      BY <1>4, <1>8, <3>4
    <3>8. FirstResult(b) = b[k]
      BY <1>2, <1>5, <3>4, <3>6, <3>7, FirstResultIs
    <3>9. s[k][1] = t[1]
      <4>1. s[k][1] <= t[1]
        BY <1>2, <1>7, <3>1, <3>4
      <4>2. t[1] <= s[k][1]
        BY <2>4, <3>4
      <4> QED BY <1>7, <3>4, <4>1, <4>2
    <3>10. HitOrNot(flag, targets, heap, c, s[k]) = GetVariation(flag, s[k][1], "TARGET_MATCH")
      BY <3>4, Zenon DEF HitOrNot
    <3> QED BY <2>2, <3>7, <3>8, <3>9, <3>10
  <2> QED BY <2>3, <2>4
<1> QED BY <1>9, <1>10

-----------------------------------------------------------------------------
(* The builder of a flag, whatever its lists are.                          *)

(* The targets that there were, or none.                                   *)
TargetsKept(b, b2) ==
  \/ b2.targets = b.targets /\ b2.told = b.told
  \/ b2.targets = <<>> /\ b2.told = NoTargets

Indexes == [boolean : BOOLEAN, index : Nat]

(* No targets are targets.                                                 *)
LEMMA NoTargetsTyped ==
  ASSUME NEW V
  PROVE  <<>> \in TargetsTo(V) /\ DOMAIN <<>> = {} /\ NoTargets \in [TargetKey -> Nat \cup {NoVariation}]
<1> DEFINE e == <<>>
<1>1. DOMAIN e = {} /\ e \in [{} -> V]
  OBVIOUS
<1> HIDE DEF e
<1>2. e \in [DOMAIN e -> V] /\ IsFiniteSet(DOMAIN e) /\ DOMAIN e \in SUBSET (Nat \X (STRING \ {""}))
  BY <1>1, FS_EmptySet
<1>3. e \in TargetsTo(V)
  BY <1>2, TargetsToIs
<1>4. NoTargets \in [TargetKey -> Nat \cup {NoVariation}]
  BY DEF NoTargets
<1> QED BY <1>1, <1>3, <1>4 DEF e

(* What is chosen has an index.                                            *)
LEMMA ChoiceTyped ==
  ASSUME NEW V, NEW b \in BuildersOf(V), NEW v \in Choice(b)
  PROVE  v \in Indexes
<1>1. Len(b.values) \in Nat
  BY DEF BuildersOf
<1>2. \A n \in Nat : Index(n) \in Indexes
  BY DEF Index, Indexes
<1>3. ForTrue \in Indexes /\ ForFalse \in Indexes
  BY DEF ForTrue, ForFalse, Indexes
<1> DEFINE N == Len(b.values) - 1
<1>4. \A n \in 0..N : n \in Nat
  BY <1>1
<1> HIDE DEF N
<1>5. v \in {ForTrue, ForFalse} \cup {Index(n) : n \in 0..N}
  BY DEF Choice, N
<1> QED BY <1>2, <1>3, <1>4, <1>5

(* The values of flags.                                                    *)
LEMMA ValuesTyped ==
  /\ VariationForBoolean \in Seq(BOOLEAN) \cup Seq(Nat)
  /\ <<1, 2, 3>> \in Seq(BOOLEAN) \cup Seq(Nat) /\ <<1>> \in Seq(BOOLEAN) \cup Seq(Nat)
  BY DEF VariationForBoolean

(* The variations set anew.                                                *)
LEMMA SetVariationsTyped ==
  ASSUME NEW V, NEW b \in BuildersOf(V), NEW values \in Seq(BOOLEAN) \cup Seq(Nat)
  PROVE  SetVariations(b, values) \in BuildersOf(V) /\ TargetsKept(b, SetVariations(b, values))
  BY DEF SetVariations, BuildersOf, TargetsKept

(* A boolean flag.                                                         *)
LEMMA BooleanFlagTyped ==
  ASSUME NEW V, NEW b \in BuildersOf(V)
  PROVE  /\ BooleanFlag(b) \in BuildersOf(V)
         /\ BooleanFlag(b).targets = b.targets /\ BooleanFlag(b).told = b.told
         /\ BooleanFlag(b).values = VariationForBoolean
<1> DEFINE s == SetVariations(b, VariationForBoolean)
<1>1. s \in BuildersOf(V) /\ s.targets = b.targets /\ s.told = b.told /\ s.values = VariationForBoolean
  BY ValuesTyped DEF SetVariations, BuildersOf
<1> HIDE DEF s
<1>2. /\ [s EXCEPT !.fallthrough = 0, !.off = 1] \in BuildersOf(V)
      /\ [s EXCEPT !.fallthrough = 0, !.off = 1].targets = b.targets
      /\ [s EXCEPT !.fallthrough = 0, !.off = 1].told = b.told
      /\ [s EXCEPT !.fallthrough = 0, !.off = 1].values = VariationForBoolean
  BY <1>1 DEF BuildersOf
<1>3. BooleanFlag(b) = IF b.values = VariationForBoolean THEN b ELSE [s EXCEPT !.fallthrough = 0, !.off = 1]
  BY DEF BooleanFlag, s
<1> QED BY <1>2, <1>3

(* The same for a variation that is a boolean.                             *)
LEMMA ForTyped ==
  ASSUME NEW V, NEW b \in BuildersOf(V), NEW v \in Choice(b)
  PROVE  /\ For(b, v) \in BuildersOf(V)
         /\ For(b, v).targets = b.targets /\ For(b, v).told = b.told
         /\ v.index < Len(For(b, v).values) /\ v.index \in Nat
<1>1. CASE v.boolean
  <2>1. For(b, v) = BooleanFlag(b)
    BY <1>1 DEF For
  <2>2. v \in {ForTrue, ForFalse}
    BY <1>1 DEF Choice, Index
  <2>3. Len(VariationForBoolean) = 2 /\ v.index \in 0..1
    BY <2>2 DEF VariationForBoolean, ForTrue, ForFalse
  <2>4. v.index < 2 /\ v.index \in Nat
    BY <2>3
  <2> DEFINE f == BooleanFlag(b)
  <2>5. f \in BuildersOf(V) /\ f.targets = b.targets /\ f.told = b.told /\ f.values = VariationForBoolean
    BY BooleanFlagTyped
  <2> HIDE DEF f
  <2>6. v.index < Len(f.values)
    BY <2>3, <2>4, <2>5
  <2> QED BY <2>1, <2>4, <2>5, <2>6 DEF f
<1>2. CASE ~v.boolean
  <2>1. For(b, v) = b
    BY <1>2 DEF For
  <2>2. Len(b.values) \in Nat
    BY DEF BuildersOf
  <2>3. v.index \in 0..Len(b.values) - 1
    BY <1>2 DEF Choice, Index, ForTrue, ForFalse
  <2> QED BY <2>1, <2>2, <2>3
<1> QED BY <1>1, <1>2

(* A builder that is new.                                                  *)
LEMMA NewBuilderTyped ==
  ASSUME NEW V
  PROVE  NewBuilder \in BuildersOf(V) /\ NewBuilder.targets = <<>> /\ NewBuilder.told = NoTargets
<1> DEFINE e == <<>>
           b == [on |-> TRUE, values |-> e, off |-> 0, fallthrough |-> 0, targets |-> e, rules |-> e, told |-> NoTargets]
<1>1. e \in TargetsTo(V) /\ e \in Seq(BOOLEAN) \cup Seq(Nat) /\ e \in Seq(BuiltRules)
  BY NoTargetsTyped
<1>2. NoTargets \in [TargetKey -> Nat \cup {NoVariation}]
  BY NoTargetsTyped
<1>3. NewBuilder = BooleanFlag(b)
  BY DEF NewBuilder
<1> HIDE DEF e
<1>4. b \in BuildersOf(V) /\ b.targets = e /\ b.told = NoTargets
  BY <1>1, <1>2 DEF BuildersOf
<1> HIDE DEF b
<1> QED BY <1>3, <1>4, BooleanFlagTyped DEF e

(* Fallthrough and off variation.                                          *)
LEMMA VariationsTyped ==
  ASSUME NEW V, NEW b \in BuildersOf(V), NEW v \in Choice(b)
  PROVE  /\ FallthroughVariation(b, v) \in BuildersOf(V) /\ TargetsKept(b, FallthroughVariation(b, v))
         /\ OffVariation(b, v) \in BuildersOf(V) /\ TargetsKept(b, OffVariation(b, v))
<1> DEFINE f == For(b, v)
<1>1. f \in BuildersOf(V) /\ f.targets = b.targets /\ f.told = b.told /\ v.index \in Nat
  BY ForTyped
<1> HIDE DEF f
<1>2. FallthroughVariation(b, v) = [f EXCEPT !.fallthrough = v.index] /\ OffVariation(b, v) = [f EXCEPT !.off = v.index]
  BY DEF FallthroughVariation, OffVariation, f
<1> QED BY <1>1, <1>2 DEF BuildersOf, TargetsKept

(* On or off, rules or targets cleared.                                    *)
LEMMA ClearedTyped ==
  ASSUME NEW V, NEW b \in BuildersOf(V)
  PROVE  /\ \A on \in BOOLEAN : TargetingOn(b, on) \in BuildersOf(V) /\ TargetsKept(b, TargetingOn(b, on))
                                /\ TargetingOn(b, on).values = b.values
         /\ ClearRules(b) \in BuildersOf(V) /\ TargetsKept(b, ClearRules(b)) /\ ClearRules(b).values = b.values
         /\ ClearAllTargets(b) \in BuildersOf(V) /\ ClearAllTargets(b).values = b.values
         /\ ClearAllTargets(b).targets = <<>> /\ ClearAllTargets(b).told = NoTargets
<1> DEFINE e == <<>>
<1>1. e \in TargetsTo(V) /\ e \in Seq(BuiltRules) /\ NoTargets \in [TargetKey -> Nat \cup {NoVariation}]
  BY NoTargetsTyped
<1>2. ClearRules(b) = [b EXCEPT !.rules = e] /\ ClearAllTargets(b) = [b EXCEPT !.targets = e, !.told = NoTargets]
  BY DEF ClearRules, ClearAllTargets
<1> HIDE DEF e
<1>3. \A on \in BOOLEAN : TargetingOn(b, on) \in BuildersOf(V) /\ TargetsKept(b, TargetingOn(b, on))
                                /\ TargetingOn(b, on).values = b.values
  BY DEF TargetingOn, BuildersOf, TargetsKept
<1>4. ClearRules(b) \in BuildersOf(V) /\ TargetsKept(b, ClearRules(b)) /\ ClearRules(b).values = b.values
  BY <1>1, <1>2 DEF BuildersOf, TargetsKept
<1>5. /\ ClearAllTargets(b) \in BuildersOf(V) /\ ClearAllTargets(b).values = b.values
      /\ ClearAllTargets(b).targets = e /\ ClearAllTargets(b).told = NoTargets
  BY <1>1, <1>2 DEF BuildersOf
<1> QED BY <1>3, <1>4, <1>5 DEF e

(* One variation or value for all.                                         *)
LEMMA ForAllTyped ==
  ASSUME NEW V, NEW b \in BuildersOf(V)
  PROVE  /\ \A v \in Choice(b) : VariationForAll(b, v) \in BuildersOf(V) /\ TargetsKept(b, VariationForAll(b, v))
         /\ ValueForAll(b, 1) \in BuildersOf(V) /\ TargetsKept(b, ValueForAll(b, 1))
<1>1. ASSUME NEW a \in BuildersOf(V), NEW v \in Choice(a)
      PROVE  VariationForAll(a, v) \in BuildersOf(V) /\ VariationForAll(a, v).targets = <<>> /\ VariationForAll(a, v).told = NoTargets
  <2> DEFINE on == TargetingOn(a, TRUE)
             rules == ClearRules(on)
             targets == ClearAllTargets(rules)
  <2>1. on \in BuildersOf(V) /\ on.values = a.values
    BY ClearedTyped
  <2> HIDE DEF on
  <2>2. rules \in BuildersOf(V) /\ rules.values = a.values
    BY <2>1, ClearedTyped
  <2> HIDE DEF rules
  <2>3. targets \in BuildersOf(V) /\ targets.values = a.values /\ targets.targets = <<>> /\ targets.told = NoTargets
    BY <2>2, ClearedTyped
  <2>4. VariationForAll(a, v) = FallthroughVariation(targets, v)
    BY DEF VariationForAll, on, rules
  <2> HIDE DEF targets
  <2>5. v \in Choice(targets)
    BY <2>3 DEF Choice
  <2>6. FallthroughVariation(targets, v) \in BuildersOf(V) /\ TargetsKept(targets, FallthroughVariation(targets, v))
    BY <2>3, <2>5, VariationsTyped
  <2> QED BY <2>3, <2>4, <2>6 DEF TargetsKept
<1>2. \A v \in Choice(b) : VariationForAll(b, v) \in BuildersOf(V) /\ TargetsKept(b, VariationForAll(b, v))
  BY <1>1 DEF TargetsKept
<1> DEFINE s == SetVariations(b, <<1>>)
<1>3. s \in BuildersOf(V)
  BY ValuesTyped, SetVariationsTyped
<1>4. s.values = <<1>>
  BY DEF SetVariations, BuildersOf
<1>5. ValueForAll(b, 1) = VariationForAll(s, Index(0))
  BY DEF ValueForAll
<1> HIDE DEF s
<1>6. Index(0) \in Choice(s)
  <2>1. 0 \in 0..Len(s.values) - 1
    BY <1>4
  <2> QED BY <2>1 DEF Choice
<1>7. ValueForAll(b, 1) \in BuildersOf(V) /\ TargetsKept(b, ValueForAll(b, 1))
  BY <1>1, <1>3, <1>5, <1>6 DEF TargetsKept
<1> QED BY <1>2, <1>7

(* One rule more.                                                          *)
LEMMA ThenReturnTyped ==
  ASSUME NEW V, NEW b \in BuildersOf(V), NEW v \in Choice(b), NEW conditions \in Conditions
  PROVE  LET r == ThenReturn(b, Each(conditions, MatchOrNot), v) IN r \in BuildersOf(V) /\ TargetsKept(b, r)
<1> DEFINE f == For(b, v)
           clauses == Each(conditions, MatchOrNot)
           e == <<>>
           rule == [clauses |-> clauses, variation |-> v.index, rollout |-> e, trackEvents |-> FALSE]
           r == ThenReturn(b, clauses, v)
<1>1. f \in BuildersOf(V) /\ f.targets = b.targets /\ f.told = b.told /\ v.index \in Nat
  BY ForTyped
<1>2. rule \in BuiltRules
  BY <1>1 DEF BuiltRules
<1>3. r = [f EXCEPT !.rules = Append(@, rule)]
  BY DEF ThenReturn
<1> HIDE DEF f, rule, r
<1>4. f.rules \in Seq(BuiltRules)
  BY <1>1 DEF BuildersOf
<1>5. Append(f.rules, rule) \in Seq(BuiltRules)
  BY <1>2, <1>4
<1> DEFINE rules == Append(f.rules, rule)
<1>6. r = [f EXCEPT !.rules = rules]
  BY <1>3
<1> HIDE DEF rules
<1>7. r \in BuildersOf(V) /\ TargetsKept(b, r)
  BY <1>1, <1>5, <1>6 DEF BuildersOf, TargetsKept, rules
<1> QED BY <1>7 DEF r

-----------------------------------------------------------------------------
(* The lists of a builder.                                                 *)

Lists == Seq(SUBSET Seq(STRING))

OwnLists(targets) == \A t, u \in DOMAIN targets : targets[t] = targets[u] => t = u

Contents(targets, heap) == [t \in DOMAIN targets |-> heap[targets[t]]]

Named(contents, k) == {t \in DOMAIN contents : t[2] = k[1] /\ k[2] \in contents[t]}

(* v is the least variation among targets, or there is none.               *)
LeastOf(v, targets) ==
  \/ targets = {} /\ v = NoVariation
  \/ \E t \in targets : v = t[1] /\ \A u \in targets : t[1] <= u[1]

(* What was told last is what the lists have, and they have nothing else.  *)
Tells(told, contents) ==
  /\ \A k \in TargetKey : LeastOf(told[k], Named(contents, k))
  /\ \A t \in DOMAIN contents : \A key \in contents[t] : <<t[2], key>> \in TargetKey

(* The key of k leaves some lists for that of at.                          *)
Moved(contents, contents2, k, at, leaves) ==
  /\ leaves \subseteq Named(contents, k) \ {at}
  /\ at \in DOMAIN contents2 /\ at[2] = k[1] /\ k[2] \in contents2[at]
  /\ \A t \in DOMAIN contents2 : t # at => t \in DOMAIN contents
  /\ \A t \in DOMAIN contents : t \notin DOMAIN contents2 => t \in leaves /\ contents[t] = {k[2]}
  /\ \A t \in DOMAIN contents2 : \A key :
       IF t[2] = k[1] /\ key = k[2] THEN t # at => (key \in contents2[t] <=> key \in contents[t] /\ t \notin leaves)
       ELSE key \in contents2[t] <=> t \in DOMAIN contents /\ key \in contents[t]

(* Then what was told is what it is named for.                             *)
LEMMA MovedTells ==
  ASSUME NEW told \in [TargetKey -> Nat \cup {NoVariation}], NEW contents, NEW contents2, NEW k \in TargetKey, NEW at, NEW leaves, NEW N \in Nat,
         Tells(told, contents), Moved(contents, contents2, k, at, leaves),
         at[1] \in Nat, at[1] < N, \A t \in DOMAIN contents : t[1] \in Nat,
         \A t \in Named(contents, k) \ {at} : t \notin leaves => t[1] >= N
  PROVE  Tells([told EXCEPT ![k] = at[1]], contents2)
<1>1. \A l \in TargetKey : l = <<l[1], l[2]>>
  BY TestDataAssumption, PairIs
<1>2. ASSUME NEW l \in TargetKey, l # k PROVE Named(contents2, l) = Named(contents, l)
  <2>1. ~(l[1] = k[1] /\ l[2] = k[2])
    BY <1>1, <1>2
  <2>2. ASSUME NEW t \in Named(contents2, l) PROVE t \in Named(contents, l)
    BY <2>1, <2>2 DEF Moved, Named
  <2>3. ASSUME NEW t \in Named(contents, l) PROVE t \in Named(contents2, l)
    <3>1. t \in DOMAIN contents /\ t[2] = l[1] /\ l[2] \in contents[t]
      BY <2>3 DEF Named
    <3>2. t \in DOMAIN contents2
      <4>1. CASE t \notin DOMAIN contents2
        <5>1. t \in leaves /\ contents[t] = {k[2]}
          BY <3>1, <4>1 DEF Moved
        <5>2. t[2] = k[1] /\ l[2] = k[2]
          BY <3>1, <5>1 DEF Moved, Named
        <5> QED BY <2>1, <3>1, <5>2
      <4> QED BY <4>1
    <3> QED BY <2>1, <3>1, <3>2 DEF Moved, Named
  <2> QED BY <2>2, <2>3
<1>3. at \in Named(contents2, k) /\ \A u \in Named(contents2, k) : at[1] <= u[1]
  <2>1. at \in Named(contents2, k)
    BY DEF Moved, Named
  <2>2. ASSUME NEW u \in Named(contents2, k), u # at PROVE at[1] <= u[1]
    <3>1. u \in Named(contents, k) /\ u \notin leaves
      BY <2>2 DEF Moved, Named
    <3>2. u[1] \in Nat
      BY <3>1 DEF Named
    <3> QED BY <2>2, <3>1, <3>2
  <2> QED BY <2>1, <2>2
<1> DEFINE told2 == [told EXCEPT ![k] = at[1]]
<1>4. \A l \in TargetKey : told2[l] = IF l = k THEN at[1] ELSE told[l]
  OBVIOUS
<1> HIDE DEF told2
<1>5. \A l \in TargetKey : LeastOf(told2[l], Named(contents2, l))
  <2> TAKE l \in TargetKey
  <2>1. CASE l = k
    BY <1>3, <1>4, <2>1 DEF LeastOf
  <2>2. CASE l # k
    BY <1>2, <1>4, <2>2 DEF Tells
  <2> QED BY <2>1, <2>2
<1>6. \A t \in DOMAIN contents2 : \A key \in contents2[t] : <<t[2], key>> \in TargetKey
  <2> TAKE t \in DOMAIN contents2
  <2> TAKE key \in contents2[t]
  <2>1. CASE t[2] = k[1] /\ key = k[2]
    BY <1>1, <2>1
  <2>2. CASE ~(t[2] = k[1] /\ key = k[2])
    BY <2>2 DEF Moved, Tells
  <2> QED BY <2>1, <2>2
<1> QED BY <1>5, <1>6 DEF Tells, told2

(* What naming a key does to lists that others may have.                   *)
OnlyHere(targets, heap, heap2, k) ==
  \A n \in 1..Len(heap) : \A key :
    \/ key \in heap2[n] <=> key \in heap[n]
    \/ key = k[2] /\ \E t \in DOMAIN targets : targets[t] = n /\ t[2] = k[1]

(* Lists that there were, or new ones.                                     *)
FromLists(targets, heap, targets2) ==
  \A u \in DOMAIN targets2 : targets2[u] > Len(heap) \/ (u \in DOMAIN targets /\ targets2[u] = targets[u])

(* The key goes to one list and leaves others.                             *)
LEMMA NameForMoves ==
  ASSUME NEW heap \in Lists, NEW b \in BuildersOf(1..Len(heap)), OwnLists(b.targets), NEW k \in TargetKey, NEW v \in Choice(b)
  PROVE  LET new == NameFor(b, heap, k[1], k[2], v)
             at == <<v.index, k[1]>>
             contents == Contents(b.targets, heap)
         IN \E leaves :
              /\ new.heap \in Lists /\ Len(new.heap) >= Len(heap)
              /\ new.b \in BuildersOf(1..Len(new.heap)) /\ OwnLists(new.b.targets) /\ new.b.told = b.told
              /\ Moved(contents, Contents(new.b.targets, new.heap), k, at, leaves)
              /\ \A t \in Named(contents, k) \ {at} : t \notin leaves => t[1] >= Len(For(b, v).values)
              /\ OnlyHere(b.targets, heap, new.heap, k)
              /\ FromLists(b.targets, heap, new.b.targets)
<1> DEFINE f == For(b, v)
           L == Len(heap)
           N == Len(f.values)
           D == DOMAIN b.targets
           to == b.targets
           key == k[2]
           at == <<v.index, k[1]>>
           isNew == at \notin D
           contents == Contents(to, heap)
           leaves == {t \in D : t[2] = k[1] /\ t[1] \in 0..N - 1 /\ t # at /\ key \in heap[to[t]]}
           empty == {t \in leaves : heap[to[t]] = {key}}
           left == [n \in 1..L |-> IF n \in {to[t] : t \in leaves} THEN heap[n] \ {key} ELSE heap[n]]
           to2 == [t \in (D \ empty) \cup {at} |-> IF isNew /\ t = at THEN L + 1 ELSE to[t]]
           heap2 == IF isNew THEN Append(left, {key}) ELSE [left EXCEPT ![to[at]] = @ \cup {key}]
           new == NameFor(b, heap, k[1], k[2], v)
           L2 == Len(heap2)
<1>1. f \in BuildersOf(1..L) /\ f.targets = to /\ f.told = b.told /\ v.index < N /\ v.index \in Nat /\ N \in Nat
  <2>1. f \in BuildersOf(1..L) /\ f.targets = to /\ f.told = b.told /\ v.index < N /\ v.index \in Nat
    BY ForTyped
  <2> HIDE DEF f
  <2>2. f.values \in Seq(BOOLEAN) \cup Seq(Nat)
    BY <2>1 DEF BuildersOf
  <2> QED BY <2>1, <2>2
<1>2. L \in Nat /\ DOMAIN heap = 1..L /\ \A n \in 1..L : heap[n] \in SUBSET Seq(STRING)
  BY DEF Lists
<1>3. /\ to \in [D -> 1..L] /\ IsFiniteSet(D) /\ D \in SUBSET (Nat \X (STRING \ {""}))
  <2>1. to \in TargetsTo(1..L)
    BY DEF BuildersOf
  <2> QED BY <2>1, TargetsToIs
<1>4. k[1] \in STRING \ {""} /\ key \in Seq(STRING)
  BY TestDataAssumption
<1>5. at \in Nat \X (STRING \ {""}) /\ at[1] = v.index /\ at[2] = k[1]
  BY <1>1, <1>4
<1>6. new = [b |-> [f EXCEPT !.targets = to2], heap |-> heap2]
  <2>1. f.targets = b.targets /\ DOMAIN heap = 1..L
    BY <1>1, <1>2
  <2> HIDE DEF f
  <2> QED BY <2>1 DEF NameFor, f
<1> HIDE DEF f, new
<1>7. /\ leaves \subseteq D /\ at \notin leaves /\ empty \subseteq leaves
      /\ \A t \in D : t \in leaves <=> t[2] = k[1] /\ t[1] \in 0..N - 1 /\ t # at /\ key \in heap[to[t]]
      /\ \A t \in leaves : t \in empty <=> heap[to[t]] = {key}
  OBVIOUS
<1> HIDE DEF leaves, empty, at, L
<1>8. /\ left \in Lists /\ Len(left) = L
      /\ \A t \in D : left[to[t]] = IF t \in leaves THEN heap[to[t]] \ {key} ELSE heap[to[t]]
  <2>1. left \in Lists /\ Len(left) = L
    <3>1. \A n \in 1..L : left[n] \in SUBSET Seq(STRING)
      BY <1>2
    <3>2. left = [n \in 1..L |-> left[n]]
      OBVIOUS
    <3> HIDE DEF left
    <3> QED BY <1>2, <3>1, <3>2 DEF Lists
  <2>2. \A t \in D : to[t] \in {to[u] : u \in leaves} <=> t \in leaves
    BY <1>7 DEF OwnLists
  <2>3. \A t \in D : to[t] \in 1..L
    BY <1>3
  <2> QED BY <2>1, <2>2, <2>3
<1>9. \A n \in 1..L : left[n] = heap[n] \/ (left[n] = heap[n] \ {key} /\ \E t \in leaves : to[t] = n)
  OBVIOUS
<1> HIDE DEF left
<1>10. ASSUME isNew
       PROVE /\ heap2 \in Lists /\ L2 = L + 1 /\ heap2[L + 1] = {key} /\ \A n \in 1..L : heap2[n] = left[n]
  <2> DEFINE s == {key}
  <2>1. s \in SUBSET Seq(STRING) /\ heap2 = Append(left, s)
    BY <1>4, <1>10
  <2> HIDE DEF s, heap2
  <2>2. heap2 \in Lists /\ L2 = L + 1 /\ heap2[L + 1] = s /\ \A n \in 1..L : heap2[n] = left[n]
    BY <1>2, <1>8, <2>1 DEF Lists
  <2> QED BY <2>2 DEF s
<1>11. ASSUME ~isNew
       PROVE /\ heap2 \in Lists /\ L2 = L /\ heap2[to[at]] = left[to[at]] \cup {key}
             /\ \A n \in 1..L : n # to[at] => heap2[n] = left[n]
  <2> DEFINE s == left[to[at]] \cup {key}
  <2>1. to[at] \in 1..L
    BY <1>3, <1>11
  <2>2. s \in SUBSET Seq(STRING)
    <3>1. left[to[at]] \in SUBSET Seq(STRING)
      BY <1>8, <2>1, ElementOfSeq DEF Lists
    <3> QED BY <1>4, <3>1
  <2>3. heap2 = [left EXCEPT ![to[at]] = s]
    BY <1>11
  <2>4. DOMAIN left = 1..L
    BY <1>8 DEF Lists
  <2> HIDE DEF s, heap2
  <2>5. heap2 \in Lists /\ L2 = L /\ heap2[to[at]] = s /\ \A n \in 1..L : n # to[at] => heap2[n] = left[n]
    BY <1>2, <1>8, <2>1, <2>2, <2>3, <2>4 DEF Lists
  <2> QED BY <2>5 DEF s
<1> HIDE DEF heap2
<1>12. heap2 \in Lists /\ L2 \in Nat /\ L2 >= L
  BY <1>2, <1>10, <1>11
<1>13. DOMAIN to2 = (D \ empty) \cup {at} /\ (isNew => to2[at] = L + 1) /\ \A t \in DOMAIN to2 : ~isNew \/ t # at => t \in D /\ to2[t] = to[t]
  OBVIOUS
<1> HIDE DEF to2, to
<1>14. to2 \in TargetsTo(1..L2)
  <2>1. IsFiniteSet(DOMAIN to2)
    <3>1. IsFiniteSet(D \ empty)
      BY <1>3, FS_Subset
    <3> DEFINE E == D \ empty
    <3> HIDE DEF E
    <3>2. IsFiniteSet(E \cup {at})
      BY <3>1, FS_AddElement DEF E
    <3> QED BY <1>13, <3>2 DEF E
  <2>2. DOMAIN to2 \in SUBSET (Nat \X (STRING \ {""}))
    BY <1>3, <1>5, <1>13
  <2>3. \A t \in DOMAIN to2 : to2[t] \in 1..L2
    <3> TAKE t \in DOMAIN to2
    <3>1. CASE isNew /\ t = at
      BY <1>2, <1>10, <1>13, <3>1
    <3>2. CASE ~isNew \/ t # at
      <4>1. to2[t] \in 1..L
        BY <1>3, <1>13, <3>2
      <4> QED BY <1>2, <1>12, <4>1
    <3> QED BY <3>1, <3>2
  <2>4. to2 = [t \in DOMAIN to2 |-> to2[t]]
    BY DEF to2
  <2>5. to2 \in [DOMAIN to2 -> 1..L2]
    BY <2>3, <2>4
  <2> QED BY <2>1, <2>2, <2>5, TargetsToIs
<1>15. OwnLists(to2)
  <2>1. ASSUME NEW t \in DOMAIN to2, NEW u \in DOMAIN to2, to2[t] = to2[u] PROVE t = u
    <3>1. CASE isNew /\ t = at
      <4>1. ASSUME u # at PROVE FALSE
        <5>1. to2[u] \in 1..L
          BY <1>3, <1>13, <4>1
        <5> QED BY <1>2, <1>13, <2>1, <3>1, <5>1
      <4> QED BY <3>1, <4>1
    <3>2. CASE isNew /\ u = at
      <4>1. ASSUME t # at PROVE FALSE
        <5>1. to2[t] \in 1..L
          BY <1>3, <1>13, <4>1
        <5> QED BY <1>2, <1>13, <2>1, <3>2, <5>1
      <4> QED BY <3>2, <4>1
    <3>3. CASE ~isNew \/ (t # at /\ u # at)
      BY <1>13, <2>1, <3>3 DEF OwnLists, to
    <3> QED BY <3>1, <3>2, <3>3
  <2> QED BY <2>1 DEF OwnLists
<1> DEFINE c2 == Contents(to2, heap2)
<1>16. DOMAIN contents = D /\ (\A t \in D : contents[t] = heap[to[t]]) /\ DOMAIN c2 = DOMAIN to2 /\ \A t \in DOMAIN to2 : c2[t] = heap2[to2[t]]
  BY DEF Contents, to
<1>17. at \in DOMAIN to2 /\ key \in c2[at]
  <2>1. at \in DOMAIN to2
    BY <1>13
  <2>2. CASE isNew
    BY <1>10, <1>13, <1>16, <2>1, <2>2
  <2>3. CASE ~isNew
    BY <1>11, <1>13, <1>16, <2>1, <2>3
  <2> QED BY <2>1, <2>2, <2>3
<1>18. \A t \in DOMAIN to2 : t # at => t \in D /\ c2[t] = IF t \in leaves THEN heap[to[t]] \ {key} ELSE heap[to[t]]
  <2> TAKE t \in DOMAIN to2
  <2> HAVE t # at
  <2>1. t \in D /\ to2[t] = to[t] /\ to[t] \in 1..L
    BY <1>3, <1>13
  <2>2. heap2[to[t]] = left[to[t]]
    <3>1. CASE isNew
      BY <1>10, <2>1, <3>1
    <3>2. CASE ~isNew
      <4>1. to[t] # to[at]
        BY <2>1, <3>2 DEF OwnLists, to
      <4> QED BY <1>11, <2>1, <3>2, <4>1
    <3> QED BY <3>1, <3>2
  <2> QED BY <1>8, <1>16, <2>1, <2>2
<1>19. \A x : x # key => (x \in c2[at] <=> at \in D /\ x \in contents[at])
  <2>1. at \in DOMAIN to2
    BY <1>13
  <2>2. CASE isNew
    BY <1>10, <1>13, <1>16, <2>1, <2>2
  <2>3. CASE ~isNew
    <3>1. c2[at] = heap2[to[at]] /\ at \in D /\ contents[at] = heap[to[at]]
      BY <1>13, <1>16, <2>1, <2>3
    <3>2. left[to[at]] = heap[to[at]]
      BY <1>7, <1>8, <3>1
    <3> HIDE DEF c2, contents, isNew, key
    <3> QED BY <1>11, <2>3, <3>1, <3>2
  <2> QED BY <2>2, <2>3
<1>20. \A t \in D : t \notin DOMAIN to2 => t \in leaves /\ heap[to[t]] = {key}
  BY <1>7, <1>13
<1> HIDE DEF c2, contents, isNew
<1>21. Moved(contents, c2, k, at, leaves)
  <2>1. leaves \subseteq Named(contents, k) \ {at}
    BY <1>7, <1>16 DEF Named, to
  <2>2. ASSUME NEW t \in DOMAIN c2, NEW x
        PROVE  IF t[2] = k[1] /\ x = k[2] THEN t # at => (x \in c2[t] <=> x \in contents[t] /\ t \notin leaves)
               ELSE x \in c2[t] <=> t \in DOMAIN contents /\ x \in contents[t]
    <3>1. CASE t = at
      BY <1>5, <1>16, <1>19, <3>1
    <3>2. CASE t # at
      <4>1. t \in D /\ contents[t] = heap[to[t]] /\ c2[t] = IF t \in leaves THEN contents[t] \ {key} ELSE contents[t]
        BY <1>16, <1>18, <3>2
      <4>2. t \in leaves => t[2] = k[1]
        BY <1>7
      <4> QED BY <1>16, <3>2, <4>1, <4>2
    <3> QED BY <3>1, <3>2
  <2>3. \A t \in DOMAIN c2 : t # at => t \in DOMAIN contents
    BY <1>16, <1>18
  <2>4. \A t \in DOMAIN contents : t \notin DOMAIN c2 => t \in leaves /\ contents[t] = {k[2]}
    BY <1>16, <1>20
  <2> QED BY <1>5, <1>16, <1>17, <2>1, <2>2, <2>3, <2>4 DEF Moved
<1>22. \A t \in Named(contents, k) \ {at} : t \notin leaves => t[1] >= N
  <2> TAKE t \in Named(contents, k) \ {at}
  <2>1. t \in D /\ t[2] = k[1] /\ key \in heap[to[t]]
    BY <1>16 DEF Named
  <2>2. t[1] \in Nat
    BY <1>3, <2>1
  <2> QED BY <1>1, <1>7, <2>1, <2>2 DEF to
<1>23. OnlyHere(to, heap, heap2, k)
  <2>1. ASSUME NEW n \in 1..L, NEW x
        PROVE  \/ x \in heap2[n] <=> x \in heap[n]
               \/ x = k[2] /\ \E t \in D : to[t] = n /\ t[2] = k[1]
    <3>1. left[n] = heap[n] \/ (left[n] = heap[n] \ {key} /\ \E t \in D : to[t] = n /\ t[2] = k[1])
      BY <1>7, <1>9 DEF to
    <3>2. heap2[n] = left[n] \/ (heap2[n] = left[n] \cup {key} /\ \E t \in D : to[t] = n /\ t[2] = k[1])
      <4>1. CASE isNew
        BY <1>10, <4>1
      <4>2. CASE ~isNew
        BY <1>5, <1>11, <4>2 DEF isNew
      <4> QED BY <4>1, <4>2
    <3> QED BY <3>1, <3>2
  <2> QED BY <2>1 DEF OnlyHere, L, to
<1>24. FromLists(to, heap, to2)
  <2>1. ASSUME NEW u \in DOMAIN to2 PROVE to2[u] > L \/ (u \in D /\ to2[u] = to[u])
    BY <1>2, <1>13
  <2> QED BY <2>1 DEF FromLists, L, to
<1>25. new.heap = heap2 /\ new.b = [f EXCEPT !.targets = to2]
  BY <1>6
<1>26. /\ new.b \in BuildersOf(1..L2) /\ new.b.targets = to2 /\ new.b.told = b.told
  BY <1>1, <1>14, <1>25 DEF BuildersOf
<1> HIDE DEF f, N, key
<1> DEFINE Goal(x) ==
              /\ new.heap \in Lists /\ Len(new.heap) >= Len(heap)
              /\ new.b \in BuildersOf(1..Len(new.heap)) /\ OwnLists(new.b.targets) /\ new.b.told = b.told
              /\ Moved(contents, Contents(new.b.targets, new.heap), k, at, x)
              /\ \A t \in Named(contents, k) \ {at} : t \notin x => t[1] >= Len(For(b, v).values)
              /\ OnlyHere(b.targets, heap, new.heap, k)
              /\ FromLists(b.targets, heap, new.b.targets)
<1>27. Goal(leaves)
  BY <1>12, <1>15, <1>21, <1>22, <1>23, <1>24, <1>25, <1>26 DEF L, to, c2, N, f
<1>28. \E x : Goal(x)
  <2> HIDE DEF Goal
  <2> QED BY <1>27
<1> QED BY <1>28 DEF new, contents, at, to

(* A clone has what the lists have.                                        *)
LEMMA CloneTyped ==
  ASSUME NEW heap \in Lists, NEW b \in BuildersOf(1..Len(heap))
  PROVE  LET c == Clone(b, heap) IN
         c \in BuildersOf(SUBSET Seq(STRING)) /\ c.targets = Contents(b.targets, heap) /\ c.told = b.told
<1> DEFINE to == Contents(b.targets, heap)
<1>1. /\ b.targets \in [DOMAIN b.targets -> 1..Len(heap)] /\ IsFiniteSet(DOMAIN b.targets)
      /\ DOMAIN b.targets \in SUBSET (Nat \X (STRING \ {""}))
  <2>1. b.targets \in TargetsTo(1..Len(heap))
    BY DEF BuildersOf
  <2> QED BY <2>1, TargetsToIs
<1>2. \A n \in 1..Len(heap) : heap[n] \in SUBSET Seq(STRING)
  BY ElementOfSeq DEF Lists
<1>3. DOMAIN to = DOMAIN b.targets /\ \A t \in DOMAIN to : to[t] \in SUBSET Seq(STRING)
  <2>1. DOMAIN to = DOMAIN b.targets /\ \A t \in DOMAIN to : to[t] = heap[b.targets[t]] /\ b.targets[t] \in 1..Len(heap)
    BY <1>1 DEF Contents
  <2> HIDE DEF to
  <2> QED BY <1>2, <2>1
<1>4. to = [t \in DOMAIN to |-> to[t]]
  BY DEF Contents
<1>5. Clone(b, heap) = [b EXCEPT !.targets = to]
  BY DEF Clone, Contents
<1> HIDE DEF to
<1>6. to \in [DOMAIN to -> SUBSET Seq(STRING)]
  BY <1>3, <1>4
<1>7. to \in TargetsTo(SUBSET Seq(STRING))
  BY <1>1, <1>3, <1>6, TargetsToIs
<1>8. LET c == Clone(b, heap) IN c \in BuildersOf(SUBSET Seq(STRING)) /\ c.targets = to /\ c.told = b.told
  BY <1>5, <1>7 DEF BuildersOf
<1> QED BY <1>8 DEF to

(* A builder made from a clone has lists of its own, with the same keys.   *)
LEMMA WithListsTyped ==
  ASSUME NEW heap \in Lists, NEW clone \in BuildersOf(SUBSET Seq(STRING))
  PROVE  LET new == WithLists(clone, heap) IN
         /\ new.heap \in Lists /\ Len(new.heap) >= Len(heap)
         /\ new.b \in BuildersOf(1..Len(new.heap)) /\ OwnLists(new.b.targets) /\ new.b.told = clone.told
         /\ Contents(new.b.targets, new.heap) = clone.targets
         /\ \A n \in 1..Len(heap) : new.heap[n] = heap[n]
         /\ \A t \in DOMAIN new.b.targets : new.b.targets[t] > Len(heap)
<1> DEFINE D == DOMAIN clone.targets
           of == clone.targets
           ts == SetToSeq(D)
           L == Len(heap)
           N == Len(ts)
           at(t) == SelectInSeq(ts, LAMBDA u : u = t)
           own == Each(ts, LAMBDA t : of[t])
           heap2 == heap \o own
           to == [t \in D |-> L + at(t)]
           new == WithLists(clone, heap)
           L2 == Len(heap2)
<1>1. of \in [D -> SUBSET Seq(STRING)] /\ IsFiniteSet(D) /\ D \in SUBSET (Nat \X (STRING \ {""}))
  <2>1. of \in TargetsTo(SUBSET Seq(STRING))
    BY DEF BuildersOf
  <2> QED BY <2>1, TargetsToIs
<1>2. ts \in Seq(D) /\ ToSet(ts) = D
  BY <1>1, SetToSeqLists
<1>3. N \in Nat /\ DOMAIN ts = 1..N /\ (\A n \in 1..N : ts[n] \in D) /\ L \in Nat
  <2>1. N \in Nat /\ DOMAIN ts = 1..N /\ L \in Nat
    <3> HIDE DEF ts
    <3> QED BY <1>2 DEF Lists
  <2>2. \A n \in 1..N : ts[n] \in D
    <3> HIDE DEF ts
    <3> QED BY <1>2, ElementOfSeq
  <2> QED BY <2>1, <2>2
<1>4. new = [b |-> [clone EXCEPT !.targets = to], heap |-> heap2]
  BY DEF WithLists
<1> HIDE DEF ts
<1>5. \A t \in D : at(t) \in 1..N /\ ts[at(t)] = t
  <2> TAKE t \in D
  <2> DEFINE I == {i \in 1..Len(ts) : ts[i] = t}
  <2>1. at(t) = IF I # {} THEN Min(I) ELSE 0
    BY DEF SelectInSeq
  <2>2. \E n \in 1..N : ts[n] = t
    BY <1>2, <1>3 DEF ToSet
  <2>3. I \in SUBSET Nat /\ I # {}
    BY <1>3, <2>2
  <2>4. Min(I) \in I
    <3> HIDE DEF I
    <3> QED BY <2>3, LeastNumber
  <2>5. at(t) \in I
    BY <2>1, <2>3, <2>4
  <2> QED BY <2>5
<1> HIDE DEF at
<1>6. own = [n \in 1..N |-> of[ts[n]]]
  BY <1>3 DEF Each
<1>7. own \in Lists /\ Len(own) = N /\ \A n \in 1..N : own[n] = of[ts[n]]
  <2>1. \A n \in 1..N : of[ts[n]] \in SUBSET Seq(STRING)
    BY <1>1, <1>3
  <2> HIDE DEF own
  <2> QED BY <1>3, <1>6, <2>1 DEF Lists
<1> HIDE DEF own
<1>8. /\ heap2 \in Lists /\ L2 = L + N /\ (\A n \in 1..L : heap2[n] = heap[n])
      /\ \A n \in 1..N : heap2[L + n] = own[n]
  BY <1>3, <1>7 DEF Lists
<1> HIDE DEF heap2, L
<1>9. /\ DOMAIN to = D
      /\ \A t \in D : to[t] = L + at(t) /\ to[t] \in 1..L2 /\ to[t] > L /\ heap2[to[t]] = of[t]
  <2>1. DOMAIN to = D /\ \A t \in D : to[t] = L + at(t)
    OBVIOUS
  <2>2. ASSUME NEW t \in D PROVE to[t] \in 1..L2 /\ to[t] > L /\ heap2[to[t]] = of[t]
    <3>1. at(t) \in 1..N /\ ts[at(t)] = t /\ to[t] = L + at(t)
      BY <1>5, <2>1
    <3>2. heap2[L + at(t)] = own[at(t)]
      BY <1>8, <3>1
    <3>3. own[at(t)] = of[t]
      BY <1>7, <3>1
    <3> HIDE DEF to, L2
    <3> QED BY <1>3, <1>8, <3>1, <3>2, <3>3
  <2> QED BY <2>1, <2>2
<1>10. to = [t \in DOMAIN to |-> to[t]]
  OBVIOUS
<1> HIDE DEF to, L2
<1>11. OwnLists(to)
  <2>1. ASSUME NEW t \in D, NEW u \in D, to[t] = to[u] PROVE t = u
    <3>1. at(t) = at(u)
      <4>1. at(t) \in Nat /\ at(u) \in Nat /\ L + at(t) = L + at(u)
        BY <1>3, <1>5, <1>9, <2>1
      <4> QED BY <1>3, <4>1
    <3> QED BY <1>5, <3>1
  <2> QED BY <1>9, <2>1 DEF OwnLists
<1>12. to \in TargetsTo(1..L2)
  <2>1. to \in [DOMAIN to -> 1..L2]
    BY <1>9, <1>10
  <2> QED BY <1>1, <1>9, <2>1, TargetsToIs
<1>13. Contents(to, heap2) = of
  <2>1. of = [t \in D |-> of[t]]
    BY <1>1
  <2>2. Contents(to, heap2) = [t \in D |-> of[t]]
    BY <1>9 DEF Contents
  <2> QED BY <2>1, <2>2
<1>14. new.heap = heap2 /\ new.b = [clone EXCEPT !.targets = to]
  BY <1>4
<1>15. new.b \in BuildersOf(1..L2) /\ new.b.targets = to /\ new.b.told = clone.told
  BY <1>12, <1>14 DEF BuildersOf
<1> HIDE DEF new
<1>16. /\ new.heap \in Lists /\ Len(new.heap) >= Len(heap)
       /\ new.b \in BuildersOf(1..Len(new.heap)) /\ OwnLists(new.b.targets) /\ new.b.told = clone.told
       /\ Contents(new.b.targets, new.heap) = clone.targets
       /\ \A n \in 1..Len(heap) : new.heap[n] = heap[n]
       /\ \A t \in DOMAIN new.b.targets : new.b.targets[t] > Len(heap)
  BY <1>3, <1>8, <1>9, <1>11, <1>13, <1>14, <1>15 DEF L, L2
<1> QED BY <1>16 DEF new

-----------------------------------------------------------------------------
(* What is always so of the flags that an application builds.              *)

BuilderInv ==
  /\ lists \in Lists
  /\ builder # NoBuilder =>
       /\ builder \in BuildersOf(1..Len(lists)) /\ OwnLists(builder.targets)
       /\ Tells(builder.told, Contents(builder.targets, lists))
  /\ flagBuilder # NoBuilder =>
       flagBuilder \in BuildersOf(SUBSET Seq(STRING)) /\ Tells(flagBuilder.told, flagBuilder.targets)

IsEntry(e) ==
  e = NoItem \/ (e = [version |-> e.version, built |-> e.built, item |-> e.item] /\ e.version \in Nat)

CurrentInv ==
  /\ current = [i \in TestItem |-> current[i]] /\ \A i \in TestItem : IsEntry(current[i])
  /\ current[TestSegment] = NoItem \/ ~current[TestSegment].built

ClientsInv ==
  /\ dataSources \in Seq(Client) /\ clientStore = [c \in Client |-> clientStore[c]]
  /\ \A c \in ToSet(dataSources) : clientStore[c] = current

(* The flag is one that was built, whose lists have changed only for       *)
(* those who were named since, and are of the kind that they were of.      *)
BuiltFrom(b, heap) ==
  /\ b \in BuildersOf(1..Len(lists)) /\ current[TestFlag].item = Build(b)
  /\ \A t \in DOMAIN b.targets :
       /\ builder # NoBuilder => \A u \in DOMAIN builder.targets : builder.targets[u] = b.targets[t] => u[2] = t[2]
       /\ \A key : <<t[2], key>> \notin namedSince => (key \in heap[b.targets[t]] <=> key \in lists[b.targets[t]])

UpdatedInv ==
  \E heap :
    /\ updated = ReadData(current, heap)
    /\ current[TestFlag] # NoItem /\ current[TestFlag].built => \E b : BuiltFrom(b, heap)

TestsInv == BuilderInv /\ CurrentInv /\ ClientsInv /\ UpdatedInv

(* At first there are no flags.                                            *)
LEMMA TestsBegin == TestDataInit => TestsInv
<1> SUFFICES ASSUME TestDataInit PROVE TestsInv
  OBVIOUS
<1>1. BuilderInv
  BY DEF TestDataInit, BuilderInv, Lists
<1>2. current = [i \in TestItem |-> NoItem] /\ TestFlag \in TestItem /\ TestSegment \in TestItem
  BY DEF TestDataInit, TestItem
<1>3. CurrentInv
  BY <1>2 DEF CurrentInv, IsEntry
<1>4. ClientsInv
  <2>1. dataSources = <<>> /\ clientStore = [c \in Client |-> NoClient]
    BY DEF TestDataInit
  <2>2. ToSet(dataSources) = {}
    BY <2>1 DEF ToSet
  <2> QED BY <2>1, <2>2 DEF ClientsInv
<1>5. UpdatedInv
  <2>1. updated = current
    BY DEF TestDataInit
  <2>2. ReadData(current, <<>>) = current
    BY <1>2 DEF ReadData
  <2> QED BY <1>2, <2>1, <2>2 DEF UpdatedInv
<1> QED BY <1>1, <1>3, <1>4, <1>5 DEF TestsInv

(* More lists are no loss.                                                 *)
LEMMA BuildersMore ==
  ASSUME NEW L \in Nat, NEW L2 \in Nat, L <= L2, NEW b \in BuildersOf(1..L)
  PROVE  b \in BuildersOf(1..L2)
<1> DEFINE to == b.targets
<1>1. to \in [DOMAIN to -> 1..L] /\ IsFiniteSet(DOMAIN to) /\ DOMAIN to \in SUBSET (Nat \X (STRING \ {""}))
  <2>1. to \in TargetsTo(1..L)
    BY DEF BuildersOf
  <2> QED BY <2>1, TargetsToIs
<1>2. to \in [DOMAIN to -> 1..L2]
  <2> HIDE DEF to
  <2>1. \A n \in 1..L : n \in 1..L2
    OBVIOUS
  <2> QED BY <1>1, <2>1
<1>3. to \in TargetsTo(1..L2)
  BY <1>1, <1>2, TargetsToIs
<1> QED BY <1>3 DEF BuildersOf

ListsStay ==
  \A n \in 1..Len(lists) : \A key :
    \/ key \in lists'[n] <=> key \in lists[n]
    \/ builder # NoBuilder /\ \E u \in DOMAIN builder.targets : builder.targets[u] = n /\ <<u[2], key>> \in namedSince'

BuilderStays ==
  builder' # NoBuilder =>
    \A u \in DOMAIN builder'.targets :
      \/ builder'.targets[u] > Len(lists)
      \/ builder # NoBuilder /\ u \in DOMAIN builder.targets /\ builder'.targets[u] = builder.targets[u]

(* A builder that is used does no harm to the flag that there is.          *)
LEMMA UpdatedStays ==
  ASSUME BuilderInv, UpdatedInv, UNCHANGED <<current, updated>>, namedSince \subseteq namedSince',
         lists' \in Lists, Len(lists') >= Len(lists), ListsStay, BuilderStays
  PROVE  UpdatedInv'
<1>1. Len(lists) \in Nat /\ Len(lists') \in Nat /\ Len(lists) <= Len(lists')
  BY DEF BuilderInv, Lists
<1>2. PICK heap : /\ updated = ReadData(current, heap)
                  /\ current[TestFlag] # NoItem /\ current[TestFlag].built => \E b : BuiltFrom(b, heap)
  BY DEF UpdatedInv
<1>3. ASSUME NEW b, BuiltFrom(b, heap) PROVE BuiltFrom(b, heap)'
  <2>1. b \in BuildersOf(1..Len(lists)) /\ current[TestFlag].item = Build(b)
    BY <1>3 DEF BuiltFrom
  <2>2. b \in BuildersOf(1..Len(lists'))
    BY <1>1, <2>1, BuildersMore
  <2>3. \A t \in DOMAIN b.targets : b.targets[t] \in 1..Len(lists)
    <3>1. b.targets \in TargetsTo(1..Len(lists))
      BY <2>1 DEF BuildersOf
    <3> QED BY <3>1, TargetsToIs
  <2>4. ASSUME NEW t \in DOMAIN b.targets, builder' # NoBuilder, NEW u \in DOMAIN builder'.targets, builder'.targets[u] = b.targets[t]
        PROVE  u[2] = t[2]
    <3>1. b.targets[t] \in 1..Len(lists)
      BY <2>3
    <3>2. ~(builder'.targets[u] > Len(lists))
      BY <1>1, <2>4, <3>1
    <3>3. builder # NoBuilder /\ u \in DOMAIN builder.targets /\ builder'.targets[u] = builder.targets[u]
      BY <2>4, <3>2 DEF BuilderStays
    <3> QED BY <1>3, <2>4, <3>3 DEF BuiltFrom
  <2>5. ASSUME NEW t \in DOMAIN b.targets, NEW key, <<t[2], key>> \notin namedSince'
        PROVE  key \in heap[b.targets[t]] <=> key \in lists'[b.targets[t]]
    <3>1. b.targets[t] \in 1..Len(lists)
      BY <2>3
    <3>2. key \in heap[b.targets[t]] <=> key \in lists[b.targets[t]]
      BY <1>3, <2>5 DEF BuiltFrom
    <3>3. key \in lists'[b.targets[t]] <=> key \in lists[b.targets[t]]
      <4>1. ASSUME builder # NoBuilder, NEW u \in DOMAIN builder.targets, builder.targets[u] = b.targets[t],
                   <<u[2], key>> \in namedSince'
            PROVE  FALSE
        <5>1. u[2] = t[2]
          BY <1>3, <4>1 DEF BuiltFrom
        <5> QED BY <2>5, <4>1, <5>1
      <4> QED BY <3>1, <4>1 DEF ListsStay
    <3> QED BY <3>2, <3>3
  <2> QED BY <2>1, <2>2, <2>4, <2>5 DEF BuiltFrom
<1>4. updated' = ReadData(current', heap)
  BY <1>2
<1>5. current'[TestFlag] # NoItem /\ current'[TestFlag].built => \E b : BuiltFrom(b, heap)'
  BY <1>2, <1>3
<1> QED BY <1>4, <1>5 DEF UpdatedInv

(* No targets have been told of none.                                      *)
LEMMA NoTargetsTell ==
  ASSUME NEW heap
  PROVE  OwnLists(<<>>) /\ Tells(NoTargets, Contents(<<>>, heap)) /\ DOMAIN <<>> = {}
<1> DEFINE e == <<>>
           c == Contents(e, heap)
<1>1. DOMAIN e = {}
  OBVIOUS
<1> HIDE DEF e
<1>2. DOMAIN c = {}
  BY <1>1 DEF Contents
<1> HIDE DEF c
<1>3. \A k : Named(c, k) = {}
  BY <1>2 DEF Named
<1>4. \A k \in TargetKey : NoTargets[k] = NoVariation
  BY DEF NoTargets
<1>5. Tells(NoTargets, c)
  BY <1>2, <1>3, <1>4 DEF Tells, LeastOf
<1> QED BY <1>1, <1>5 DEF OwnLists, c, e

(* Lists and builder as they were, or a builder without targets.           *)
LEMMA ChangesKeep ==
  ASSUME TestsInv, NEW b, builder # NoBuilder => b \in BuildersOf(1..Len(lists)) /\ TargetsKept(builder, b), Changes(b)
  PROVE  TestsInv'
<1>1. builder # NoBuilder /\ builder' = b
  BY DEF Changes, CallsBuilder
<1>2. UNCHANGED <<lists, flagBuilder, current, dataSources, clientStore, namedSince, updated>>
  BY DEF Changes
<1>3. b \in BuildersOf(1..Len(lists)) /\ TargetsKept(builder, b)
  BY <1>1
<1>4. BuilderInv'
  <2>1. OwnLists(b.targets) /\ Tells(b.told, Contents(b.targets, lists))
    <3>1. CASE b.targets = builder.targets /\ b.told = builder.told
      BY <1>1, <3>1 DEF TestsInv, BuilderInv
    <3>2. CASE b.targets = <<>> /\ b.told = NoTargets
      BY <3>2, NoTargetsTell
    <3> QED BY <1>3, <3>1, <3>2 DEF TargetsKept
  <2> QED BY <1>1, <1>2, <1>3, <2>1 DEF TestsInv, BuilderInv
<1>5. CurrentInv' /\ ClientsInv'
  BY <1>2 DEF TestsInv, CurrentInv, ClientsInv
<1>6. UpdatedInv'
  <2>1. ListsStay
    BY <1>2 DEF ListsStay
  <2>2. BuilderStays
    <3>1. CASE b.targets = builder.targets
      BY <1>1, <3>1 DEF BuilderStays
    <3>2. CASE b.targets = <<>>
      <4>1. DOMAIN b.targets = {}
        BY <3>2, NoTargetsTell
      <4> QED BY <1>1, <4>1 DEF BuilderStays
    <3> QED BY <1>3, <3>1, <3>2 DEF TargetsKept
  <2>3. lists' \in Lists /\ Len(lists') >= Len(lists)
    BY <1>2 DEF TestsInv, BuilderInv, Lists
  <2> QED BY <1>2, <2>1, <2>2, <2>3, UpdatedStays DEF TestsInv
<1> QED BY <1>4, <1>5, <1>6 DEF TestsInv

(* What the builder's own operations do.                                   *)
LEMMA ChangeFlagKeeps ==
  ASSUME TestsInv, ChangeFlag \/ AddRule
  PROVE  TestsInv'
<1> DEFINE V == 1..Len(lists)
<1>1. builder # NoBuilder => builder \in BuildersOf(V)
  BY DEF TestsInv, BuilderInv
<1>2. \A b : Changes(b) => builder # NoBuilder
  BY DEF Changes, CallsBuilder
<1> HIDE DEF V
<1>3. CASE Changes(BooleanFlag(builder))
  <2>1. BooleanFlag(builder) \in BuildersOf(V) /\ TargetsKept(builder, BooleanFlag(builder))
    BY <1>1, <1>2, <1>3, BooleanFlagTyped DEF TargetsKept
  <2> QED BY <1>3, <2>1, ChangesKeep DEF V
<1>4. CASE Changes(SetVariations(builder, <<1, 2, 3>>))
  <2> DEFINE b == SetVariations(builder, <<1, 2, 3>>)
  <2>1. b \in BuildersOf(V) /\ TargetsKept(builder, b)
    BY <1>1, <1>2, <1>4, ValuesTyped, SetVariationsTyped
  <2> HIDE DEF b
  <2>2. Changes(b)
    BY <1>4 DEF b
  <2> QED BY <2>1, <2>2, ChangesKeep DEF V
<1>5. CASE \E on \in BOOLEAN : Changes(TargetingOn(builder, on))
  <2>1. PICK on \in BOOLEAN : Changes(TargetingOn(builder, on))
    BY <1>5
  <2>2. TargetingOn(builder, on) \in BuildersOf(V) /\ TargetsKept(builder, TargetingOn(builder, on))
    BY <1>1, <1>2, <2>1, ClearedTyped
  <2> QED BY <2>1, <2>2, ChangesKeep DEF V
<1>6. CASE \E v \in Choice(builder) : Changes(FallthroughVariation(builder, v)) \/ Changes(OffVariation(builder, v))
  <2>1. PICK v \in Choice(builder) : Changes(FallthroughVariation(builder, v)) \/ Changes(OffVariation(builder, v))
    BY <1>6
  <2>2. /\ FallthroughVariation(builder, v) \in BuildersOf(V) /\ TargetsKept(builder, FallthroughVariation(builder, v))
        /\ OffVariation(builder, v) \in BuildersOf(V) /\ TargetsKept(builder, OffVariation(builder, v))
    BY <1>1, <1>2, <2>1, VariationsTyped
  <2> QED BY <2>1, <2>2, ChangesKeep DEF V
<1>7. CASE \E v \in Choice(builder) : Changes(VariationForAll(builder, v))
  <2>1. PICK v \in Choice(builder) : Changes(VariationForAll(builder, v))
    BY <1>7
  <2>2. VariationForAll(builder, v) \in BuildersOf(V) /\ TargetsKept(builder, VariationForAll(builder, v))
    BY <1>1, <1>2, <2>1, ForAllTyped
  <2> QED BY <2>1, <2>2, ChangesKeep DEF V
<1>8. CASE Changes(ValueForAll(builder, 1))
  <2>1. ValueForAll(builder, 1) \in BuildersOf(V) /\ TargetsKept(builder, ValueForAll(builder, 1))
    BY <1>1, <1>2, <1>8, ForAllTyped
  <2> QED BY <1>8, <2>1, ChangesKeep DEF V
<1>9. CASE Changes(ClearRules(builder))
  <2>1. ClearRules(builder) \in BuildersOf(V) /\ TargetsKept(builder, ClearRules(builder))
    BY <1>1, <1>2, <1>9, ClearedTyped
  <2> QED BY <1>9, <2>1, ChangesKeep DEF V
<1>10. CASE Changes(ClearAllTargets(builder))
  <2>1. ClearAllTargets(builder) \in BuildersOf(V) /\ TargetsKept(builder, ClearAllTargets(builder))
    BY <1>1, <1>2, <1>10, ClearedTyped DEF TargetsKept
  <2> QED BY <1>10, <2>1, ChangesKeep DEF V
<1>11. CASE AddRule
  <2>1. PICK conditions \in Conditions, v \in Choice(builder) : Changes(ThenReturn(builder, Each(conditions, MatchOrNot), v))
    BY <1>11 DEF AddRule
  <2> DEFINE b == ThenReturn(builder, Each(conditions, MatchOrNot), v)
  <2>2. b \in BuildersOf(V) /\ TargetsKept(builder, b)
    BY <1>1, <1>2, <2>1, ThenReturnTyped
  <2> HIDE DEF b
  <2>3. Changes(b)
    BY <2>1 DEF b
  <2> QED BY <2>2, <2>3, ChangesKeep DEF V
<1> QED BY <1>3, <1>4, <1>5, <1>6, <1>7, <1>8, <1>9, <1>10, <1>11 DEF ChangeFlag

(* A builder for the flag.                                                 *)
LEMMA GetFlagKeeps ==
  ASSUME TestsInv, GetFlag
  PROVE  TestsInv'
<1> DEFINE new == IF flagBuilder = NoBuilder THEN [b |-> NewBuilder, heap |-> lists] ELSE WithLists(flagBuilder, lists)
<1>1. builder' = new.b /\ lists' = new.heap
  BY DEF GetFlag
<1>2. UNCHANGED <<flagBuilder, current, dataSources, clientStore, namedSince, updated>>
  BY DEF GetFlag
<1>3. lists \in Lists /\ Len(lists) \in Nat
  BY DEF TestsInv, BuilderInv, Lists
<1>4. /\ lists' \in Lists /\ Len(lists') >= Len(lists)
      /\ builder' \in BuildersOf(1..Len(lists')) /\ OwnLists(builder'.targets) /\ Tells(builder'.told, Contents(builder'.targets, lists'))
      /\ \A n \in 1..Len(lists) : lists'[n] = lists[n]
      /\ \A t \in DOMAIN builder'.targets : builder'.targets[t] > Len(lists)
  <2>1. CASE flagBuilder = NoBuilder
    <3>1. builder' = NewBuilder /\ lists' = lists
      BY <1>1, <2>1
    <3> DEFINE b == NewBuilder
    <3>2. b \in BuildersOf(1..Len(lists)) /\ b.targets = <<>> /\ b.told = NoTargets
      BY NewBuilderTyped
    <3> HIDE DEF b
    <3>3. OwnLists(b.targets) /\ Tells(b.told, Contents(b.targets, lists)) /\ DOMAIN b.targets = {}
      BY <3>2, NoTargetsTell
    <3> QED BY <1>3, <3>1, <3>2, <3>3 DEF b
  <2>2. CASE flagBuilder # NoBuilder
    <3>1. flagBuilder \in BuildersOf(SUBSET Seq(STRING)) /\ Tells(flagBuilder.told, flagBuilder.targets)
      BY <2>2 DEF TestsInv, BuilderInv
    <3> DEFINE w == WithLists(flagBuilder, lists)
    <3>2. builder' = w.b /\ lists' = w.heap
      BY <1>1, <2>2
    <3>3. /\ w.heap \in Lists /\ Len(w.heap) >= Len(lists)
          /\ w.b \in BuildersOf(1..Len(w.heap)) /\ OwnLists(w.b.targets) /\ w.b.told = flagBuilder.told
          /\ Contents(w.b.targets, w.heap) = flagBuilder.targets
          /\ \A n \in 1..Len(lists) : w.heap[n] = lists[n]
          /\ \A t \in DOMAIN w.b.targets : w.b.targets[t] > Len(lists)
      BY <1>3, <3>1, WithListsTyped
    <3> HIDE DEF w
    <3> QED BY <3>1, <3>2, <3>3
  <2> QED BY <2>1, <2>2
<1> HIDE DEF new
<1>5. BuilderInv'
  BY <1>2, <1>4 DEF TestsInv, BuilderInv
<1>6. CurrentInv' /\ ClientsInv'
  BY <1>2 DEF TestsInv, CurrentInv, ClientsInv
<1>7. UpdatedInv'
  <2>1. ListsStay
    BY <1>4 DEF ListsStay
  <2>2. BuilderStays
    BY <1>4 DEF BuilderStays
  <2> QED BY <1>2, <1>4, <2>1, <2>2, UpdatedStays DEF TestsInv
<1> QED BY <1>5, <1>6, <1>7 DEF TestsInv

(* A context is named for a variation.                                     *)
LEMMA ForContextKeeps ==
  ASSUME TestsInv, ForContext
  PROVE  TestsInv'
<1>1. PICK k \in TargetKey, v \in Choice(builder) :
        LET new == NameFor(builder, lists, k[1], k[2], v) IN
        /\ CallsBuilder(k \in namedSince) /\ builder' = [new.b EXCEPT !.told[k] = v.index]
        /\ lists' = new.heap /\ Len(new.heap) <= MaxLists
        /\ namedSince' = namedSince \cup {k}
        /\ UNCHANGED <<flagBuilder, current, dataSources, clientStore, updated>>
  BY DEF ForContext
<1> DEFINE new == NameFor(builder, lists, k[1], k[2], v)
           at == <<v.index, k[1]>>
           contents == Contents(builder.targets, lists)
<1>2. builder # NoBuilder /\ builder' = [new.b EXCEPT !.told[k] = v.index] /\ lists' = new.heap /\ namedSince' = namedSince \cup {k}
  BY <1>1 DEF CallsBuilder
<1>3. UNCHANGED <<flagBuilder, current, dataSources, clientStore, updated>>
  BY <1>1
<1>4. /\ lists \in Lists /\ builder \in BuildersOf(1..Len(lists)) /\ OwnLists(builder.targets)
      /\ Tells(builder.told, contents)
  BY <1>2 DEF TestsInv, BuilderInv
<1>5. PICK leaves :
        /\ new.heap \in Lists /\ Len(new.heap) >= Len(lists)
        /\ new.b \in BuildersOf(1..Len(new.heap)) /\ OwnLists(new.b.targets) /\ new.b.told = builder.told
        /\ Moved(contents, Contents(new.b.targets, new.heap), k, at, leaves)
        /\ \A t \in Named(contents, k) \ {at} : t \notin leaves => t[1] >= Len(For(builder, v).values)
        /\ OnlyHere(builder.targets, lists, new.heap, k)
        /\ FromLists(builder.targets, lists, new.b.targets)
  BY <1>4, NameForMoves
<1> HIDE DEF new
<1> DEFINE b2 == [new.b EXCEPT !.told[k] = v.index]
           told2 == [builder.told EXCEPT ![k] = v.index]
           N == Len(For(builder, v).values)
<1>6. v.index < N /\ v.index \in Nat /\ N \in Nat /\ For(builder, v) \in BuildersOf(1..Len(lists))
  <2> DEFINE f == For(builder, v)
  <2>1. f \in BuildersOf(1..Len(lists)) /\ v.index < Len(f.values) /\ v.index \in Nat
    BY <1>4, ForTyped
  <2> HIDE DEF f
  <2>2. Len(f.values) \in Nat
    BY <2>1 DEF BuildersOf
  <2> QED BY <2>1, <2>2 DEF f
<1>7. builder.told \in [TargetKey -> Nat \cup {NoVariation}]
  BY <1>4 DEF BuildersOf
<1>8. told2 \in [TargetKey -> Nat \cup {NoVariation}]
  BY <1>6, <1>7
<1>9. b2 \in BuildersOf(1..Len(new.heap)) /\ b2.targets = new.b.targets /\ b2.told = told2
  <2>1. new.b.told = builder.told
    BY <1>5
  <2>2. b2 = [new.b EXCEPT !.told = told2]
    BY <1>5, <2>1 DEF BuildersOf
  <2> HIDE DEF told2, b2
  <2> QED BY <1>5, <1>8, <2>2 DEF BuildersOf
<1>10. Tells(told2, Contents(b2.targets, new.heap))
  <2> DEFINE c2 == Contents(b2.targets, new.heap)
  <2>1. Moved(contents, c2, k, at, leaves)
    BY <1>5, <1>9
  <2>2. \A t \in DOMAIN contents : t[1] \in Nat
    <3>1. builder.targets \in TargetsTo(1..Len(lists))
      BY <1>4 DEF BuildersOf
    <3>2. DOMAIN builder.targets \in SUBSET (Nat \X (STRING \ {""})) /\ DOMAIN contents = DOMAIN builder.targets
      BY <3>1, TargetsToIs DEF Contents
    <3> HIDE DEF contents
    <3>3. \A t \in DOMAIN contents : t \in Nat \X (STRING \ {""})
      BY <3>2
    <3> QED BY <3>3
  <2>3. at[1] = v.index
    OBVIOUS
  <2> HIDE DEF c2, N, at, b2
  <2>4. \A t \in Named(contents, k) \ {at} : t \notin leaves => t[1] >= N
    BY <1>5 DEF N
  <2> HIDE DEF contents
  <2>5. at[1] \in Nat /\ at[1] < N
    BY <1>6, <2>3
  <2>6. Tells([builder.told EXCEPT ![k] = at[1]], c2)
    BY <1>4, <1>6, <1>7, <2>1, <2>2, <2>4, <2>5, MovedTells
  <2> QED BY <2>3, <2>6 DEF c2
<1> HIDE DEF b2, told2
<1>11. builder' = b2 /\ lists' = new.heap
  BY <1>2 DEF b2
<1>12. BuilderInv'
  BY <1>3, <1>5, <1>9, <1>10, <1>11 DEF TestsInv, BuilderInv
<1>13. CurrentInv' /\ ClientsInv'
  BY <1>3 DEF TestsInv, CurrentInv, ClientsInv
<1>14. UpdatedInv'
  <2>1. ListsStay
    <3> SUFFICES ASSUME NEW n \in 1..Len(lists), NEW key, ~(key \in new.heap[n] <=> key \in lists[n])
                 PROVE  \E u \in DOMAIN builder.targets : builder.targets[u] = n /\ <<u[2], key>> \in namedSince'
      BY <1>2, <1>11 DEF ListsStay
    <3>1. key = k[2] /\ \E t \in DOMAIN builder.targets : builder.targets[t] = n /\ t[2] = k[1]
      BY <1>5 DEF OnlyHere
    <3>2. k = <<k[1], k[2]>>
      BY TestDataAssumption, PairIs
    <3> QED BY <1>2, <3>1, <3>2
  <2>2. BuilderStays
    BY <1>2, <1>5, <1>9, <1>11 DEF BuilderStays, FromLists
  <2> QED BY <1>2, <1>3, <1>5, <1>11, <2>1, <2>2, UpdatedStays DEF TestsInv
<1> QED BY <1>12, <1>13, <1>14 DEF TestsInv

(* An item goes to all clients that are known.                             *)
LEMMA PropagateKeeps ==
  ASSUME TestsInv, NEW i \in TestItem, NEW built \in BOOLEAN, NEW item,
         Propagate(i, [version |-> Version(i) + 1, built |-> built, item |-> item]),
         i = TestSegment => ~built
  PROVE  /\ CurrentInv' /\ ClientsInv' /\ UNCHANGED <<lists, dataSources>> /\ namedSince' = {}
         /\ updated' = ReadData(current', lists)
         /\ current' = [j \in TestItem |-> IF j = i THEN [version |-> Version(i) + 1, built |-> built, item |-> item] ELSE current[j]]
<1> DEFINE entry == [version |-> Version(i) + 1, built |-> built, item |-> item]
<1>1. /\ current = [j \in TestItem |-> current[j]] /\ \A j \in TestItem : IsEntry(current[j])
      /\ current[TestSegment] = NoItem \/ ~current[TestSegment].built
      /\ TestSegment \in TestItem
  BY DEF TestsInv, CurrentInv, TestItem
<1>2. Version(i) \in Nat /\ (current[i] # NoItem => Version(i) = current[i].version)
  <2>1. IsEntry(current[i])
    BY <1>1
  <2> QED BY <2>1 DEF Version, IsEntry
<1>3. entry.version = Version(i) + 1 /\ entry.built = built /\ entry = [version |-> entry.version, built |-> entry.built, item |-> entry.item]
  OBVIOUS
<1>4. /\ current' = [current EXCEPT ![i] = entry]
      /\ clientStore' = [c \in Client |->
           IF c \in ToSet(dataSources) /\ (clientStore[c][i] = NoItem \/ clientStore[c][i].version < entry.version)
           THEN [clientStore[c] EXCEPT ![i] = entry] ELSE clientStore[c]]
      /\ updated' = ReadData(current', lists) /\ namedSince' = {}
      /\ UNCHANGED <<lists, dataSources>>
  BY DEF Propagate
<1> HIDE DEF entry
<1>5. current' = [j \in TestItem |-> IF j = i THEN entry ELSE current[j]]
  BY <1>1, <1>4
<1>6. IsEntry(entry)
  BY <1>2, <1>3 DEF IsEntry
<1>7. CurrentInv'
  <2>1. \A j \in TestItem : IsEntry(current'[j])
    BY <1>1, <1>5, <1>6
  <2>2. current'[TestSegment] = NoItem \/ ~current'[TestSegment].built
    BY <1>1, <1>3, <1>5
  <2>3. current' = [j \in TestItem |-> current'[j]]
    BY <1>5
  <2> QED BY <2>1, <2>2, <2>3 DEF CurrentInv, IsEntry
<1>8. ClientsInv'
  <2>1. /\ dataSources \in Seq(Client) /\ \A c \in ToSet(dataSources) : clientStore[c] = current
    BY DEF TestsInv, ClientsInv
  <2>2. ToSet(dataSources) \subseteq Client
    BY <2>1, ElementOfSeq DEF ToSet
  <2>3. ASSUME NEW c \in ToSet(dataSources) PROVE clientStore'[c] = current'
    <3>1. clientStore[c] = current /\ c \in Client
      BY <2>1, <2>2
    <3>2. current[i] = NoItem \/ current[i].version < entry.version
      BY <1>2, <1>3
    <3>3. clientStore'[c] = [current EXCEPT ![i] = entry]
      BY <1>4, <3>1, <3>2
    <3> QED BY <1>4, <3>3
  <2>4. clientStore' = [c \in Client |-> clientStore'[c]]
    BY <1>4
  <2> QED BY <1>4, <2>1, <2>3, <2>4 DEF ClientsInv
<1> QED BY <1>4, <1>5, <1>7, <1>8 DEF entry

(* The builder's flag is brought up to date.                               *)
LEMMA UpdateKeeps ==
  ASSUME TestsInv, Update
  PROVE  TestsInv'
<1>1. /\ builder # NoBuilder /\ Propagate(TestFlag, [version |-> Version(TestFlag) + 1, built |-> TRUE, item |-> Build(builder)])
      /\ flagBuilder' = Clone(builder, lists) /\ UNCHANGED <<builder, builderCalls>>
  BY DEF Update
<1>2. TestFlag \in TestItem /\ TestFlag # TestSegment
  BY TestDataAssumption DEF TestItem
<1>3. /\ CurrentInv' /\ ClientsInv' /\ UNCHANGED <<lists, dataSources>> /\ namedSince' = {}
      /\ updated' = ReadData(current', lists)
      /\ current' = [j \in TestItem |-> IF j = TestFlag THEN [version |-> Version(TestFlag) + 1, built |-> TRUE, item |-> Build(builder)]
                                        ELSE current[j]]
  BY <1>1, <1>2, PropagateKeeps
<1>4. /\ lists \in Lists /\ builder \in BuildersOf(1..Len(lists)) /\ OwnLists(builder.targets)
      /\ Tells(builder.told, Contents(builder.targets, lists))
  BY <1>1 DEF TestsInv, BuilderInv
<1>5. BuilderInv'
  <2> DEFINE c == Clone(builder, lists)
  <2>1. c \in BuildersOf(SUBSET Seq(STRING)) /\ c.targets = Contents(builder.targets, lists) /\ c.told = builder.told
    BY <1>4, CloneTyped
  <2> HIDE DEF c
  <2>2. flagBuilder' = c
    BY <1>1 DEF c
  <2> QED BY <1>1, <1>3, <1>4, <2>1, <2>2 DEF BuilderInv
<1>6. UpdatedInv'
  <2>1. current'[TestFlag].item = Build(builder)
    BY <1>2, <1>3
  <2>2. BuiltFrom(builder, lists)'
    BY <1>1, <1>3, <1>4, <2>1 DEF BuiltFrom, OwnLists
  <2>3. updated' = ReadData(current', lists')
    BY <1>3
  <2> QED BY <2>2, <2>3 DEF UpdatedInv
<1> QED BY <1>3, <1>5, <1>6 DEF TestsInv

(* An item that the application brings.                                    *)
LEMMA PreconfiguredKeeps ==
  ASSUME TestsInv, UsePreconfiguredFlag \/ UsePreconfiguredSegment
  PROVE  TestsInv'
<1>1. builder = NoBuilder /\ \E i \in TestItem : \E config \in Preconfigured[i] : Preconfigure(i, config)
  BY DEF UsePreconfiguredFlag, UsePreconfiguredSegment, TestItem
<1>2. PICK i \in TestItem : \E config \in Preconfigured[i] : Preconfigure(i, config)
  BY <1>1
<1>7. PICK config \in Preconfigured[i] : Preconfigure(i, config)
  BY <1>2
<1>3. /\ Propagate(i, [version |-> Version(i) + 1, built |-> FALSE, item |-> Process(config)])
      /\ UNCHANGED <<builder, builderCalls, flagBuilder>>
  BY <1>7 DEF Preconfigure
<1> DEFINE item == Process(config)
<1>4. /\ CurrentInv' /\ ClientsInv' /\ UNCHANGED <<lists, dataSources>> /\ namedSince' = {}
      /\ updated' = ReadData(current', lists)
      /\ current' = [j \in TestItem |-> IF j = i THEN [version |-> Version(i) + 1, built |-> FALSE, item |-> item] ELSE current[j]]
  <2> HIDE DEF item
  <2>1. Propagate(i, [version |-> Version(i) + 1, built |-> FALSE, item |-> item])
    BY <1>3 DEF item
  <2> QED BY <2>1, PropagateKeeps
<1> HIDE DEF item
<1>5. BuilderInv'
  BY <1>3, <1>4 DEF TestsInv, BuilderInv
<1>6. UpdatedInv'
  <2>1. PICK heap : current[TestFlag] # NoItem /\ current[TestFlag].built => \E b : BuiltFrom(b, heap)
    BY DEF TestsInv, UpdatedInv
  <2>2. ASSUME current'[TestFlag] # NoItem /\ current'[TestFlag].built PROVE \E b : BuiltFrom(b, lists)'
    <3>1. TestFlag \in TestItem
      BY DEF TestItem
    <3>2. TestFlag # i
      BY <1>4, <2>2
    <3>3. current'[TestFlag] = current[TestFlag]
      BY <1>4, <3>1, <3>2
    <3>4. PICK b : BuiltFrom(b, heap)
      BY <2>1, <2>2, <3>3
    <3>5. BuiltFrom(b, lists)'
      BY <1>1, <1>3, <1>4, <3>3, <3>4 DEF BuiltFrom
    <3> QED BY <3>5
  <2>3. updated' = ReadData(current', lists')
    BY <1>4
  <2>4. lists' = lists
    BY <1>4
  <2> QED BY <2>2, <2>3, <2>4 DEF UpdatedInv
<1> QED BY <1>4, <1>5, <1>6 DEF TestsInv

(* Clients come and go.                                                    *)
LEMMA ClientsComeAndGo ==
  ASSUME TestsInv, NEW c \in Client, StartClient(c) \/ StopClient(c)
  PROVE  TestsInv'
<1>1. UNCHANGED <<builder, lists, flagBuilder, current, namedSince, updated>>
  BY DEF StartClient, StopClient
<1>2. BuilderInv' /\ CurrentInv'
  BY <1>1 DEF TestsInv, BuilderInv, CurrentInv
<1>3. UpdatedInv'
  <2>1. ListsStay /\ BuilderStays
    BY <1>1 DEF ListsStay, BuilderStays
  <2>2. lists' \in Lists /\ Len(lists') >= Len(lists)
    BY <1>1 DEF TestsInv, BuilderInv, Lists
  <2> QED BY <1>1, <2>1, <2>2, UpdatedStays DEF TestsInv
<1>4. /\ dataSources \in Seq(Client) /\ clientStore = [d \in Client |-> clientStore[d]]
      /\ \A d \in ToSet(dataSources) : clientStore[d] = current
  BY DEF TestsInv, ClientsInv
<1>5. ASSUME StartClient(c) PROVE ClientsInv'
  <2>1. dataSources' = Append(dataSources, c) /\ clientStore' = [clientStore EXCEPT ![c] = current]
    BY <1>5 DEF StartClient, Start
  <2>2. dataSources' \in Seq(Client)
    BY <1>4, <2>1
  <2>3. clientStore' = [d \in Client |-> IF d = c THEN current ELSE clientStore[d]]
    BY <1>4, <2>1
  <2>4. \A d \in ToSet(dataSources') : d \in Client /\ (d = c \/ d \in ToSet(dataSources))
    <3> TAKE d \in ToSet(dataSources')
    <3>1. PICK n \in DOMAIN dataSources' : dataSources'[n] = d
      BY DEF ToSet
    <3>2. n = Len(dataSources) + 1 \/ n \in 1..Len(dataSources)
      BY <1>4, <2>1, <3>1
    <3>3. CASE n = Len(dataSources) + 1
      BY <1>4, <2>1, <3>1, <3>3
    <3>4. CASE n \in 1..Len(dataSources)
      <4>1. d = dataSources[n] /\ n \in DOMAIN dataSources /\ dataSources[n] \in Client
        BY <1>4, <2>1, <3>1, <3>4, ElementOfSeq
      <4> QED BY <4>1 DEF ToSet
    <3> QED BY <3>2, <3>3, <3>4
  <2>5. \A d \in ToSet(dataSources') : clientStore'[d] = current'
    BY <1>1, <1>4, <2>3, <2>4
  <2>6. clientStore' = [d \in Client |-> clientStore'[d]]
    BY <2>3
  <2> QED BY <2>2, <2>5, <2>6 DEF ClientsInv
<1>6. ASSUME StopClient(c) PROVE ClientsInv'
  <2> DEFINE n == SelectInSeq(dataSources, LAMBDA d : d = c)
             m == (IF n = 0 THEN Len(dataSources) ELSE n) - 1
  <2>1. dataSources' = SubSeq(dataSources, 1, m) /\ clientStore' = clientStore
    BY <1>6 DEF StopClient, OnStop
  <2>2. m \in Int /\ m <= Len(dataSources)
    <3> DEFINE I == {i \in 1..Len(dataSources) : dataSources[i] = c}
    <3>1. n = IF I # {} THEN Min(I) ELSE 0
      BY DEF SelectInSeq
    <3>2. Len(dataSources) \in Nat
      BY <1>4
    <3>3. I \in SUBSET Nat /\ I \subseteq 1..Len(dataSources)
      BY <3>2
    <3>4. I # {} => Min(I) \in I
      <4> HIDE DEF I
      <4> QED BY <3>3, LeastNumber
    <3>5. n = 0 \/ n \in 1..Len(dataSources)
      <4> HIDE DEF I, n
      <4> QED BY <3>1, <3>3, <3>4
    <3> HIDE DEF n
    <3> QED BY <3>2, <3>5
  <2> HIDE DEF m
  <2>3. dataSources' \in Seq(Client) /\ ToSet(dataSources') \subseteq ToSet(dataSources)
    <3>1. dataSources' = [i \in 1..m |-> dataSources[i]]
      <4> DEFINE s == dataSources
      <4>1. s \in Seq(Client)
        BY <1>4
      <4> HIDE DEF s
      <4>2. SubSeq(s, 1, m) = [i \in 1..m |-> s[i]]
        BY <2>2, <4>1
      <4> QED BY <2>1, <4>2 DEF s
    <3>2. \A i \in 1..m : i \in 1..Len(dataSources)
      BY <1>4, <2>2
    <3>3. \A i \in 1..m : dataSources[i] \in Client /\ i \in DOMAIN dataSources
      BY <1>4, <3>2, ElementOfSeq
    <3>4. dataSources' \in Seq(Client)
      <4> DEFINE M == IF m < 0 THEN 0 ELSE m
      <4>1. M \in Nat /\ 1..m = 1..M
        BY <2>2
      <4> HIDE DEF M
      <4>2. dataSources' = [i \in 1..M |-> dataSources[i]] /\ \A i \in 1..M : dataSources[i] \in Client
        BY <3>1, <3>3, <4>1
      <4> QED BY <4>1, <4>2
    <3>5. ToSet(dataSources') \subseteq ToSet(dataSources)
      BY <3>1, <3>3 DEF ToSet
    <3> QED BY <3>4, <3>5
  <2> QED BY <1>1, <1>4, <2>1, <2>3 DEF ClientsInv
<1> QED BY <1>2, <1>3, <1>5, <1>6 DEF TestsInv

(* An application builds what it has told, in every state.                 *)
LEMMA TestsKept ==
  ASSUME TestsInv, [Next]_vars
  PROVE  TestsInv'
<1>1. CASE UNCHANGED testVars
  <2>1. UNCHANGED <<builder, lists, flagBuilder, current, dataSources, clientStore, namedSince, updated>>
    BY <1>1 DEF testVars
  <2>2. BuilderInv' /\ CurrentInv' /\ ClientsInv'
    BY <2>1 DEF TestsInv, BuilderInv, CurrentInv, ClientsInv
  <2>3. ListsStay /\ BuilderStays
    BY <2>1 DEF ListsStay, BuilderStays
  <2>4. lists' \in Lists /\ Len(lists') >= Len(lists)
    BY <2>1 DEF TestsInv, BuilderInv, Lists
  <2>5. UpdatedInv'
    BY <2>1, <2>3, <2>4, UpdatedStays DEF TestsInv
  <2> QED BY <2>2, <2>5 DEF TestsInv
<1>2. CASE TestDataNext
  BY <1>2, GetFlagKeeps, ChangeFlagKeeps, ForContextKeeps, UpdateKeeps, PreconfiguredKeeps, ClientsComeAndGo DEF TestDataNext
<1>3. UNCHANGED testVars \/ TestDataNext
  BY DEF Next, vars, Patch, Delete, Receive, Identify
<1> QED BY <1>1, <1>2, <1>3

(* So it is always.                                                        *)
LEMMA TestsInvariance == Spec => []TestsInv
<1>1. Init => TestsInv
  BY TestsBegin DEF Init
<1> QED BY <1>1, TestsKept, PTL DEF Spec

-----------------------------------------------------------------------------
(* What is served of the flags that an application builds.                 *)

(* They are what a builder makes.                                          *)
LEMMA BuiltFlag ==
  ASSUME NEW L \in Nat, NEW b \in BuildersOf(1..L), NEW heap
  PROVE  LET flag == Read(Build(b), heap) IN
         /\ Built(flag) /\ Targeted(flag, b.targets, heap)
         /\ flag.on = b.on /\ flag.rules = b.rules /\ flag.variations = Len(b.values)
         /\ flag.offVariation = b.off /\ flag.fallthrough.variation = b.fallthrough
<1> DEFINE flag == Read(Build(b), heap)
<1>1. b.targets \in TargetsTo(Nat \ {0})
  <2>1. b.targets \in TargetsTo(1..L)
    BY DEF BuildersOf
  <2>2. /\ b.targets \in [DOMAIN b.targets -> 1..L] /\ IsFiniteSet(DOMAIN b.targets)
        /\ DOMAIN b.targets \in SUBSET (Nat \X (STRING \ {""}))
    BY <2>1, TargetsToIs
  <2>3. b.targets \in [DOMAIN b.targets -> Nat \ {0}]
    <3> DEFINE to == b.targets
    <3>1. to \in [DOMAIN to -> 1..L]
      BY <2>2
    <3>3. \A n \in 1..L : n \in Nat \ {0}
      OBVIOUS
    <3> HIDE DEF to
    <3>2. to \in [DOMAIN to -> Nat \ {0}]
      BY <3>1, <3>3
    <3> QED BY <3>2 DEF to
  <2> QED BY <2>2, <2>3, TargetsToIs
<1>2. /\ flag.kind = "flag" /\ flag.on = b.on /\ flag.prerequisites = <<>> /\ flag.rules = b.rules
      /\ flag.fallthrough.variation = b.fallthrough /\ flag.offVariation = b.off
      /\ flag.variations = Len(b.values)
      /\ flag.targets = UserTargets(b.targets, heap)
      /\ flag.contextTargets = AllTargets(b.targets, heap)
  BY <1>1, ReadBuild
<1> HIDE DEF flag
<1>3. b.off \in Nat /\ b.fallthrough \in Nat /\ b.rules \in Seq(BuiltRules) /\ Len(b.values) \in Nat
  <2>1. b.off \in Nat /\ b.fallthrough \in Nat /\ b.rules \in Seq(BuiltRules) /\ b.values \in Seq(BOOLEAN) \cup Seq(Nat)
    BY DEF BuildersOf
  <2> QED BY <2>1
<1>4. ASSUME NEW n \in 1..Len(b.rules)
      PROVE  /\ b.rules[n].variation \in Nat
             /\ Len(b.rules[n].clauses) \in Nat \ {0}
             /\ \A m \in 1..Len(b.rules[n].clauses) : b.rules[n].clauses[m].op = "in"
  <2>1. b.rules[n] \in BuiltRules
    BY <1>3, ElementOfSeq
  <2>2. PICK conditions \in Conditions : b.rules[n].clauses = Each(conditions, MatchOrNot)
    BY <2>1 DEF BuiltRules
  <2>3. conditions \in Seq(ToSet(conditions)) /\ conditions # <<>>
    BY TestDataAssumption
  <2>4. Len(conditions) \in Nat \ {0} /\ DOMAIN conditions = 1..Len(conditions)
    BY <2>3
  <2>5. b.rules[n].clauses = [m \in 1..Len(conditions) |-> MatchOrNot(conditions[m])]
    BY <2>2, <2>4 DEF Each
  <2>6. \A m \in 1..Len(conditions) : MatchOrNot(conditions[m]).op = "in"
    BY DEF MatchOrNot
  <2>7. Len(b.rules[n].clauses) = Len(conditions)
    BY <2>4, <2>5
  <2>8. b.rules[n].variation \in Nat
    BY <2>1 DEF BuiltRules
  <2> QED BY <2>4, <2>5, <2>6, <2>7, <2>8
<1>5. Built(flag)
  <2>1. Len(b.rules) \in Nat
    BY <1>3
  <2> QED BY <1>2, <1>3, <1>4, <2>1 DEF Built
<1>6. Targeted(flag, b.targets, heap)
  BY <1>1, <1>2 DEF Targeted
<1> QED BY <1>2, <1>5, <1>6 DEF flag

(* There is a first rule that applies, or none does.                       *)
LEMMA SomeFirst ==
  ASSUME NEW flag, Built(flag), NEW c
  PROVE  \E k : FirstApplies(flag, c, k)
<1> DEFINE I == {n \in 1..Len(flag.rules) : Applies(flag.rules[n], c)}
           k == IF I = {} THEN 0 ELSE Min(I)
<1>1. Len(flag.rules) \in Nat
  BY DEF Built
<1>2. I \in SUBSET Nat /\ I \subseteq 1..Len(flag.rules)
  BY <1>1
<1>3. I # {} => Min(I) \in I /\ \A m \in I : Min(I) <= m
  <2> HIDE DEF I
  <2> QED BY <1>2, LeastNumber
<1>4. k \in 0..Len(flag.rules) /\ (k # 0 => k \in I) /\ (k = 0 => I = {}) /\ \A m \in I : k <= m
  <2> DEFINE N == Len(flag.rules)
             J == I
  <2>1. N \in Nat /\ J \subseteq 1..N /\ (J # {} => Min(J) \in J /\ \A m \in J : Min(J) <= m) /\ k = IF J = {} THEN 0 ELSE Min(J)
    BY <1>1, <1>2, <1>3
  <2> HIDE DEF J, k, N
  <2>2. k \in 0..N /\ (k # 0 => k \in J) /\ (k = 0 => J = {}) /\ \A m \in J : k <= m
    <3>1. CASE J = {}
      BY <2>1, <3>1
    <3>2. CASE J # {}
      <4>1. k \in J /\ k \in 1..N /\ \A m \in J : k <= m
        BY <2>1, <3>2
      <4> QED BY <2>1, <4>1
    <3> QED BY <3>1, <3>2
  <2> QED BY <2>2 DEF J, N
<1> HIDE DEF k
<1>5. k # 0 => Applies(flag.rules[k], c)
  BY <1>4
<1>6. \A n \in 1..Len(flag.rules) : n < k \/ k = 0 => ~Applies(flag.rules[n], c)
  <2> TAKE n \in 1..Len(flag.rules)
  <2> HAVE n < k \/ k = 0
  <2>1. n \notin I
    <3> HIDE DEF I
    <3> QED BY <1>1, <1>4
  <2> QED BY <2>1
<1>7. FirstApplies(flag, c, k)
  <2> HIDE DEF I
  <2> QED BY <1>4, <1>5, <1>6 DEF FirstApplies
<1> QED BY <1>7

(* Of targets that hit, one has the least variation.                       *)
LEMMA LeastHit ==
  ASSUME NEW targets, DOMAIN targets \in SUBSET (Nat \X (STRING \ {""})), NEW heap, NEW c, NEW t0 \in DOMAIN targets, Hits(targets, heap, c, t0)
  PROVE  \E t \in DOMAIN targets : Hits(targets, heap, c, t) /\ \A u \in DOMAIN targets : Hits(targets, heap, c, u) => t[1] <= u[1]
<1> DEFINE H == {t \in DOMAIN targets : Hits(targets, heap, c, t)}
           I == {t[1] : t \in H}
<1>1. I \in SUBSET Nat /\ I # {}
  <2>1. \A t \in DOMAIN targets : t[1] \in Nat
    OBVIOUS
  <2> QED BY <2>1
<1>2. Min(I) \in I /\ \A m \in I : Min(I) <= m
  <2> HIDE DEF I
  <2> QED BY <1>1, LeastNumber
<1>3. PICK t \in H : t[1] = Min(I)
  BY <1>2
<1>4. \A u \in H : t[1] <= u[1]
  BY <1>2, <1>3
<1> QED BY <1>3, <1>4

(* Lists that agree for a context serve it the same.                       *)
LEMMA AgreeingLists ==
  ASSUME NEW L \in Nat, NEW b \in BuildersOf(1..L), NEW c, NEW heap, NEW heap2,
         \A t \in DOMAIN b.targets : Hits(b.targets, heap, c, t) <=> Hits(b.targets, heap2, c, t),
         NEW k
  PROVE  LET flag == Read(Build(b), heap)
             flag2 == Read(Build(b), heap2)
         IN /\ FirstApplies(flag, c, k) <=> FirstApplies(flag2, c, k)
            /\ WhatIsServed(flag, c, k) = WhatIsServed(flag2, c, k)
<1> DEFINE flag == Read(Build(b), heap)
           flag2 == Read(Build(b), heap2)
           to == b.targets
<1>1. /\ Targeted(flag, to, heap) /\ flag.on = b.on /\ flag.rules = b.rules /\ flag.variations = Len(b.values)
      /\ flag.offVariation = b.off /\ flag.fallthrough.variation = b.fallthrough
  BY BuiltFlag
<1>2. /\ Targeted(flag2, to, heap2) /\ flag2.on = b.on /\ flag2.rules = b.rules /\ flag2.variations = Len(b.values)
      /\ flag2.offVariation = b.off /\ flag2.fallthrough.variation = b.fallthrough
  BY BuiltFlag
<1>3. DOMAIN to \in SUBSET (Nat \X (STRING \ {""}))
  BY <1>1, TargetsToIs DEF Targeted
<1> HIDE DEF flag, flag2, to
<1>4. \A i, kind : GetVariation(flag, i, kind) = GetVariation(flag2, i, kind)
  BY <1>1, <1>2 DEF GetVariation
<1>5. \A t \in DOMAIN to : Hits(to, heap, c, t) <=> Hits(to, heap2, c, t)
  BY DEF to
<1>6. EvalTargets(flag, c) = EvalTargets(flag2, c)
  <2>1. CASE \A t \in DOMAIN to : ~Hits(to, heap, c, t)
    <3>1. EvalTargets(flag, c) = NoResult
      BY <1>1, <2>1, TargetsAnswer
    <3>2. EvalTargets(flag2, c) = NoResult
      BY <1>2, <1>5, <2>1, TargetsAnswer
    <3> QED BY <3>1, <3>2
  <2>2. CASE \E t \in DOMAIN to : Hits(to, heap, c, t)
    <3>1. PICK t \in DOMAIN to : Hits(to, heap, c, t) /\ \A u \in DOMAIN to : Hits(to, heap, c, u) => t[1] <= u[1]
      BY <1>3, <2>2, LeastHit
    <3>2. EvalTargets(flag, c) = GetVariation(flag, t[1], "TARGET_MATCH")
      BY <1>1, <3>1, TargetsAnswer
    <3>3. EvalTargets(flag2, c) = GetVariation(flag2, t[1], "TARGET_MATCH")
      BY <1>2, <1>5, <3>1, TargetsAnswer
    <3> QED BY <1>4, <3>2, <3>3
  <2> QED BY <2>1, <2>2
<1>7. FirstApplies(flag, c, k) <=> FirstApplies(flag2, c, k)
  BY <1>1, <1>2 DEF FirstApplies
<1>8. RuleServes(flag, k, c) = RuleServes(flag2, k, c)
  BY <1>1, <1>2, <1>4 DEF RuleServes
<1>9. WhatIsServed(flag, c, k) = WhatIsServed(flag2, c, k)
  BY <1>1, <1>2, <1>4, <1>6, <1>8 DEF WhatIsServed
<1> QED BY <1>7, <1>9 DEF flag, flag2

ResultIn(d, c) == IF d[TestFlag] = NoItem THEN NoResult ELSE Evaluate(d, c, TestFlag).res

(* What clients have is what was last updated.                             *)
LEMMA StoreIsUpdated ==
  ASSUME TestsInv, updated[TestFlag] # NoItem, NEW c, {<<k, KeyOf(c, k)>> : k \in Kinds(c)} \cap namedSince = {}
  PROVE  ResultIn(ReadData(current, lists), c) = ResultIn(updated, c)
<1>1. PICK heap :
        /\ updated = ReadData(current, heap)
        /\ current[TestFlag] # NoItem /\ current[TestFlag].built => \E b : BuiltFrom(b, heap)
  BY DEF TestsInv, UpdatedInv
<1>2. TestFlag \in TestItem /\ current[TestFlag] # NoItem
  BY <1>1 DEF ReadData, TestItem
<1> DEFINE now == ReadData(current, lists)
<1>3. CASE ~current[TestFlag].built
  <2>1. \A i \in TestItem : current[i] = NoItem \/ ~current[i].built
    BY <1>3 DEF TestsInv, CurrentInv, TestItem
  <2>2. now = updated
    BY <1>1, <2>1 DEF ReadData
  <2> QED BY <2>2
<1>4. CASE current[TestFlag].built
  <2>1. PICK b : BuiltFrom(b, heap)
    BY <1>1, <1>2, <1>4
  <2>2. b \in BuildersOf(1..Len(lists)) /\ current[TestFlag].item = Build(b) /\ Len(lists) \in Nat
    BY <2>1 DEF BuiltFrom, TestsInv, BuilderInv, Lists
  <2> DEFINE flag == Read(Build(b), heap)
             flag2 == Read(Build(b), lists)
  <2>3. updated[TestFlag] = flag /\ now[TestFlag] = flag2 /\ TestFlag \in DOMAIN updated /\ TestFlag \in DOMAIN now
    BY <1>1, <1>2, <1>4, <2>2 DEF ReadData
  <2>4. \A t \in DOMAIN b.targets : Hits(b.targets, heap, c, t) <=> Hits(b.targets, lists, c, t)
    <3> TAKE t \in DOMAIN b.targets
    <3>1. HasKind(c, t[2]) => <<t[2], KeyOf(c, t[2])>> \notin namedSince
      BY DEF HasKind
    <3>2. \A key : <<t[2], key>> \notin namedSince => (key \in heap[b.targets[t]] <=> key \in lists[b.targets[t]])
      BY <2>1 DEF BuiltFrom
    <3> QED BY <3>1, <3>2 DEF Hits
  <2>5. Built(flag) /\ Built(flag2)
    BY <2>2, BuiltFlag
  <2>6. PICK k : FirstApplies(flag, c, k)
    <3> HIDE DEF flag
    <3> QED BY <2>5, SomeFirst
  <2>7. FirstApplies(flag2, c, k) /\ WhatIsServed(flag, c, k) = WhatIsServed(flag2, c, k)
    BY <2>2, <2>4, <2>6, AgreeingLists
  <2>8. flag.kind = "flag" /\ flag2.kind = "flag"
    <3> HIDE DEF flag, flag2
    <3> QED BY <2>5 DEF Built
  <2> HIDE DEF flag, flag2, now
  <2>9. Evaluate(updated, c, TestFlag).res = WhatIsServed(flag, c, k)
    BY <2>3, <2>5, <2>6, BuiltAnswered
  <2>10. Evaluate(now, c, TestFlag).res = WhatIsServed(flag2, c, k)
    BY <2>3, <2>5, <2>7, BuiltAnswered
  <2>11. flag # NoItem /\ flag2 # NoItem
    BY <2>8 DEF NoItem
  <2>12. ResultIn(now, c) = ResultIn(updated, c)
    BY <2>3, <2>7, <2>9, <2>10, <2>11 DEF ResultIn
  <2> QED BY <2>12 DEF now
<1> QED BY <1>3, <1>4

(* Whatever the contexts are.                                              *)
LEMMA ClientsAreUpdated ==
  ASSUME TestsInv, NEW contexts
  PROVE  ClientsHaveUpdates(contexts)
<1> DEFINE data == {updated} \cup {ReadData(clientStore[client], lists) : client \in ToSet(dataSources)}
           Unnamed(c) == {<<k, KeyOf(c, k)>> : k \in Kinds(c)} \cap namedSince = {}
           results(c) == {IF d[TestFlag] = NoItem THEN NoResult ELSE Evaluate(d, c, TestFlag).res : d \in data}
<1> SUFFICES ASSUME updated[TestFlag] # NoItem, NEW c \in contexts, Unnamed(c)
             PROVE  Cardinality(results(c)) = 1
  BY DEF ClientsHaveUpdates
<1>1. \A client \in ToSet(dataSources) : clientStore[client] = current
  BY DEF TestsInv, ClientsInv
<1>2. \A d \in data : d = updated \/ d = ReadData(current, lists)
  BY <1>1
<1>3. ResultIn(ReadData(current, lists), c) = ResultIn(updated, c)
  BY StoreIsUpdated
<1>4. results(c) = {ResultIn(d, c) : d \in data}
  BY DEF ResultIn
<1>5. updated \in data
  OBVIOUS
<1> DEFINE r == ResultIn(updated, c)
<1> HIDE DEF data
<1>6. {ResultIn(d, c) : d \in data} = {r}
  <2> HIDE DEF r
  <2>1. \A d \in data : ResultIn(d, c) = r
    BY <1>2, <1>3 DEF r
  <2>2. ResultIn(updated, c) = r
    BY DEF r
  <2> QED BY <1>5, <2>1, <2>2
<1>7. Cardinality({r}) = 1
  BY FS_Singleton
<1> HIDE DEF results, r
<1> QED BY <1>4, <1>6, <1>7

(* Every client whose data source is known has the flag as it was when it  *)
(* was last updated, for every context that no builder has named since.    *)
THEOREM TestClientsHaveUpdatesEver == Spec => []TestClientsHaveUpdates
<1>1. TestsInv => TestClientsHaveUpdates
  BY ClientsAreUpdated DEF TestClientsHaveUpdates
<1> QED BY <1>1, TestsInvariance, PTL

-----------------------------------------------------------------------------
(* What an application is told of the flags that it builds.                *)

HoldsIfValid(c, clause) == clause.attributeReference.valid => HoldsFor(c, clause)

(* Values with a type are in each other if they are the same.              *)
LEMMA InIsSame ==
  ASSUME NEW a, NEW b, IsValue(a), IsValue(b)
  PROVE  Execute("in", a, b) <=> a = b /\ a.type \notin {"object", "array"}
<1>1. Execute("in", a, b) <=> a.type = b.type /\ a.type \notin {"object", "array"} /\ a.of = b.of
  BY Zenon DEF Execute
<1>2. a.type = b.type /\ a.of = b.of => a = b
  BY DEF IsValue
<1> QED BY <1>1, <1>2

(* A clause of a rule matches if its condition holds.                      *)
LEMMA ClauseHolds ==
  ASSUME NEW c \in Asked, c.valid, NEW conditions \in Conditions, NEW m \in ToSet(conditions)
  PROVE  MatchClause(MatchOrNot(m), c) <=> HoldsFor(c, MatchOrNot(m))
<1> DEFINE clause == MatchOrNot(m)
           v == ValueForKind(c, Reference(m.attribute), m.kind)
           values == IF v.type = "array" THEN v.of ELSE {v}
           same == {a \in values \cap m.values : a.type \notin {"object", "array"}}
           found == \E a \in values, b \in m.values : Execute("in", a, b)
<1>1. /\ clause.op = "in" /\ clause.attributeReference = Reference(m.attribute) /\ clause.contextKind = m.kind
      /\ clause.values = m.values /\ clause.negate = m.negate
  BY DEF MatchOrNot
<1>2. m.kind # "" /\ m.negate \in BOOLEAN /\ \A b \in m.values : IsValue(b)
  BY TestDataAssumption
<1>3. IsValue(v) /\ (v.type = "array" => \A a \in v.of : IsValue(a))
  BY ConditionsAssumption
<1>4. OrUser(m.kind) = m.kind
  BY <1>2 DEF OrUser
<1> HIDE DEF clause, v
<1>5. \A a \in values : IsValue(a)
  BY <1>3
<1>6. found <=> same # {}
  <2> HIDE DEF values
  <2>1. \A a \in values : \A b \in m.values : Execute("in", a, b) <=> a = b /\ a.type \notin {"object", "array"}
    BY <1>2, <1>5, InIsSame
  <2> QED BY <2>1
<1>7. MatchClause(clause, c) <=> IsDefined(v) /\ MaybeNegate(clause, found)
  BY <1>1, <1>4 DEF MatchClause, v
<1>8. HoldsFor(c, clause) <=> IsDefined(v) /\ (same # {}) # m.negate
  BY <1>1 DEF HoldsFor, v
<1> HIDE DEF found, same
<1>9. MaybeNegate(clause, found) <=> IF m.negate THEN ~found ELSE found
  BY <1>1 DEF MaybeNegate
<1>10. m.negate = TRUE \/ m.negate = FALSE
  BY <1>2
<1>11. MatchClause(clause, c) <=> HoldsFor(c, clause)
  <2>1. CASE m.negate = TRUE
    BY <1>6, <1>7, <1>8, <1>9, <2>1
  <2>2. CASE m.negate = FALSE
    BY <1>6, <1>7, <1>8, <1>9, <2>2
  <2> QED BY <1>10, <2>1, <2>2
<1> QED BY <1>11 DEF clause

(* A rule applies if all its conditions hold that are on an attribute.     *)
LEMMA AppliesIfHolds ==
  ASSUME NEW c \in Asked, c.valid, NEW rule \in BuiltRules
  PROVE  Applies(rule, c) <=> \A clause \in ToSet(rule.clauses) : HoldsIfValid(c, clause)
<1>1. PICK conditions \in Conditions : rule.clauses = Each(conditions, MatchOrNot)
  BY DEF BuiltRules
<1>2. conditions \in Seq(ToSet(conditions))
  BY TestDataAssumption
<1> DEFINE N == Len(conditions)
           clauses == rule.clauses
<1>3. N \in Nat /\ DOMAIN conditions = 1..N
  BY <1>2
<1>4. clauses = [m \in 1..N |-> MatchOrNot(conditions[m])]
  BY <1>1, <1>3 DEF Each
<1> HIDE DEF N, clauses
<1>5. DOMAIN clauses = 1..N /\ Len(clauses) = N
  BY <1>3, <1>4
<1>6. ASSUME NEW m \in 1..N PROVE MatchClause(clauses[m], c) <=> HoldsFor(c, clauses[m])
  <2>1. conditions[m] \in ToSet(conditions)
    BY <1>3 DEF ToSet
  <2>2. clauses[m] = MatchOrNot(conditions[m])
    BY <1>4
  <2> QED BY <2>1, <2>2, ClauseHolds
<1>7. Applies(rule, c) <=> \A m \in 1..N : clauses[m].attributeReference.valid => MatchClause(clauses[m], c)
  BY <1>5 DEF Applies, Denied, clauses
<1>8. (\A clause \in ToSet(clauses) : HoldsIfValid(c, clause)) <=> \A m \in 1..N : HoldsIfValid(c, clauses[m])
  BY <1>5 DEF ToSet
<1>9. Applies(rule, c) <=> \A m \in 1..N : HoldsIfValid(c, clauses[m])
  BY <1>6, <1>7 DEF HoldsIfValid
<1> QED BY <1>8, <1>9 DEF clauses

FirstThatHolds(rules, c) ==
  SelectInSeq(rules, LAMBDA r : \A clause \in ToSet(r.clauses) : clause.attributeReference.valid => HoldsFor(c, clause))

(* The first rule whose conditions hold is the first that applies.         *)
LEMMA FirstHolds ==
  ASSUME NEW c \in Asked, c.valid, NEW flag, flag.rules \in Seq(BuiltRules)
  PROVE  FirstApplies(flag, c, FirstThatHolds(flag.rules, c))
<1> DEFINE rules == flag.rules
           N == Len(rules)
           I == {i \in 1..N : \A clause \in ToSet(rules[i].clauses) : clause.attributeReference.valid => HoldsFor(c, clause)}
           k == FirstThatHolds(rules, c)
<1>1. k = IF I # {} THEN Min(I) ELSE 0
  BY DEF FirstThatHolds, SelectInSeq
<1>2. N \in Nat
  OBVIOUS
<1>3. \A i \in 1..N : i \in I <=> Applies(rules[i], c)
  <2> TAKE i \in 1..N
  <2>1. rules[i] \in BuiltRules
    BY ElementOfSeq
  <2>2. Applies(rules[i], c) <=> \A clause \in ToSet(rules[i].clauses) : HoldsIfValid(c, clause)
    BY <2>1, AppliesIfHolds
  <2> HIDE DEF rules, N
  <2> QED BY <2>2 DEF HoldsIfValid
<1>4. I \in SUBSET Nat /\ I \subseteq 1..N
  BY <1>2
<1> HIDE DEF I, k, N
<1>5. I # {} => Min(I) \in I /\ \A m \in I : Min(I) <= m
  BY <1>4, LeastNumber
<1>6. k \in 0..N /\ (k # 0 => k \in I) /\ (k = 0 => I = {}) /\ \A m \in I : k <= m
  <2>1. CASE I = {}
    BY <1>1, <1>2, <2>1
  <2>2. CASE I # {}
    <3>1. k \in I /\ k \in 1..N /\ \A m \in I : k <= m
      BY <1>1, <1>4, <1>5, <2>2
    <3> QED BY <1>2, <2>2, <3>1
  <2> QED BY <2>1, <2>2
<1>7. k # 0 => Applies(rules[k], c)
  BY <1>3, <1>4, <1>6
<1>8. \A n \in 1..N : n < k \/ k = 0 => ~Applies(rules[n], c)
  <2> TAKE n \in 1..N
  <2> HAVE n < k \/ k = 0
  <2>1. n \notin I
    BY <1>2, <1>6
  <2> HIDE DEF rules
  <2> QED BY <1>3, <2>1
<1> QED BY <1>6, <1>7, <1>8 DEF FirstApplies, k, N

(* The variation that is given.                                            *)
LEMMA VariationGiven ==
  ASSUME NEW flag, NEW i, NEW kind
  PROVE  GetVariation(flag, i, kind).variation = IF i \in 0..flag.variations - 1 THEN i ELSE NoVariation
BY DEF GetVariation, Success, Malformed, ForError

(* An index is not that there is none.                                     *)
LEMMA NotNone == \A n \in Nat : n # NoVariation
BY DEF NoVariation

ToldFor(told, c) ==
  {told[<<k, KeyOf(c, k)>>] : k \in {k \in Kinds(c) : <<k, KeyOf(c, k)>> \in TargetKey}} \ {NoVariation}

(* What was told of a context is the least variation of the targets that   *)
(* hit it.                                                                 *)
LEMMA ToldIfHit ==
  ASSUME NEW targets, DOMAIN targets \in SUBSET (Nat \X (STRING \ {""})), NEW heap, NEW told, Tells(told, Contents(targets, heap)), NEW c
  PROVE  /\ \A v \in ToldFor(told, c) : v \in Nat /\ \E t \in DOMAIN targets : t[1] = v /\ Hits(targets, heap, c, t)
         /\ \A t \in DOMAIN targets : Hits(targets, heap, c, t) => \E v \in ToldFor(told, c) : v <= t[1]
<1> DEFINE contents == Contents(targets, heap)
<1>1. DOMAIN contents = DOMAIN targets /\ \A t \in DOMAIN targets : contents[t] = heap[targets[t]]
  BY DEF Contents
<1>2. \A t \in DOMAIN targets : t[1] \in Nat
  OBVIOUS
<1> HIDE DEF contents
<1>3. /\ \A k \in TargetKey : LeastOf(told[k], Named(contents, k))
      /\ \A t \in DOMAIN contents : \A key \in contents[t] : <<t[2], key>> \in TargetKey
  BY DEF Tells, contents
<1>4. ASSUME NEW kind \in Kinds(c), <<kind, KeyOf(c, kind)>> \in TargetKey
      PROVE  \A t : t \in Named(contents, <<kind, KeyOf(c, kind)>>) <=> t \in DOMAIN targets /\ t[2] = kind /\ Hits(targets, heap, c, t)
  <2> DEFINE key == KeyOf(c, kind)
             k == <<kind, key>>
  <2>1. k[1] = kind /\ k[2] = key
    OBVIOUS
  <2> HIDE DEF k, key
  <2>2. \A t : t \in Named(contents, k) <=> t \in DOMAIN targets /\ t[2] = kind /\ key \in contents[t]
    BY <1>1, <2>1 DEF Named
  <2>3. \A t \in DOMAIN targets : t[2] = kind => (key \in contents[t] <=> Hits(targets, heap, c, t))
    BY <1>1 DEF Hits, HasKind, key
  <2>4. \A t : t \in Named(contents, k) <=> t \in DOMAIN targets /\ t[2] = kind /\ Hits(targets, heap, c, t)
    BY <2>2, <2>3
  <2> QED BY <2>4 DEF k, key
<1>5. ASSUME NEW v \in ToldFor(told, c)
      PROVE  v \in Nat /\ \E t \in DOMAIN targets : t[1] = v /\ Hits(targets, heap, c, t)
  <2>1. PICK kind \in Kinds(c) : <<kind, KeyOf(c, kind)>> \in TargetKey /\ v = told[<<kind, KeyOf(c, kind)>>]
    BY DEF ToldFor
  <2> DEFINE k == <<kind, KeyOf(c, kind)>>
  <2>2. LeastOf(v, Named(contents, k)) /\ v # NoVariation
    BY <1>3, <2>1 DEF ToldFor
  <2>3. PICK t \in Named(contents, k) : v = t[1]
    BY <2>2 DEF LeastOf
  <2>4. t \in DOMAIN targets /\ Hits(targets, heap, c, t)
    BY <1>4, <2>1, <2>3
  <2> QED BY <1>2, <2>3, <2>4
<1>6. ASSUME NEW t \in DOMAIN targets, Hits(targets, heap, c, t)
      PROVE  \E v \in ToldFor(told, c) : v <= t[1]
  <2> DEFINE kind == t[2]
             key == KeyOf(c, kind)
             k == <<kind, key>>
             v == told[k]
  <2>1. kind \in Kinds(c) /\ key \in contents[t]
    BY <1>1, <1>6 DEF Hits, HasKind
  <2>2. k \in TargetKey
    BY <1>1, <1>3, <2>1
  <2>3. t \in Named(contents, k)
    BY <1>4, <1>6, <2>1, <2>2
  <2>4. LeastOf(v, Named(contents, k))
    BY <1>3, <2>2
  <2>5. PICK u \in Named(contents, k) : v = u[1] /\ u[1] <= t[1]
    BY <2>3, <2>4 DEF LeastOf
  <2>6. u \in DOMAIN targets
    BY <1>1, <2>5 DEF Named
  <2>7. v \in Nat /\ v # NoVariation
    <3>1. v \in Nat
      BY <1>2, <2>5, <2>6
    <3> QED BY <3>1, NotNone
  <2>8. v \in ToldFor(told, c)
    BY <2>1, <2>2, <2>7 DEF ToldFor
  <2> QED BY <2>5, <2>8
<1> QED BY <1>5, <1>6

LeastTold(told, c) == CHOOSE v \in ToldFor(told, c) : \A w \in ToldFor(told, c) : v <= w

(* So the target that is found is the one of what was told.                *)
LEMMA TargetsAsTold ==
  ASSUME NEW flag, NEW targets, NEW heap, NEW c, Targeted(flag, targets, heap), NEW told, Tells(told, Contents(targets, heap))
  PROVE  EvalTargets(flag, c) = IF ToldFor(told, c) = {} THEN NoResult
                                ELSE GetVariation(flag, LeastTold(told, c), "TARGET_MATCH")
<1> DEFINE I == ToldFor(told, c)
           v == LeastTold(told, c)
<1>1. DOMAIN targets \in SUBSET (Nat \X (STRING \ {""}))
  BY TargetsToIs DEF Targeted
<1>2. /\ \A w \in I : w \in Nat /\ \E t \in DOMAIN targets : t[1] = w /\ Hits(targets, heap, c, t)
      /\ \A t \in DOMAIN targets : Hits(targets, heap, c, t) => \E w \in I : w <= t[1]
  BY <1>1, ToldIfHit
<1>3. v = CHOOSE w \in I : \A u \in I : w <= u
  BY DEF LeastTold
<1> HIDE DEF I, v
<1>4. CASE I = {}
  <2>1. \A t \in DOMAIN targets : ~Hits(targets, heap, c, t)
    BY <1>2, <1>4
  <2> QED BY <1>4, <2>1, TargetsAnswer DEF I
<1>5. CASE I # {}
  <2>1. I \in SUBSET Nat
    BY <1>2
  <2>2. Min(I) \in I /\ \A u \in I : Min(I) <= u
    BY <1>5, <2>1, LeastNumber
  <2>3. v \in I /\ \A u \in I : v <= u
    BY <1>3, <2>2
  <2>4. PICK t \in DOMAIN targets : t[1] = v /\ Hits(targets, heap, c, t)
    BY <1>2, <2>3
  <2>5. \A u \in DOMAIN targets : Hits(targets, heap, c, u) => t[1] <= u[1]
    <3> TAKE u \in DOMAIN targets
    <3> HAVE Hits(targets, heap, c, u)
    <3>1. PICK w \in I : w <= u[1]
      BY <1>2
    <3>2. v <= w /\ v \in Nat /\ w \in Nat
      BY <2>1, <2>3
    <3>3. u[1] \in Nat
      <4>1. u \in Nat \X (STRING \ {""})
        BY <1>1
      <4> QED BY <4>1
    <3> QED BY <2>4, <3>1, <3>2, <3>3
  <2>6. EvalTargets(flag, c) = GetVariation(flag, t[1], "TARGET_MATCH")
    BY <2>4, <2>5, TargetsAnswer
  <2> QED BY <1>5, <2>4, <2>6 DEF I, v
<1> QED BY <1>4, <1>5

ToldRule(rule) == IF Last(rule.clauses).attributeReference.valid THEN rule.variation ELSE NoVariation

(* What the application has told a builder of a context.                   *)
WasTold(b, c) ==
  IF ~b.on THEN b.off
  ELSE IF ToldFor(b.told, c) # {} THEN LeastTold(b.told, c)
  ELSE IF FirstThatHolds(b.rules, c) # 0 THEN ToldRule(b.rules[FirstThatHolds(b.rules, c)])
  ELSE b.fallthrough

IfThere(v, n) == IF v < n THEN v ELSE NoVariation

(* A flag that is built serves what was told, if it has such a variation.  *)
LEMMA ServedAsTold ==
  ASSUME NEW L \in Nat, NEW b \in BuildersOf(1..L), NEW heap, Tells(b.told, Contents(b.targets, heap)), NEW c \in Asked, c.valid
  PROVE  LET flag == Read(Build(b), heap) IN
         WhatIsServed(flag, c, FirstThatHolds(b.rules, c)).variation = IfThere(WasTold(b, c), Len(b.values))
<1> DEFINE flag == Read(Build(b), heap)
           k == FirstThatHolds(b.rules, c)
           N == Len(b.values)
           told == ToldFor(b.told, c)
<1>1. /\ Built(flag) /\ Targeted(flag, b.targets, heap)
      /\ flag.on = b.on /\ flag.rules = b.rules /\ flag.variations = N
      /\ flag.offVariation = b.off /\ flag.fallthrough.variation = b.fallthrough
  BY BuiltFlag
<1> HIDE DEF flag
<1>2. b.off \in Nat /\ b.fallthrough \in Nat /\ b.rules \in Seq(BuiltRules) /\ N \in Nat
  <2>1. b.off \in Nat /\ b.fallthrough \in Nat /\ b.rules \in Seq(BuiltRules) /\ b.values \in Seq(BOOLEAN) \cup Seq(Nat)
    BY DEF BuildersOf
  <2> QED BY <2>1
<1>3. FirstApplies(flag, c, k)
  BY <1>1, <1>2, FirstHolds
<1> HIDE DEF k, N
<1>4. \A i \in Nat : \A kind : GetVariation(flag, i, kind).variation = IfThere(i, N)
  <2> TAKE i \in Nat
  <2> TAKE kind
  <2>1. GetVariation(flag, i, kind).variation = IF i \in 0..N - 1 THEN i ELSE NoVariation
    BY <1>1, VariationGiven
  <2>2. i \in 0..N - 1 <=> i < N
    BY <1>2
  <2> QED BY <2>1, <2>2 DEF IfThere
<1>5. EvalTargets(flag, c) = IF told = {} THEN NoResult ELSE GetVariation(flag, LeastTold(b.told, c), "TARGET_MATCH")
  BY <1>1, TargetsAsTold
<1>6. told # {} => LeastTold(b.told, c) \in Nat
  <2>1. DOMAIN b.targets \in SUBSET (Nat \X (STRING \ {""}))
    BY <1>1, TargetsToIs DEF Targeted
  <2>2. \A v \in told : v \in Nat
    BY <2>1, ToldIfHit
  <2>3. LeastTold(b.told, c) = CHOOSE v \in told : \A w \in told : v <= w
    BY DEF LeastTold
  <2> HIDE DEF told
  <2>4. told \in SUBSET Nat
    BY <2>2
  <2>5. told # {} => Min(told) \in told /\ \A w \in told : Min(told) <= w
    BY <2>4, LeastNumber
  <2>6. told # {} => LeastTold(b.told, c) \in told
    BY <2>3, <2>5
  <2> QED BY <2>2, <2>6
<1>7. GetVariation(flag, LeastTold(b.told, c), "TARGET_MATCH") # NoResult
  <2>1. GetVariation(flag, LeastTold(b.told, c), "TARGET_MATCH").kind # "undecided"
    BY DEF GetVariation, Success, Malformed, ForError
  <2> QED BY <2>1 DEF NoResult
<1>8. k # 0 => RuleServes(flag, k, c).variation = IfThere(ToldRule(b.rules[k]), N)
  <2> SUFFICES ASSUME k # 0 PROVE RuleServes(flag, k, c).variation = IfThere(ToldRule(b.rules[k]), N)
    OBVIOUS
  <2> DEFINE rule == b.rules[k]
             r == GetVariation(flag, rule.variation, "RULE_MATCH")
             valid == Last(rule.clauses).attributeReference.valid
  <2>1. k \in 1..Len(b.rules)
    BY <1>1, <1>2, <1>3 DEF FirstApplies
  <2>2. rule.variation \in Nat
    BY <1>1, <2>1 DEF Built
  <2>3. RuleServes(flag, k, c) = IF valid THEN Numbered(r, k) ELSE Malformed
    BY <1>1 DEF RuleServes, Last
  <2>4. r.variation = IfThere(rule.variation, N)
    BY <1>4, <2>2
  <2>5. Numbered(r, k).variation = r.variation
    <3>1. r = Success("RULE_MATCH", rule.variation) \/ r = Malformed
      BY DEF GetVariation
    <3> HIDE DEF r
    <3> QED BY <3>1 DEF Numbered, Success, Malformed, ForError
  <2>6. ToldRule(rule) = IF valid THEN rule.variation ELSE NoVariation
    BY DEF ToldRule
  <2>7. Malformed.variation = NoVariation /\ IfThere(NoVariation, N) = NoVariation
    BY DEF Malformed, ForError, IfThere
  <2> HIDE DEF rule, r, valid
  <2>8. RuleServes(flag, k, c).variation = IfThere(ToldRule(rule), N)
    <3>1. CASE valid
      BY <2>3, <2>4, <2>5, <2>6, <3>1
    <3>2. CASE ~valid
      BY <2>3, <2>6, <2>7, <3>2
    <3> QED BY <3>1, <3>2
  <2> QED BY <2>8 DEF rule
<1>9. WasTold(b, c) = IF ~b.on THEN b.off ELSE IF told # {} THEN LeastTold(b.told, c)
                      ELSE IF k # 0 THEN ToldRule(b.rules[k]) ELSE b.fallthrough
  BY DEF WasTold, k
<1>10. WhatIsServed(flag, c, k) = IF ~b.on THEN GetVariation(flag, b.off, "OFF")
                            ELSE IF EvalTargets(flag, c) # NoResult THEN EvalTargets(flag, c)
                            ELSE IF k # 0 THEN RuleServes(flag, k, c) ELSE GetVariation(flag, b.fallthrough, "FALLTHROUGH")
  BY <1>1 DEF WhatIsServed
<1> HIDE DEF told
<1>11. WhatIsServed(flag, c, k).variation = IfThere(WasTold(b, c), N)
  <2>1. CASE ~b.on
    BY <1>2, <1>4, <1>9, <1>10, <2>1
  <2>2. CASE b.on /\ told # {}
    BY <1>4, <1>5, <1>6, <1>7, <1>9, <1>10, <2>2
  <2>3. CASE b.on /\ told = {} /\ k # 0
    BY <1>5, <1>8, <1>9, <1>10, <2>3
  <2>4. CASE b.on /\ told = {} /\ k = 0
    BY <1>2, <1>4, <1>5, <1>9, <1>10, <2>4
  <2> QED BY <2>1, <2>2, <2>3, <2>4
<1> QED BY <1>11 DEF flag, k, N

(* A rule has a condition, and the last is one of them.                    *)
LEMMA LastClause ==
  ASSUME NEW rule \in BuiltRules
  PROVE  Last(rule.clauses) \in ToSet(rule.clauses)
<1>1. PICK conditions \in Conditions : rule.clauses = Each(conditions, MatchOrNot)
  BY DEF BuiltRules
<1>2. conditions \in Seq(ToSet(conditions)) /\ conditions # <<>>
  BY TestDataAssumption
<1> DEFINE N == Len(conditions)
           clauses == rule.clauses
<1>3. N \in Nat /\ DOMAIN conditions = 1..N /\ N # 0
  BY <1>2
<1>4. clauses = [m \in 1..N |-> MatchOrNot(conditions[m])]
  BY <1>1, <1>3 DEF Each
<1> HIDE DEF N, clauses
<1>5. DOMAIN clauses = 1..N /\ Len(clauses) = N
  BY <1>3, <1>4
<1> QED BY <1>3, <1>5 DEF ToSet, Last, clauses

FirstAllMatch(rules, c) == SelectInSeq(rules, LAMBDA r : AllMatch(c, r))

(* No rule that is open comes before the first one that matches.           *)
NoneOpen(rules, c) ==
  \A n \in DOMAIN rules : IsOpen(c, rules[n]) => FirstAllMatch(rules, c) # 0 /\ ~(n < FirstAllMatch(rules, c))

(* Then the first rule that applies is the first that matches, and what it *)
(* serves is what it is to serve.                                          *)
LEMMA AppliesIfMatches ==
  ASSUME NEW rules \in Seq(BuiltRules), NEW c, NoneOpen(rules, c)
  PROVE  /\ FirstThatHolds(rules, c) = FirstAllMatch(rules, c)
         /\ FirstAllMatch(rules, c) # 0 =>
              ToldRule(rules[FirstAllMatch(rules, c)]) = rules[FirstAllMatch(rules, c)].variation
<1> DEFINE N == Len(rules)
           I == {i \in 1..N : \A clause \in ToSet(rules[i].clauses) : clause.attributeReference.valid => HoldsFor(c, clause)}
           J == {i \in 1..N : AllMatch(c, rules[i])}
           j == FirstAllMatch(rules, c)
<1>1. j = IF J # {} THEN Min(J) ELSE 0
  BY DEF FirstAllMatch, SelectInSeq
<1>2. FirstThatHolds(rules, c) = IF I # {} THEN Min(I) ELSE 0
  BY DEF FirstThatHolds, SelectInSeq
<1>3. N \in Nat /\ DOMAIN rules = 1..N
  OBVIOUS
<1>4. J \subseteq I
  BY DEF AllMatch
<1>5. \A n \in I : n \notin J => j # 0 /\ ~(n < j)
  <2> TAKE n \in I
  <2> HAVE n \notin J
  <2>1. IsOpen(c, rules[n])
    BY DEF IsOpen
  <2> QED BY <1>3, <2>1 DEF NoneOpen
<1>6. \A i \in J : \A clause \in ToSet(rules[i].clauses) : clause.attributeReference.valid
  BY DEF AllMatch
<1>7. I \in SUBSET Nat /\ J \in SUBSET Nat /\ I \subseteq 1..N /\ J \subseteq 1..N
  BY <1>3
<1> HIDE DEF I, J, j, N
<1>8. I # {} => Min(I) \in I /\ \A m \in I : Min(I) <= m
  BY <1>7, LeastNumber
<1>9. J # {} => Min(J) \in J /\ \A m \in J : Min(J) <= m
  BY <1>7, LeastNumber
<1>10. FirstThatHolds(rules, c) = j
  <2>1. CASE J = {}
    <3>1. I = {}
      BY <1>1, <1>5, <2>1
    <3> QED BY <1>1, <1>2, <2>1, <3>1
  <2>2. CASE J # {}
    <3>1. j \in J /\ j \in I /\ j \in Nat /\ \A m \in J : j <= m
      BY <1>1, <1>4, <1>7, <1>9, <2>2
    <3>2. Min(I) \in I /\ Min(I) <= j /\ Min(I) \in Nat
      BY <1>7, <1>8, <3>1
    <3>3. Min(I) = j
      <4>1. CASE Min(I) \in J
        BY <3>1, <3>2, <4>1
      <4>2. CASE Min(I) \notin J
        BY <1>5, <3>1, <3>2, <4>2
      <4> QED BY <4>1, <4>2
    <3> QED BY <1>2, <3>1, <3>3
  <2> QED BY <2>1, <2>2
<1>11. j # 0 => ToldRule(rules[j]) = rules[j].variation
  <2> SUFFICES ASSUME j # 0 PROVE ToldRule(rules[j]) = rules[j].variation
    OBVIOUS
  <2>1. j \in J /\ j \in 1..N
    BY <1>1, <1>7, <1>9
  <2>2. rules[j] \in BuiltRules
    BY <1>3, <2>1, ElementOfSeq DEF N
  <2>3. Last(rules[j].clauses) \in ToSet(rules[j].clauses)
    BY <2>2, LastClause
  <2>4. Last(rules[j].clauses).attributeReference.valid
    BY <1>6, <2>1, <2>3
  <2> QED BY <2>4 DEF ToldRule
<1> QED BY <1>10, <1>11 DEF j

Asserted(c) ==
  IF ~builder.on THEN builder.off
  ELSE IF ToldFor(builder.told, c) # {} THEN LeastTold(builder.told, c)
  ELSE IF FirstMatch(c) # 0 THEN builder.rules[FirstMatch(c)].variation
  ELSE builder.fallthrough

(* Whatever the calls of the builder were.                                 *)
LEMMA FlagsAreAsTold ==
  ASSUME TestsInv
  PROVE  TestFlagsAreAsTold
<1> DEFINE data == [i \in {TestFlag} |-> Read(Build(builder), lists)]
           flag == Read(Build(builder), lists)
<1>1. ASSUME builder # NoBuilder, NEW c \in Asked, c.valid
      PROVE  Evaluate(data, c, TestFlag).res.variation = IfThere(WasTold(builder, c), Len(builder.values))
  <2> DEFINE k == FirstThatHolds(builder.rules, c)
  <2>1. /\ Len(lists) \in Nat /\ builder \in BuildersOf(1..Len(lists))
        /\ Tells(builder.told, Contents(builder.targets, lists))
    BY <1>1 DEF TestsInv, BuilderInv, Lists
  <2>2. Built(flag) /\ flag.rules = builder.rules
    BY <2>1, BuiltFlag
  <2>3. flag.rules \in Seq(BuiltRules)
    <3>1. builder.rules \in Seq(BuiltRules)
      BY <2>1 DEF BuildersOf
    <3> HIDE DEF flag
    <3> QED BY <2>2, <3>1
  <2>4. FirstApplies(flag, c, k)
    <3> HIDE DEF flag
    <3> QED BY <1>1, <2>2, <2>3, FirstHolds
  <2>5. TestFlag \in DOMAIN data /\ data[TestFlag] = flag
    OBVIOUS
  <2>6. WhatIsServed(flag, c, k).variation = IfThere(WasTold(builder, c), Len(builder.values))
    BY <1>1, <2>1, ServedAsTold
  <2> HIDE DEF data, flag, k
  <2>7. Evaluate(data, c, TestFlag).res = WhatIsServed(flag, c, k)
    BY <2>2, <2>4, <2>5, BuiltAnswered
  <2> QED BY <2>6, <2>7
<1> HIDE DEF data
<1>2. ASSUME builder # NoBuilder, NEW c \in {c \in Asked : c.valid},
             builder.on /\ ToldFor(builder.told, c) = {} => ~ComesToOpen(c)
      PROVE  Evaluate(data, c, TestFlag).res.variation =
               IF Asserted(c) < Len(builder.values) THEN Asserted(c) ELSE NoVariation
  <2>1. Evaluate(data, c, TestFlag).res.variation = IfThere(WasTold(builder, c), Len(builder.values))
    BY <1>1, <1>2
  <2>2. FirstMatch(c) = FirstAllMatch(builder.rules, c)
    BY DEF FirstMatch, FirstAllMatch
  <2>3. WasTold(builder, c) = Asserted(c)
    <3>1. CASE ~builder.on \/ ToldFor(builder.told, c) # {}
      BY <3>1 DEF WasTold, Asserted
    <3>2. CASE builder.on /\ ToldFor(builder.told, c) = {}
      <4>1. NoneOpen(builder.rules, c)
        BY <1>2, <2>2, <3>2 DEF ComesToOpen, NoneOpen
      <4>2. builder.rules \in Seq(BuiltRules)
        BY <1>2 DEF TestsInv, BuilderInv, BuildersOf
      <4>3. /\ FirstThatHolds(builder.rules, c) = FirstMatch(c)
            /\ FirstMatch(c) # 0 => ToldRule(builder.rules[FirstMatch(c)]) = builder.rules[FirstMatch(c)].variation
        BY <2>2, <4>1, <4>2, AppliesIfMatches
      <4> QED BY <3>2, <4>3 DEF WasTold, Asserted
    <3> QED BY <3>1, <3>2
  <2> QED BY <2>1, <2>3 DEF IfThere
<1> QED BY <1>2 DEF TestFlagsAreAsTold, BuiltAsTold, data, Asserted, ToldFor, LeastTold

(* Whatever the calls of a builder and their order, a context gets the     *)
(* variation it was last named for; one that was not gets the one of the   *)
(* first rule all of whose clauses match, or the fallthrough, unless it    *)
(* comes to a rule before of which it is open whether it matches.          *)
THEOREM TestFlagsAreAsToldEver == Spec => []TestFlagsAreAsTold
<1>1. TestsInv => TestFlagsAreAsTold
  BY FlagsAreAsTold
<1> QED BY <1>1, TestsInvariance, PTL
=============================================================================
