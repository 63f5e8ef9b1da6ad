-------------------------- MODULE ExpressionProofs --------------------------
(***************************************************************************)
(* Proofs about Expression, for any literals, variables and values, for    *)
(* texts of any length and trees of any height: the converters keep the    *)
(* value of a tree, the tree of a text is written as the text, and the     *)
(* expansion of a tree is the text of an expression of the same value.     *)
(*                                                                         *)
(* What a function makes of a tree is defined by recursion over trees, so  *)
(* that the proofs are inductions: over the height of trees, or over a set *)
(* of trees that has a tree as soon as it has its parts.  First comes what *)
(* both rest on, and that each recursive function is what its definition   *)
(* says.  The parser is a recursive function of goals, and its proofs are  *)
(* inductions over their rank: it makes only trees that fit, and it finds  *)
(* each tree that fits in its text.  So it is enough that the expanded     *)
(* text is the text of some tree that fits and has the value.              *)
(***************************************************************************)
EXTENDS Expression, SequenceTheorems, WellFoundedInduction, TLAPS

(* A set of numbers has a least.                                           *)
LEMMA HasLeast ==
  ASSUME NEW S \in SUBSET Nat, S # {}
  PROVE  \E m \in S : \A j \in S : m <= j
<1>1. PICK i \in S : \A j \in S : ~(<<j, i>> \in OpToRel(<, Nat))
  BY NatLessThanWellFounded, WFMin
<1>2. \A j \in S : ~(j < i)
  BY <1>1 DEF OpToRel
<1>3. \A j \in S : i <= j
  BY <1>2
<1>4. QED BY <1>3

(* Induction over the numbers, with the set of those it holds of.          *)
LEMMA Every ==
  ASSUME NEW S, 0 \in S, \A n \in Nat : n \in S => n + 1 \in S
  PROVE  \A n \in Nat : n \in S
<1> DEFINE T == {n \in Nat : n \notin S}
<1>1. SUFFICES ASSUME T # {} PROVE FALSE
  OBVIOUS
<1>2. PICK m \in T : \A j \in T : m <= j
  <2>1. T \in SUBSET Nat
    OBVIOUS
  <2> HIDE DEF T
  <2>2. QED BY <1>1, <2>1, HasLeast
<1>3. m \in Nat /\ m # 0
  OBVIOUS
<1>4. m - 1 \in Nat /\ ~(m <= m - 1) /\ m - 1 + 1 = m
  BY <1>3
<1>5. m - 1 \in S
  BY <1>2, <1>4
<1>6. m \in S
  BY <1>4, <1>5
<1>7. QED BY <1>6

-----------------------------------------------------------------------------
(* The trees, height by height.                                            *)
LEMMA TreesToAre ==
  /\ TreesTo[0] = {}
  /\ \A n \in Nat : n + 1 <= MaxHeight => TreesTo[n + 1] = Made(TreesTo[n])
<1> DEFINE S == {k \in Nat : \E f :
                   f = [n \in 0 .. k |-> IF n = 0 THEN {} ELSE Made(f[n - 1])]}
<1>1. 0 \in S
  <2> DEFINE f == [n \in 0 .. 0 |-> {}]
  <2>1. f = [n \in 0 .. 0 |-> IF n = 0 THEN {} ELSE Made(f[n - 1])]
    OBVIOUS
  <2> HIDE DEF f
  <2>2. QED BY <2>1
<1>2. ASSUME NEW k \in Nat, k \in S PROVE k + 1 \in S
  <2>1. PICK f : f = [n \in 0 .. k |-> IF n = 0 THEN {} ELSE Made(f[n - 1])]
    BY <1>2
  <2> DEFINE h == [n \in 0 .. k + 1 |-> IF n = k + 1 THEN Made(f[n - 1]) ELSE f[n]]
  <2>2. ASSUME NEW n \in 0 .. k + 1
        PROVE  h[n] = IF n = 0 THEN {} ELSE Made(h[n - 1])
    <3>1. CASE n = k + 1
      <4>1. n # 0 /\ n - 1 \in 0 .. k + 1 /\ n - 1 # k + 1
        BY <3>1
      <4>2. h[n - 1] = f[n - 1] /\ h[n] = Made(f[n - 1])
        BY <3>1, <4>1
      <4>3. QED BY <4>1, <4>2
    <3>2. CASE n = 0
      BY <2>1, <3>2
    <3>3. CASE n # k + 1 /\ n # 0
      <4>1. n \in 0 .. k /\ n - 1 \in 0 .. k + 1 /\ n - 1 # k + 1
        BY <3>3
      <4>2. h[n - 1] = f[n - 1] /\ h[n] = f[n]
        BY <3>3, <4>1
      <4>3. f[n] = Made(f[n - 1])
        BY <2>1, <3>3, <4>1
      <4>4. QED BY <3>3, <4>2, <4>3
    <3>4. QED BY <3>1, <3>2, <3>3
  <2>3. h = [n \in 0 .. k + 1 |-> h[n]]
    OBVIOUS
  <2> HIDE DEF h
  <2>4. h = [n \in 0 .. k + 1 |-> IF n = 0 THEN {} ELSE Made(h[n - 1])]
    BY <2>2, <2>3
  <2>5. QED BY <2>4
<1>3. MaxHeight \in S
  <2> HIDE DEF S
  <2>1. QED BY <1>1, <1>2, Every, LanguageAssumption
<1>4. TreesTo = [n \in 0 .. MaxHeight |->
                   IF n = 0 THEN {} ELSE Made(TreesTo[n - 1])]
  <2>1. \E f : f = [n \in 0 .. MaxHeight |-> IF n = 0 THEN {} ELSE Made(f[n - 1])]
    BY <1>3
  <2>2. QED BY <2>1 DEF TreesTo
<1>5. TreesTo[0] = {}
  BY <1>4, LanguageAssumption
<1>6. ASSUME NEW n \in Nat, n + 1 <= MaxHeight
      PROVE  TreesTo[n + 1] = Made(TreesTo[n])
  <2>1. n + 1 \in 0 .. MaxHeight /\ n + 1 # 0 /\ (n + 1) - 1 = n
    BY <1>6, LanguageAssumption
  <2>2. QED BY <1>4, <2>1
<1>7. QED BY <1>5, <1>6

(* What a tree is made of.                                                 *)
LEMMA MadeOf ==
  ASSUME NEW T, NEW e
  PROVE  e \in Made(T) <=>
           /\ e = Node(e.kind, e.text, e.args)
           /\ e.kind \in DOMAIN Texts /\ e.text \in Texts[e.kind]
           /\ e.args \in Seq(T) /\ Len(e.args) \in Counts[e.kind]
BY DEF Made, Node

(* A tree up to a height is one up to any greater height.                  *)
LEMMA TreesGrow ==
  ASSUME NEW n \in Nat, n + 1 <= MaxHeight
  PROVE  TreesTo[n] \subseteq TreesTo[n + 1]
<1> DEFINE S == {k \in Nat : k + 1 <= MaxHeight => TreesTo[k] \subseteq TreesTo[k + 1]}
<1>1. 0 \in S
  BY TreesToAre
<1>2. ASSUME NEW k \in Nat, k \in S PROVE k + 1 \in S
  <2>1. SUFFICES ASSUME (k + 1) + 1 <= MaxHeight
                 PROVE  TreesTo[k + 1] \subseteq TreesTo[(k + 1) + 1]
    OBVIOUS
  <2>2. k + 1 \in Nat /\ k + 1 <= MaxHeight
    BY <2>1, LanguageAssumption
  <2>3. TreesTo[k] \subseteq TreesTo[k + 1]
    BY <1>2, <2>2
  <2>4. Made(TreesTo[k]) \subseteq Made(TreesTo[k + 1])
    <3>1. SUFFICES ASSUME NEW e \in Made(TreesTo[k])
                   PROVE  e \in Made(TreesTo[k + 1])
      OBVIOUS
    <3>2. e.args \in Seq(TreesTo[k + 1])
      BY <2>3, MadeOf
    <3>3. QED BY <3>2, MadeOf
  <2>5. TreesTo[k + 1] = Made(TreesTo[k])
    BY <2>2, TreesToAre
  <2>6. TreesTo[(k + 1) + 1] = Made(TreesTo[k + 1])
    BY <2>1, <2>2, TreesToAre
  <2>7. QED BY <2>4, <2>5, <2>6
<1>3. \A k \in Nat : k \in S
  <2> HIDE DEF S
  <2>1. QED BY <1>1, <1>2, Every
<1>4. QED BY <1>3

(* A tree up to a height is a tree.                                        *)
LEMMA TreesToIn ==
  ASSUME NEW n \in Nat, n <= MaxHeight
  PROVE  TreesTo[n] \subseteq Trees
<1> DEFINE S == {k \in Nat : k <= MaxHeight => TreesTo[MaxHeight - k] \subseteq Trees}
<1>1. 0 \in S
  BY LanguageAssumption DEF Trees
<1>2. ASSUME NEW k \in Nat, k \in S PROVE k + 1 \in S
  <2>1. SUFFICES ASSUME k + 1 <= MaxHeight
                 PROVE  TreesTo[MaxHeight - (k + 1)] \subseteq Trees
    OBVIOUS
  <2>2. /\ MaxHeight - (k + 1) \in Nat /\ (MaxHeight - (k + 1)) + 1 = MaxHeight - k
        /\ (MaxHeight - (k + 1)) + 1 <= MaxHeight /\ k <= MaxHeight
    BY <2>1, LanguageAssumption
  <2>3. TreesTo[MaxHeight - k] \subseteq Trees
    BY <1>2, <2>2
  <2>4. TreesTo[MaxHeight - (k + 1)] \subseteq TreesTo[(MaxHeight - (k + 1)) + 1]
    BY <2>2, TreesGrow
  <2>5. QED BY <2>2, <2>3, <2>4
<1>3. \A k \in Nat : k \in S
  <2> HIDE DEF S
  <2>1. QED BY <1>1, <1>2, Every
<1>4. MaxHeight - n \in Nat /\ MaxHeight - n <= MaxHeight /\ MaxHeight - (MaxHeight - n) = n
  BY LanguageAssumption
<1>5. TreesTo[MaxHeight - (MaxHeight - n)] \subseteq Trees
  BY <1>3, <1>4
<1>6. QED BY <1>4, <1>5

(* A set of trees that has a tree as soon as it has its parts has all.     *)
LEMMA TreeInduction ==
  ASSUME NEW S,
         \A e \in Trees : (\A i \in DOMAIN e.args : e.args[i] \in S) => e \in S
  PROVE  Trees \subseteq S
<1> DEFINE K == {k \in Nat : k <= MaxHeight => TreesTo[k] \subseteq S}
<1>1. 0 \in K
  BY TreesToAre
<1>2. ASSUME NEW k \in Nat, k \in K PROVE k + 1 \in K
  <2>1. SUFFICES ASSUME k + 1 <= MaxHeight, NEW e \in TreesTo[k + 1] PROVE e \in S
    OBVIOUS
  <2>2. TreesTo[k] \subseteq S
    BY <1>2, <2>1, LanguageAssumption
  <2>3. e.args \in Seq(TreesTo[k])
    BY <2>1, TreesToAre, MadeOf
  <2>4. \A i \in DOMAIN e.args : e.args[i] \in S
    BY <2>2, <2>3
  <2>5. e \in Trees
    BY <2>1, TreesToIn
  <2>6. QED BY <2>4, <2>5
<1>3. \A k \in Nat : k \in K
  <2> HIDE DEF K
  <2>1. QED BY <1>1, <1>2, Every
<1>4. QED BY <1>3, LanguageAssumption DEF Trees

(* Parts of trees are trees.                                               *)
LEMMA TreesAre ==
  ASSUME NEW e \in Trees
  PROVE  /\ e = Node(e.kind, e.text, e.args)
         /\ e.kind \in DOMAIN Texts /\ e.text \in Texts[e.kind]
         /\ e.args \in Seq(Trees) /\ Len(e.args) \in Counts[e.kind]
         /\ Len(e.args) \in Nat /\ DOMAIN e.args = 1 .. Len(e.args)
         /\ \A i \in DOMAIN e.args : e.args[i] \in Trees
         /\ MaxHeight - 1 \in Nat /\ (MaxHeight - 1) + 1 = MaxHeight
<1>1. MaxHeight # 0
  BY TreesToAre DEF Trees
<1>2. MaxHeight - 1 \in Nat /\ (MaxHeight - 1) + 1 = MaxHeight
  BY <1>1, LanguageAssumption
<1>3. TreesTo[MaxHeight] = Made(TreesTo[MaxHeight - 1])
  <2>1. (MaxHeight - 1) + 1 <= MaxHeight
    BY <1>2, LanguageAssumption
  <2>2. TreesTo[(MaxHeight - 1) + 1] = Made(TreesTo[MaxHeight - 1])
    BY <1>2, <2>1, TreesToAre
  <2>3. QED BY <1>2, <2>2
<1>4. TreesTo[MaxHeight - 1] \subseteq TreesTo[MaxHeight]
  <2>1. (MaxHeight - 1) + 1 <= MaxHeight
    BY <1>2, LanguageAssumption
  <2>2. TreesTo[MaxHeight - 1] \subseteq TreesTo[(MaxHeight - 1) + 1]
    BY <1>2, <2>1, TreesGrow
  <2>3. QED BY <1>2, <2>2
<1>5. e \in Made(TreesTo[MaxHeight - 1])
  BY <1>3 DEF Trees
<1>6. /\ e = Node(e.kind, e.text, e.args)
      /\ e.kind \in DOMAIN Texts /\ e.text \in Texts[e.kind]
      /\ e.args \in Seq(TreesTo[MaxHeight - 1]) /\ Len(e.args) \in Counts[e.kind]
  BY <1>5, MadeOf
<1>7. e.args \in Seq(Trees)
  BY <1>4, <1>6 DEF Trees
<1>8. /\ Len(e.args) \in Nat /\ DOMAIN e.args = 1 .. Len(e.args)
      /\ \A i \in DOMAIN e.args : e.args[i] \in Trees
  BY <1>7
<1>9. QED BY <1>2, <1>6, <1>7, <1>8

(* Value of a tree is made of Value of its parts.                          *)
LEMMA ValueIs ==
  \A e \in Trees : Value[e] = ValueOf(e, OfParts(Value, e))
<1> DEFINE Is(f, n) == f = [e \in TreesTo[n] |-> ValueOf(e, OfParts(f, e))]
           S == {n \in Nat : n <= MaxHeight => \E f : Is(f, n)}
<1>1. 0 \in S
  <2> DEFINE f == [e \in {} |-> 0]
  <2>1. Is(f, 0)
    BY TreesToAre
  <2>2. QED BY <2>1
<1>2. ASSUME NEW n \in Nat, n \in S PROVE n + 1 \in S
  <2>1. SUFFICES ASSUME n + 1 <= MaxHeight PROVE \E g : Is(g, n + 1)
    OBVIOUS
  <2>2. PICK f : Is(f, n)
    BY <1>2, <2>1, LanguageAssumption
  <2> DEFINE g == [e \in TreesTo[n + 1] |-> ValueOf(e, OfParts(f, e))]
  <2>3. \A e \in TreesTo[n] : g[e] = f[e]
    BY <2>1, <2>2, TreesGrow
  <2>4. ASSUME NEW e \in TreesTo[n + 1] PROVE OfParts(f, e) = OfParts(g, e)
    <3>1. \A i \in DOMAIN e.args : e.args[i] \in TreesTo[n]
      BY <2>1, TreesToAre, MadeOf
    <3> HIDE DEF g
    <3>2. \A i \in DOMAIN e.args : f[e.args[i]] = g[e.args[i]]
      BY <2>3, <3>1
    <3>3. QED BY <3>2 DEF OfParts
  <2>5. g = [e \in TreesTo[n + 1] |-> g[e]]
    OBVIOUS
  <2>6. \A e \in TreesTo[n + 1] : g[e] = ValueOf(e, OfParts(f, e))
    OBVIOUS
  <2> HIDE DEF g
  <2>7. \A e \in TreesTo[n + 1] : g[e] = ValueOf(e, OfParts(g, e))
    BY <2>4, <2>6
  <2>8. Is(g, n + 1)
    BY <2>5, <2>7
  <2>9. QED BY <2>8
<1>3. \A n \in Nat : n \in S
  <2> HIDE DEF S
  <2>1. QED BY <1>1, <1>2, Every
<1>4. \E f : Is(f, MaxHeight)
  BY <1>3, LanguageAssumption
<1>5. Value = [e \in Trees |-> ValueOf(e, OfParts(Value, e))]
  <2>1. \E f : f = [e \in Trees |-> ValueOf(e, OfParts(f, e))]
    BY <1>4 DEF Trees
  <2>2. QED BY <2>1 DEF Value
<1>6. QED BY <1>5

(* Extractable of a tree is made of Extractable of its parts.              *)
LEMMA ExtractableIs ==
  \A e \in Trees : Extractable[e] = ExtractableOf(e, OfParts(Extractable, e))
<1> DEFINE Is(f, n) == f = [e \in TreesTo[n] |-> ExtractableOf(e, OfParts(f, e))]
           S == {n \in Nat : n <= MaxHeight => \E f : Is(f, n)}
<1>1. 0 \in S
  <2> DEFINE f == [e \in {} |-> 0]
  <2>1. Is(f, 0)
    BY TreesToAre
  <2>2. QED BY <2>1
<1>2. ASSUME NEW n \in Nat, n \in S PROVE n + 1 \in S
  <2>1. SUFFICES ASSUME n + 1 <= MaxHeight PROVE \E g : Is(g, n + 1)
    OBVIOUS
  <2>2. PICK f : Is(f, n)
    BY <1>2, <2>1, LanguageAssumption
  <2> DEFINE g == [e \in TreesTo[n + 1] |-> ExtractableOf(e, OfParts(f, e))]
  <2>3. \A e \in TreesTo[n] : g[e] = f[e]
    BY <2>1, <2>2, TreesGrow
  <2>4. ASSUME NEW e \in TreesTo[n + 1] PROVE OfParts(f, e) = OfParts(g, e)
    <3>1. \A i \in DOMAIN e.args : e.args[i] \in TreesTo[n]
      BY <2>1, TreesToAre, MadeOf
    <3> HIDE DEF g
    <3>2. \A i \in DOMAIN e.args : f[e.args[i]] = g[e.args[i]]
      BY <2>3, <3>1
    <3>3. QED BY <3>2 DEF OfParts
  <2>5. g = [e \in TreesTo[n + 1] |-> g[e]]
    OBVIOUS
  <2>6. \A e \in TreesTo[n + 1] : g[e] = ExtractableOf(e, OfParts(f, e))
    OBVIOUS
  <2> HIDE DEF g
  <2>7. \A e \in TreesTo[n + 1] : g[e] = ExtractableOf(e, OfParts(g, e))
    BY <2>4, <2>6
  <2>8. Is(g, n + 1)
    BY <2>5, <2>7
  <2>9. QED BY <2>8
<1>3. \A n \in Nat : n \in S
  <2> HIDE DEF S
  <2>1. QED BY <1>1, <1>2, Every
<1>4. \E f : Is(f, MaxHeight)
  BY <1>3, LanguageAssumption
<1>5. Extractable = [e \in Trees |-> ExtractableOf(e, OfParts(Extractable, e))]
  <2>1. \E f : f = [e \in Trees |-> ExtractableOf(e, OfParts(f, e))]
    BY <1>4 DEF Trees
  <2>2. QED BY <2>1 DEF Extractable
<1>6. QED BY <1>5

(* Extract of a tree is made of Extract of its parts.                      *)
LEMMA ExtractIs ==
  \A e \in Trees : Extract[e] = ExtractOf(e, OfParts(Extract, e))
<1> DEFINE Is(f, n) == f = [e \in TreesTo[n] |-> ExtractOf(e, OfParts(f, e))]
           S == {n \in Nat : n <= MaxHeight => \E f : Is(f, n)}
<1>1. 0 \in S
  <2> DEFINE f == [e \in {} |-> 0]
  <2>1. Is(f, 0)
    BY TreesToAre
  <2>2. QED BY <2>1
<1>2. ASSUME NEW n \in Nat, n \in S PROVE n + 1 \in S
  <2>1. SUFFICES ASSUME n + 1 <= MaxHeight PROVE \E g : Is(g, n + 1)
    OBVIOUS
  <2>2. PICK f : Is(f, n)
    BY <1>2, <2>1, LanguageAssumption
  <2> DEFINE g == [e \in TreesTo[n + 1] |-> ExtractOf(e, OfParts(f, e))]
  <2>3. \A e \in TreesTo[n] : g[e] = f[e]
    BY <2>1, <2>2, TreesGrow
  <2>4. ASSUME NEW e \in TreesTo[n + 1] PROVE OfParts(f, e) = OfParts(g, e)
    <3>1. \A i \in DOMAIN e.args : e.args[i] \in TreesTo[n]
      BY <2>1, TreesToAre, MadeOf
    <3> HIDE DEF g
    <3>2. \A i \in DOMAIN e.args : f[e.args[i]] = g[e.args[i]]
      BY <2>3, <3>1
    <3>3. QED BY <3>2 DEF OfParts
  <2>5. g = [e \in TreesTo[n + 1] |-> g[e]]
    OBVIOUS
  <2>6. \A e \in TreesTo[n + 1] : g[e] = ExtractOf(e, OfParts(f, e))
    OBVIOUS
  <2> HIDE DEF g
  <2>7. \A e \in TreesTo[n + 1] : g[e] = ExtractOf(e, OfParts(g, e))
    BY <2>4, <2>6
  <2>8. Is(g, n + 1)
    BY <2>5, <2>7
  <2>9. QED BY <2>8
<1>3. \A n \in Nat : n \in S
  <2> HIDE DEF S
  <2>1. QED BY <1>1, <1>2, Every
<1>4. \E f : Is(f, MaxHeight)
  BY <1>3, LanguageAssumption
<1>5. Extract = [e \in Trees |-> ExtractOf(e, OfParts(Extract, e))]
  <2>1. \E f : f = [e \in Trees |-> ExtractOf(e, OfParts(f, e))]
    BY <1>4 DEF Trees
  <2>2. QED BY <2>1 DEF Extract
<1>6. QED BY <1>5

(* AddParentheses of a tree is made of AddParentheses of its parts.        *)
LEMMA AddParenthesesIs ==
  \A e \in Trees : AddParentheses[e] = AddOf(e, OfParts(AddParentheses, e))
<1> DEFINE Is(f, n) == f = [e \in TreesTo[n] |-> AddOf(e, OfParts(f, e))]
           S == {n \in Nat : n <= MaxHeight => \E f : Is(f, n)}
<1>1. 0 \in S
  <2> DEFINE f == [e \in {} |-> 0]
  <2>1. Is(f, 0)
    BY TreesToAre
  <2>2. QED BY <2>1
<1>2. ASSUME NEW n \in Nat, n \in S PROVE n + 1 \in S
  <2>1. SUFFICES ASSUME n + 1 <= MaxHeight PROVE \E g : Is(g, n + 1)
    OBVIOUS
  <2>2. PICK f : Is(f, n)
    BY <1>2, <2>1, LanguageAssumption
  <2> DEFINE g == [e \in TreesTo[n + 1] |-> AddOf(e, OfParts(f, e))]
  <2>3. \A e \in TreesTo[n] : g[e] = f[e]
    BY <2>1, <2>2, TreesGrow
  <2>4. ASSUME NEW e \in TreesTo[n + 1] PROVE OfParts(f, e) = OfParts(g, e)
    <3>1. \A i \in DOMAIN e.args : e.args[i] \in TreesTo[n]
      BY <2>1, TreesToAre, MadeOf
    <3> HIDE DEF g
    <3>2. \A i \in DOMAIN e.args : f[e.args[i]] = g[e.args[i]]
      BY <2>3, <3>1
    <3>3. QED BY <3>2 DEF OfParts
  <2>5. g = [e \in TreesTo[n + 1] |-> g[e]]
    OBVIOUS
  <2>6. \A e \in TreesTo[n + 1] : g[e] = AddOf(e, OfParts(f, e))
    OBVIOUS
  <2> HIDE DEF g
  <2>7. \A e \in TreesTo[n + 1] : g[e] = AddOf(e, OfParts(g, e))
    BY <2>4, <2>6
  <2>8. Is(g, n + 1)
    BY <2>5, <2>7
  <2>9. QED BY <2>8
<1>3. \A n \in Nat : n \in S
  <2> HIDE DEF S
  <2>1. QED BY <1>1, <1>2, Every
<1>4. \E f : Is(f, MaxHeight)
  BY <1>3, LanguageAssumption
<1>5. AddParentheses = [e \in Trees |-> AddOf(e, OfParts(AddParentheses, e))]
  <2>1. \E f : f = [e \in Trees |-> AddOf(e, OfParts(f, e))]
    BY <1>4 DEF Trees
  <2>2. QED BY <2>1 DEF AddParentheses
<1>6. QED BY <1>5

-----------------------------------------------------------------------------
(* What is computed step by step, each time from what there was before.    *)
Steps(N, D, base, G) ==
  \E f \in [0 .. N -> D] :
    f = [n \in 0 .. N |-> IF n = 0 THEN base ELSE G[<<n, f[n - 1]>>]]

(* There is such a thing, for whatever G makes of a step.                  *)
LEMMA StepByStep ==
  ASSUME NEW N \in Nat, NEW D, NEW base \in D, NEW G \in [(1 .. N) \X D -> D]
  PROVE  Steps(N, D, base, G)
<1> DEFINE Is(f, k) == f = [n \in 0 .. k |-> IF n = 0 THEN base ELSE G[<<n, f[n - 1]>>]]
           S == {k \in Nat : k <= N => \E f \in [0 .. k -> D] : Is(f, k)}
<1>1. 0 \in S
  <2> DEFINE f == [n \in 0 .. 0 |-> base]
  <2>1. f \in [0 .. 0 -> D] /\ Is(f, 0)
    OBVIOUS
  <2>2. QED BY <2>1
<1>2. ASSUME NEW k \in Nat, k \in S PROVE k + 1 \in S
  <2>1. SUFFICES ASSUME k + 1 <= N PROVE \E h \in [0 .. k + 1 -> D] : Is(h, k + 1)
    OBVIOUS
  <2>2. PICK f \in [0 .. k -> D] : Is(f, k)
    BY <1>2, <2>1
  <2> DEFINE h == [n \in 0 .. k + 1 |-> IF n = k + 1 THEN G[<<n, f[k]>>] ELSE f[n]]
  <2>3. k \in 0 .. k /\ k + 1 \in 1 .. N /\ k + 1 \in 0 .. k + 1 /\ k \in 0 .. k + 1
        /\ k # k + 1
    BY <2>1
  <2>4. G[<<k + 1, f[k]>>] \in D
    BY <2>2, <2>3
  <2>5. h \in [0 .. k + 1 -> D]
    <3>1. \A n \in 0 .. k + 1 : n = k + 1 \/ n \in 0 .. k
      OBVIOUS
    <3>2. \A n \in 0 .. k + 1 : h[n] \in D
      BY <2>2, <2>4, <3>1
    <3>3. QED BY <3>2
  <2>6. ASSUME NEW n \in 0 .. k + 1
        PROVE  h[n] = IF n = 0 THEN base ELSE G[<<n, h[n - 1]>>]
    <3>1. CASE n = k + 1
      <4>1. n # 0 /\ n - 1 = k
        BY <3>1
      <4>2. h[n - 1] = f[k] /\ h[n] = G[<<n, f[k]>>]
        BY <2>3, <3>1, <4>1
      <4>3. QED BY <4>1, <4>2
    <3>2. CASE n = 0
      <4>1. n \in 0 .. k /\ n # k + 1
        BY <3>2
      <4>2. QED BY <2>2, <3>2, <4>1
    <3>3. CASE n # k + 1 /\ n # 0
      <4>1. n \in 0 .. k /\ n - 1 \in 0 .. k + 1 /\ n - 1 # k + 1
        BY <3>3
      <4>2. h[n - 1] = f[n - 1] /\ h[n] = f[n]
        BY <3>3, <4>1
      <4>3. f[n] = G[<<n, f[n - 1]>>]
        BY <2>2, <3>3, <4>1
      <4>4. QED BY <3>3, <4>2, <4>3
    <3>4. QED BY <3>1, <3>2, <3>3
  <2> HIDE DEF h
  <2>7. Is(h, k + 1)
    BY <2>5, <2>6
  <2>8. QED BY <2>5, <2>7
<1>3. \A k \in Nat : k \in S
  <2> HIDE DEF S
  <2>1. QED BY <1>1, <1>2, Every
<1>4. QED BY <1>3 DEF Steps

(* The denominator of a product.                                           *)
LEMMA Products ==
  ASSUME NEW x \in Nat, NEW y \in Nat
  PROVE  x * y \in Nat
OBVIOUS

(* A quotient is a double.                                                 *)
LEMMA QuotientGives ==
  ASSUME NEW n \in Int, NEW d \in Nat
  PROVE  Quotient(n, d) \in Doubles
<1>1. CASE d = 0
  <2>1. PICK s \in {-1, 0, 1} : s = IF n > 0 THEN 1 ELSE IF n < 0 THEN -1 ELSE 0
    OBVIOUS
  <2>2. Quotient(n, d) = <<s, 0>>
    BY <1>1, <2>1 DEF Quotient
  <2>3. <<s, 0>> \in Doubles
    BY DEF Doubles
  <2>4. QED BY <2>2, <2>3
<1>2. CASE d # 0
  <2>1. Quotient(n, d) = <<n, d>> /\ <<n, d>>[2] = d
    BY <1>2 DEF Quotient
  <2>2. <<n, d>> \in Int \X Nat
    OBVIOUS
  <2>3. QED BY <1>2, <2>1, <2>2 DEF Doubles
<1>3. QED BY <1>1, <1>2

(* What a double is.                                                       *)
LEMMA DoubleIs ==
  ASSUME NEW x \in Doubles
  PROVE  /\ x = <<x[1], x[2]>> /\ x[1] \in Int /\ x[2] \in Nat
         /\ x[2] = 0 => x[1] \in {-1, 0, 1}
BY DEF Doubles

(* The operators give doubles.                                             *)
LEMMA OperatorsGive ==
  ASSUME NEW x \in Doubles, NEW y \in Doubles
  PROVE  /\ Add(x, y) \in Doubles /\ Multiply(x, y) \in Doubles
         /\ Negative(x) \in Doubles /\ Reciprocal(x) \in Doubles
         /\ NaN \in Doubles /\ True \in Doubles /\ <<0, 1>> \in Doubles
<1>1. PICK a \in Int, b \in Nat : x[1] = a /\ x[2] = b
  BY DoubleIs
<1>2. PICK c \in Int, d \in Nat : y[1] = c /\ y[2] = d
  BY DoubleIs
<1>3. b * d \in Nat
  BY Products
<1>4. a * d + c * b \in Int /\ a * c \in Int
  OBVIOUS
<1>5. Quotient(a * d + c * b, b * d) \in Doubles /\ Quotient(a * c, b * d) \in Doubles
  BY <1>3, <1>4, QuotientGives
<1>6. NaN \in Doubles /\ True \in Doubles /\ <<0, 1>> \in Doubles
  BY DEF Doubles, NaN, True
<1>7. Add(x, y) \in Doubles
  BY <1>1, <1>2, <1>5, <1>6 DEF Add
<1>8. Multiply(x, y) \in Doubles
  BY <1>1, <1>2, <1>5 DEF Multiply
<1>9. Negative(x) \in Doubles
  <2>1. Negative(x) = <<-a, b>> /\ (b = 0 => a \in {-1, 0, 1})
    BY <1>1, DoubleIs DEF Negative
  <2>2. -a \in Int /\ (b = 0 => -a \in {-1, 0, 1})
    BY <2>1
  <2>3. QED BY <2>1, <2>2 DEF Doubles
<1>10. Reciprocal(x) \in Doubles
  <2>1. CASE a < 0
    <3>1. -b \in Int /\ -a \in Nat
      BY <2>1
    <3>2. Quotient(-b, -a) \in Doubles
      BY <3>1, QuotientGives
    <3>3. QED BY <1>1, <2>1, <3>2 DEF Reciprocal
  <2>2. CASE ~(a < 0)
    <3>1. b \in Int /\ a \in Nat
      BY <2>2
    <3>2. Quotient(b, a) \in Doubles
      BY <3>1, QuotientGives
    <3>3. QED BY <1>1, <2>2, <3>2 DEF Reciprocal
  <2>3. QED BY <2>1, <2>2
<1>11. QED BY <1>6, <1>7, <1>8, <1>9, <1>10

(* Unary and binary nodes have doubles for values.                         *)
LEMMA NodesGive ==
  ASSUME NEW x \in Doubles, NEW y \in Doubles
  PROVE  /\ \A o \in PrefixOperators : Unary(o, x) \in Doubles
         /\ \A o \in BinaryOperators : Binary(o, x, y) \in Doubles
<1>1. \A b \in BOOLEAN : Truth(b) \in Doubles
  BY OperatorsGive DEF Truth, False
<1>2. \A c : Truth(c) \in Doubles
  BY OperatorsGive DEF Truth, False
<1>3. \A o : Comparator(o, x, y) \in Doubles
  BY <1>2 DEF Comparator
<1>4. \A o : Bool(o, x, y) \in Doubles
  BY <1>2 DEF Bool
<1>5. \A o \in PrefixOperators : Unary(o, x) \in Doubles
  BY <1>2, OperatorsGive DEF Unary
<1>6. ASSUME NEW o \in BinaryOperators PROVE Binary(o, x, y) \in Doubles
  <2>1. CASE o \in {"*", "/", "+", "-"}
    <3>1. Level(o) \in {60, 70}
      BY <2>1 DEF Level
    <3>2. Reciprocal(y) \in Doubles /\ Negative(y) \in Doubles
      BY OperatorsGive
    <3>3. /\ Add(x, y) \in Doubles /\ Add(x, Negative(y)) \in Doubles
          /\ Multiply(x, y) \in Doubles /\ Multiply(x, Reciprocal(y)) \in Doubles
          /\ NaN \in Doubles
      BY <3>2, OperatorsGive
    <3>4. Calculator(o, x, y) \in Doubles
      BY <2>1, <3>3 DEF Calculator
    <3>5. QED BY <3>1, <3>4 DEF Binary
  <2>2. CASE o \in {">", "<", ">=", "<=", "==", "!="}
    <3>1. Level(o) \in {40, 50}
      BY <2>2 DEF Level
    <3>2. QED BY <1>3, <3>1 DEF Binary
  <2>3. CASE o \in {"&&", "||"}
    <3>1. Level(o) \in {20, 30}
      BY <2>3 DEF Level
    <3>2. QED BY <1>4, <3>1 DEF Binary
  <2>4. QED BY <1>6, <2>1, <2>2, <2>3 DEF BinaryOperators
<1>7. QED BY <1>5, <1>6

(* A sum is added up one by one.                                           *)
LEMMA SumIs ==
  ASSUME NEW xs \in Seq(Doubles)
  PROVE  \E f \in [0 .. Len(xs) -> Doubles] :
           /\ f[0] = <<0, 1>> /\ SumOf(xs) = f[Len(xs)]
           /\ \A n \in 1 .. Len(xs) : f[n] = Add(f[n - 1], xs[n])
<1> DEFINE N == Len(xs)
           G == [p \in (1 .. N) \X Doubles |-> Add(p[2], xs[p[1]])]
           Is(f) == f = [n \in 0 .. N |-> IF n = 0 THEN <<0, 1>> ELSE Add(f[n - 1], xs[n])]
           upTo == CHOOSE f : Is(f)
<1>1. N \in Nat /\ \A i \in 1 .. N : xs[i] \in Doubles
  OBVIOUS
<1>2. \A n \in 1 .. N, x \in Doubles : G[<<n, x>>] = Add(x, xs[n]) /\ Add(x, xs[n]) \in Doubles
  BY <1>1, OperatorsGive
<1>3. G \in [(1 .. N) \X Doubles -> Doubles]
  BY <1>1, OperatorsGive
<1>4. <<0, 1>> \in Doubles
  BY DEF Doubles
<1> HIDE DEF N, G
<1>5. PICK f \in [0 .. N -> Doubles] :
        f = [n \in 0 .. N |-> IF n = 0 THEN <<0, 1>> ELSE G[<<n, f[n - 1]>>]]
  <2>1. Steps(N, Doubles, <<0, 1>>, G)
    BY <1>1, <1>3, <1>4, StepByStep
  <2>2. QED BY <2>1 DEF Steps
<1>6. ASSUME NEW n \in 0 .. N PROVE f[n] = IF n = 0 THEN <<0, 1>> ELSE Add(f[n - 1], xs[n])
  <2>1. CASE n = 0
    BY <1>5, <2>1
  <2>2. CASE n # 0
    <3>1. n \in 1 .. N /\ n - 1 \in 0 .. N
      BY <1>1, <2>2
    <3>2. f[n - 1] \in Doubles
      BY <3>1
    <3>3. f[n] = G[<<n, f[n - 1]>>]
      BY <1>5, <2>2
    <3>4. QED BY <1>2, <2>2, <3>1, <3>2, <3>3
  <2>3. QED BY <2>1, <2>2
<1>7. Is(f)
  BY <1>6
<1>8. Is(upTo)
  BY <1>7
<1> HIDE DEF upTo
<1> DEFINE S == {n \in Nat : n <= N => upTo[n] \in Doubles}
<1>9. 0 \in S
  BY <1>1, <1>4, <1>8
<1>10. ASSUME NEW n \in Nat, n \in S PROVE n + 1 \in S
  <2>1. SUFFICES ASSUME n + 1 <= N PROVE upTo[n + 1] \in Doubles
    OBVIOUS
  <2>2. n + 1 \in 0 .. N /\ n + 1 # 0 /\ (n + 1) - 1 = n /\ n + 1 \in 1 .. N /\ n <= N
    BY <1>1, <2>1
  <2>3. upTo[n] \in Doubles
    BY <1>10, <2>2
  <2>4. upTo[n + 1] = Add(upTo[n], xs[n + 1])
    BY <1>8, <2>2
  <2>5. QED BY <1>2, <2>2, <2>3, <2>4
<1>11. \A n \in Nat : n \in S
  <2> HIDE DEF S
  <2>1. QED BY <1>9, <1>10, Every
<1>12. SumOf(xs) = upTo[N]
  BY DEF SumOf, upTo, N
<1>13. upTo = [n \in 0 .. N |-> IF n = 0 THEN <<0, 1>> ELSE Add(upTo[n - 1], xs[n])]
  BY <1>8
<1>14. \A n \in 0 .. N : upTo[n] \in Doubles
  BY <1>1, <1>11
<1>15. upTo \in [0 .. N -> Doubles]
  BY <1>13, <1>14
<1>16. upTo[0] = <<0, 1>> /\ \A n \in 1 .. N : upTo[n] = Add(upTo[n - 1], xs[n])
  <2>1. 0 \in 0 .. N /\ \A n \in 1 .. N : n \in 0 .. N /\ n # 0
    BY <1>1
  <2>2. QED BY <1>13, <2>1
<1>17. QED BY <1>12, <1>15, <1>16 DEF N

(* So it is a double.                                                      *)
LEMMA SumsGive ==
  ASSUME NEW xs \in Seq(Doubles)
  PROVE  SumOf(xs) \in Doubles
BY SumIs

(* max picks one of its arguments or none.                                 *)
LEMMA MaxPicks ==
  ASSUME NEW xs, Len(xs) \in Nat
  PROVE  MaxOf(xs) \in 0 .. Len(xs)
<1> DEFINE N == Len(xs)
           Next1(n, m) == IF Test(xs[n]) /\ (m = 0 \/ Greater(xs[n], xs[m])) THEN n ELSE m
           G == [p \in (1 .. N) \X (0 .. N) |-> Next1(p[1], p[2])]
           Is(f) == f = [n \in 0 .. N |-> IF n = 0 THEN 0 ELSE Next1(n, f[n - 1])]
           upTo == CHOOSE f : Is(f)
<1>1. N \in Nat /\ 0 \in 0 .. N
  OBVIOUS
<1>2. \A n \in 1 .. N, m \in 0 .. N : Next1(n, m) \in 0 .. N
  OBVIOUS
<1>3. MaxOf(xs) = upTo[N]
  BY DEF MaxOf
<1> HIDE DEF N, Next1
<1>4. \A n \in 1 .. N, m \in 0 .. N : G[<<n, m>>] = Next1(n, m)
  OBVIOUS
<1>5. G \in [(1 .. N) \X (0 .. N) -> 0 .. N]
  BY <1>2
<1> HIDE DEF G
<1>6. PICK f \in [0 .. N -> 0 .. N] :
        f = [n \in 0 .. N |-> IF n = 0 THEN 0 ELSE G[<<n, f[n - 1]>>]]
  <2>1. Steps(N, 0 .. N, 0, G)
    BY <1>1, <1>5, StepByStep
  <2>2. QED BY <2>1 DEF Steps
<1>7. ASSUME NEW n \in 0 .. N PROVE f[n] = IF n = 0 THEN 0 ELSE Next1(n, f[n - 1])
  <2>1. CASE n = 0
    BY <1>6, <2>1
  <2>2. CASE n # 0
    <3>1. n \in 1 .. N /\ n - 1 \in 0 .. N
      BY <1>1, <2>2
    <3>2. f[n - 1] \in 0 .. N
      BY <3>1
    <3>3. f[n] = G[<<n, f[n - 1]>>]
      BY <1>6, <2>2
    <3>4. QED BY <1>4, <2>2, <3>1, <3>2, <3>3
  <2>3. QED BY <2>1, <2>2
<1>8. Is(f)
  BY <1>7
<1>9. Is(upTo)
  BY <1>8
<1> HIDE DEF upTo
<1> DEFINE S == {n \in Nat : n <= N => upTo[n] \in 0 .. N}
<1>10. 0 \in S
  BY <1>1, <1>9
<1>11. ASSUME NEW n \in Nat, n \in S PROVE n + 1 \in S
  <2>1. SUFFICES ASSUME n + 1 <= N PROVE upTo[n + 1] \in 0 .. N
    OBVIOUS
  <2>2. n + 1 \in 0 .. N /\ n + 1 # 0 /\ (n + 1) - 1 = n /\ n + 1 \in 1 .. N /\ n <= N
    BY <1>1, <2>1
  <2>3. upTo[n] \in 0 .. N
    BY <1>11, <2>2
  <2>4. upTo[n + 1] = Next1(n + 1, upTo[n])
    BY <1>9, <2>2
  <2>5. QED BY <1>2, <2>2, <2>3, <2>4
<1>12. \A n \in Nat : n \in S
  <2> HIDE DEF S
  <2>1. QED BY <1>10, <1>11, Every
<1>13. upTo[N] \in 0 .. N
  BY <1>1, <1>12
<1>14. QED BY <1>3, <1>13 DEF N

(* So do all functions but sum.                                            *)
LEMMA Picks ==
  ASSUME NEW xs, Len(xs) \in Nat, NEW f \in Functions \ {"sum"}
  PROVE  Picked(f, xs) \in 0 .. Len(xs)
<1>1. IfNaN(xs) \in 0 .. Len(xs)
  <2> DEFINE I == {i \in 1 .. Len(xs) : Test(xs[i])}
  <2>1. IfNaN(xs) = IF I # {} THEN Min(I) ELSE 0
    BY DEF IfNaN, SelectInSeq
  <2>2. ASSUME I # {} PROVE Min(I) \in I
    <3>1. I \in SUBSET Nat
      OBVIOUS
    <3> HIDE DEF I
    <3>2. \E m \in I : \A j \in I : m <= j
      BY <2>2, <3>1, HasLeast
    <3>3. QED BY <3>2 DEF Min
  <2>3. QED BY <2>1, <2>2
<1>2. IfZero(xs) \in 0 .. Len(xs)
  <2> DEFINE I == {i \in 1 .. Len(xs) : Test(xs[i]) /\ ~Same(xs[i], <<0, 1>>)}
  <2>1. IfZero(xs) = IF I # {} THEN Min(I) ELSE 0
    BY DEF IfZero, SelectInSeq
  <2>2. ASSUME I # {} PROVE Min(I) \in I
    <3>1. I \in SUBSET Nat
      OBVIOUS
    <3> HIDE DEF I
    <3>2. \E m \in I : \A j \in I : m <= j
      BY <2>2, <3>1, HasLeast
    <3>3. QED BY <3>2 DEF Min
  <2>3. QED BY <2>1, <2>2
<1>3. MaxOf(xs) \in 0 .. Len(xs)
  BY MaxPicks
<1>4. f \in {"max", "ifnan", "ifzero"}
  BY DEF Functions
<1>5. Picked(f, xs) \in {MaxOf(xs), IfNaN(xs), IfZero(xs)}
  BY <1>4 DEF Picked
<1>6. QED BY <1>1, <1>2, <1>3, <1>5

-----------------------------------------------------------------------------
(* Values are doubles.                                                     *)
LEMMA PartsGive ==
  ASSUME NEW e \in Trees, NEW v \in Seq(Doubles), Len(v) = Len(e.args)
  PROVE  ValueOf(e, v) \in Doubles
<1>1. /\ e.kind \in DOMAIN Texts /\ e.text \in Texts[e.kind]
      /\ Len(e.args) \in Counts[e.kind] /\ Len(e.args) \in Nat
  BY TreesAre
<1>2. \A i \in 1 .. Len(v) : v[i] \in Doubles
  OBVIOUS
<1>3. CASE e.kind = "literal"
  BY <1>1, <1>3, LanguageAssumption DEF ValueOf, Texts
<1>4. CASE e.kind = "variable"
  BY <1>1, <1>4, LanguageAssumption DEF ValueOf, Texts
<1>5. CASE e.kind = "unary"
  <2>1. e.text \in PrefixOperators /\ Len(v) = 1
    BY <1>1, <1>5 DEF Texts, Counts
  <2>2. v[1] \in Doubles
    BY <1>2, <2>1
  <2>3. Unary(e.text, v[1]) \in Doubles
    BY <2>1, <2>2, NodesGive
  <2>4. QED BY <1>5, <2>3 DEF ValueOf
<1>6. CASE e.kind = "binary"
  <2>1. e.text \in BinaryOperators /\ Len(v) = 2
    BY <1>1, <1>6 DEF Texts, Counts
  <2>2. v[1] \in Doubles /\ v[2] \in Doubles
    BY <1>2, <2>1
  <2>3. Binary(e.text, v[1], v[2]) \in Doubles
    BY <2>1, <2>2, NodesGive
  <2>4. QED BY <1>6, <2>3 DEF ValueOf
<1>7. CASE e.kind = "parentheses"
  <2>1. Len(v) = 1
    BY <1>1, <1>7 DEF Counts
  <2>2. v[1] \in Doubles
    BY <1>2, <2>1
  <2>3. QED BY <1>7, <2>2 DEF ValueOf
<1>8. CASE e.kind = "conditional"
  <2>1. Len(v) = 3
    BY <1>1, <1>8 DEF Counts
  <2>2. v[2] \in Doubles /\ v[3] \in Doubles
    BY <1>2, <2>1
  <2>3. QED BY <1>8, <2>2 DEF ValueOf
<1>9. CASE e.kind = "function"
  <2>1. e.text \in Functions
    BY <1>1, <1>9 DEF Texts
  <2>2. Evaluate(e.text, v) \in Doubles
    <3>1. CASE e.text = "sum"
      <4>1. SumOf(v) \in Doubles
        BY SumsGive
      <4>2. QED BY <3>1, <4>1 DEF Evaluate
    <3>2. CASE e.text # "sum"
      <4>1. Picked(e.text, v) \in 0 .. Len(v)
        BY <2>1, <3>2, Picks
      <4>2. Picked(e.text, v) # 0 => v[Picked(e.text, v)] \in Doubles
        BY <1>2, <4>1
      <4>3. NaN \in Doubles
        BY DEF NaN, Doubles
      <4>4. QED BY <3>2, <4>2, <4>3 DEF Evaluate
    <3>3. QED BY <3>1, <3>2
  <2>3. QED BY <1>9, <2>2 DEF ValueOf
<1>10. QED
  BY <1>1, <1>3, <1>4, <1>5, <1>6, <1>7, <1>8, <1>9 DEF Texts

(* So the value of every tree is a double.                                 *)
LEMMA ValuesGive ==
  \A e \in Trees : Value[e] \in Doubles
<1> DEFINE S == {e \in Trees : Value[e] \in Doubles}
<1>1. ASSUME NEW e \in Trees, \A i \in DOMAIN e.args : e.args[i] \in S
      PROVE  e \in S
  <2> DEFINE v == OfParts(Value, e)
  <2>1. Len(e.args) \in Nat /\ DOMAIN e.args = 1 .. Len(e.args)
    BY TreesAre
  <2>2. v \in Seq(Doubles) /\ Len(v) = Len(e.args)
    BY <1>1, <2>1 DEF OfParts
  <2>3. Value[e] = ValueOf(e, v)
    BY ValueIs
  <2> HIDE DEF v
  <2>4. QED BY <2>2, <2>3, PartsGive
<1>2. Trees \subseteq S
  <2> HIDE DEF S
  <2>1. QED BY <1>1, TreeInduction
<1>3. QED BY <1>2

(* A double is the same number as itself, or NaN.                          *)
LEMMA AgreesWithItself ==
  ASSUME NEW x \in Doubles
  PROVE  Agree(x, x)
<1>1. PICK a \in Int, b \in Nat : x = <<a, b>>
  BY DEF Doubles
<1>2. ~Greater(x, x)
  BY <1>1 DEF Greater
<1>3. QED BY <1>2 DEF Agree, Same

-----------------------------------------------------------------------------
(* A node with other parts.                                                *)
LEMMA OtherParts ==
  ASSUME NEW e, e = Node(e.kind, e.text, e.args), NEW parts
  PROVE  [e EXCEPT !.args = parts] = Node(e.kind, e.text, parts)
<1>1. PICK k, t, a : e = [kind |-> k, text |-> t, args |-> a]
  BY DEF Node
<1>2. [e EXCEPT !.args = parts] = [kind |-> k, text |-> t, args |-> parts]
  BY <1>1
<1>3. e.kind = k /\ e.text = t
  BY <1>1
<1>4. QED BY <1>2, <1>3 DEF Node

(* What is extracted of a tree is no higher, and has its value.            *)
LEMMA ExtractKeepsValue ==
  ASSUME NEW n \in Nat, n + 1 <= MaxHeight,
         \A d \in TreesTo[n] : Extractable[d] =>
           Extract[d] \in TreesTo[n] /\ Value[Extract[d]] = Value[d],
         NEW e \in TreesTo[n + 1], Extractable[e]
  PROVE  Extract[e] \in TreesTo[n + 1] /\ Value[Extract[e]] = Value[e]
<1> DEFINE es == OfParts(Extract, e)
           v == OfParts(Value, e)
<1>1. n <= MaxHeight /\ TreesTo[n] \subseteq TreesTo[n + 1]
  BY LanguageAssumption, TreesGrow
<1>2. TreesTo[n] \subseteq Trees /\ TreesTo[n + 1] \subseteq Trees
  BY <1>1, TreesToIn
<1>3. e \in Trees
  BY <1>2
<1>4. /\ e = Node(e.kind, e.text, e.args)
      /\ e.kind \in DOMAIN Texts /\ e.text \in Texts[e.kind]
      /\ e.args \in Seq(TreesTo[n]) /\ Len(e.args) \in Counts[e.kind]
  BY TreesToAre, MadeOf
<1>5. /\ Len(e.args) \in Nat /\ DOMAIN e.args = 1 .. Len(e.args)
      /\ \A i \in DOMAIN e.args : e.args[i] \in TreesTo[n]
  BY <1>4
<1>6. Value[e] = ValueOf(e, v) /\ Extract[e] = ExtractOf(e, es)
  BY <1>3, ValueIs, ExtractIs
<1>7. ExtractableOf(e, OfParts(Extractable, e))
  BY <1>3, ExtractableIs
<1>8. /\ \A i \in DOMAIN e.args : /\ es[i] = Extract[e.args[i]]
                                  /\ v[i] = Value[e.args[i]]
                                  /\ OfParts(Extractable, e)[i] = Extractable[e.args[i]]
      /\ DOMAIN es = DOMAIN e.args /\ DOMAIN v = DOMAIN e.args
  BY DEF OfParts
<1>9. \A i \in DOMAIN e.args : OfParts(Extractable, e)[i] =>
        es[i] \in TreesTo[n] /\ Value[es[i]] = v[i]
  BY <1>5, <1>8
<1>10. v = [i \in DOMAIN e.args |-> v[i]] /\ es = [i \in DOMAIN e.args |-> es[i]]
  BY DEF OfParts
<1> HIDE DEF es, v
<1>11. CASE e.kind = "conditional"
  <2>1. Len(e.args) = 3
    BY <1>4, <1>11 DEF Counts
  <2>2. Chosen(e) \in DOMAIN e.args
    BY <1>5, <2>1 DEF Chosen
  <2>3. OfParts(Extractable, e)[Chosen(e)]
    BY <1>7, <1>11 DEF ExtractableOf
  <2>4. Extract[e] = es[Chosen(e)]
    BY <1>6, <1>11 DEF ExtractOf
  <2>5. Value[e] = v[Chosen(e)]
    <3>1. v[1] = Value[e.args[1]]
      BY <1>5, <1>8, <2>1
    <3>2. QED BY <1>6, <1>11, <3>1 DEF ValueOf, Chosen
  <2>6. QED BY <1>1, <1>9, <2>2, <2>3, <2>4, <2>5
<1>12. CASE e.kind # "conditional"
  <2>1. /\ e.kind = "function" => e.text # "sum"
        /\ \A i \in DOMAIN e.args : OfParts(Extractable, e)[i]
    BY <1>7, <1>12 DEF ExtractableOf
  <2>2. \A i \in DOMAIN e.args : es[i] \in TreesTo[n] /\ Value[es[i]] = v[i]
    BY <1>9, <2>1
  <2>3. [i \in DOMAIN e.args |-> Value[es[i]]] = v
    BY <1>10, <2>2
  <2>4. CASE e.kind = "parentheses"
    <3>1. 1 \in DOMAIN e.args
      <4>1. Len(e.args) = 1
        BY <1>4, <2>4 DEF Counts
      <4>2. QED BY <1>5, <4>1
    <3>2. Extract[e] = es[1] /\ Value[e] = v[1]
      BY <1>6, <2>4 DEF ExtractOf, ValueOf
    <3>3. QED BY <1>1, <2>2, <3>1, <3>2
  <2>5. CASE e.kind = "function"
    <3> DEFINE p == Picked(e.text, v)
    <3>1. e.text \in Functions \ {"sum"}
      BY <1>4, <2>1, <2>5 DEF Texts
    <3>2. Len(v) = Len(e.args)
      BY <1>5, <1>8, <1>10
    <3>3. p \in 0 .. Len(v)
      BY <1>5, <3>1, <3>2, Picks
    <3> HIDE DEF p
    <3>4. Extract[e] = IF p = 0 THEN Node("literal", "NaN", <<>>) ELSE es[p]
      BY <1>6, <2>3, <2>5 DEF ExtractOf, p
    <3>5. Value[e] = IF p = 0 THEN NaN ELSE v[p]
      BY <1>6, <2>5, <3>1 DEF ValueOf, Evaluate, p
    <3>6. CASE p = 0
      <4> DEFINE l == Node("literal", "NaN", <<>>)
      <4>1. l \in TreesTo[n + 1]
        <5>1. l.kind = "literal" /\ l.text = "NaN" /\ l.args = <<>>
          BY DEF Node
        <5>2. /\ l.kind \in DOMAIN Texts /\ l.text \in Texts[l.kind]
              /\ l.args \in Seq(TreesTo[n]) /\ Len(l.args) \in Counts[l.kind]
          <6>1. "literal" \in DOMAIN Texts /\ Texts["literal"] = Literals
            BY DEF Texts
          <6>2. Counts["literal"] = {0}
            BY DEF Counts
          <6>3. <<>> \in Seq(TreesTo[n]) /\ Len(<<>>) = 0
            OBVIOUS
          <6> HIDE DEF l
          <6>4. QED BY <5>1, <6>1, <6>2, <6>3, LanguageAssumption
        <5>3. l \in Made(TreesTo[n])
          BY <5>1, <5>2, MadeOf
        <5>4. QED BY <5>3, TreesToAre
      <4>2. Value[l] = NaN
        <5>1. l \in Trees
          BY <1>2, <4>1
        <5>2. Value[l] = ValueOf(l, OfParts(Value, l))
          BY <5>1, ValueIs
        <5>3. l.kind = "literal" /\ l.text = "NaN"
          BY DEF Node
        <5> HIDE DEF l
        <5>4. QED BY <5>2, <5>3, LanguageAssumption DEF ValueOf
      <4>3. QED BY <3>4, <3>5, <3>6, <4>1, <4>2
    <3>7. CASE p # 0
      <4>1. p \in DOMAIN e.args
        BY <1>5, <3>2, <3>3, <3>7
      <4>2. QED BY <1>1, <2>2, <3>4, <3>5, <3>7, <4>1
    <3>8. QED BY <3>6, <3>7
  <2>6. CASE e.kind \notin {"parentheses", "function"}
    <3> DEFINE d == [e EXCEPT !.args = es]
    <3>1. Extract[e] = d
      BY <1>6, <1>12, <2>6 DEF ExtractOf
    <3>2. d = [e EXCEPT !.args = es]
      OBVIOUS
    <3> HIDE DEF d
    <3>3. d.kind = e.kind /\ d.text = e.text /\ d.args = es
          /\ d = Node(d.kind, d.text, d.args)
      <4>1. d = Node(e.kind, e.text, es)
        BY <1>4, <3>2, OtherParts
      <4>2. QED BY <4>1 DEF Node
    <3>4. es \in Seq(TreesTo[n]) /\ Len(es) = Len(e.args)
      <4>1. PICK N \in Nat : N = Len(e.args)
        BY <1>5
      <4>2. es = [i \in 1 .. N |-> es[i]] /\ \A i \in 1 .. N : es[i] \in TreesTo[n]
        BY <1>5, <1>8, <1>10, <2>2, <4>1
      <4>3. es \in [1 .. N -> TreesTo[n]]
        BY <4>2
      <4>4. QED BY <4>1, <4>3
    <3>5. d \in TreesTo[n + 1]
      <4>1. /\ d.kind \in DOMAIN Texts /\ d.text \in Texts[d.kind]
            /\ d.args \in Seq(TreesTo[n]) /\ Len(d.args) \in Counts[d.kind]
        BY <1>4, <3>3, <3>4
      <4>2. d \in Made(TreesTo[n])
        BY <3>3, <4>1, MadeOf
      <4>3. QED BY <4>2, TreesToAre
    <3>6. OfParts(Value, d) = v
      <4>1. DOMAIN d.args = DOMAIN e.args
        BY <1>8, <3>3
      <4>2. QED BY <2>3, <3>3, <4>1 DEF OfParts
    <3>7. Value[d] = ValueOf(d, v)
      <4>1. d \in Trees
        BY <1>2, <3>5
      <4>2. QED BY <3>6, <4>1, ValueIs
    <3>8. ValueOf(d, v) = ValueOf(e, v)
      BY <3>3 DEF ValueOf
    <3>9. QED BY <1>6, <3>1, <3>5, <3>7, <3>8
  <2>7. QED BY <2>4, <2>5, <2>6
<1>13. QED BY <1>11, <1>12

(* Height by height, this holds of all trees.                              *)
LEMMA ExtractKeeps ==
  \A e \in Trees : Extractable[e] =>
    Extract[e] \in Trees /\ Value[Extract[e]] = Value[e]
<1> DEFINE K(n) == \A e \in TreesTo[n] : Extractable[e] =>
                     Extract[e] \in TreesTo[n] /\ Value[Extract[e]] = Value[e]
           S == {n \in Nat : n <= MaxHeight => K(n)}
<1>1. 0 \in S
  BY TreesToAre
<1>2. ASSUME NEW n \in Nat, n \in S PROVE n + 1 \in S
  <2>1. SUFFICES ASSUME n + 1 <= MaxHeight PROVE K(n + 1)
    OBVIOUS
  <2>2. K(n)
    BY <1>2, <2>1, LanguageAssumption
  <2>3. QED BY <2>1, <2>2, ExtractKeepsValue
<1>3. \A n \in Nat : n \in S
  <2> HIDE DEF S
  <2>1. QED BY <1>1, <1>2, Every
<1>4. QED BY <1>3, LanguageAssumption DEF Trees

-----------------------------------------------------------------------------
(* With parentheses added, a tree that is one has its value.               *)
LEMMA ParenthesesKeepValue ==
  ASSUME NEW x, NEW y, NEW w, y = x \/ y = Parenthesized(x), y \in Trees,
         x \in Trees => Value[x] = w
  PROVE  Value[y] = w
<1>1. CASE y = x
  BY <1>1
<1>2. CASE y = Parenthesized(x)
  <2>1. y.kind = "parentheses" /\ y.args = <<x>>
    BY <1>2 DEF Parenthesized, Node
  <2>2. 1 \in DOMAIN y.args /\ y.args[1] = x
    BY <2>1
  <2>3. x \in Trees
    BY <2>2, TreesAre
  <2>4. Value[y] = ValueOf(y, OfParts(Value, y))
    BY ValueIs
  <2>5. OfParts(Value, y)[1] = Value[x]
    BY <2>2 DEF OfParts
  <2>6. QED BY <2>1, <2>3, <2>4, <2>5 DEF ValueOf
<1>3. QED BY <1>1, <1>2

(* The value does not depend on the parentheses that were added.           *)
LEMMA AddKeeps ==
  \A e \in Trees : AddParentheses[e] \in Trees =>
    Value[AddParentheses[e]] = Value[e]
<1> DEFINE S == {e \in Trees : AddParentheses[e] \in Trees =>
                   Value[AddParentheses[e]] = Value[e]}
<1>1. ASSUME NEW e \in Trees, \A i \in DOMAIN e.args : e.args[i] \in S,
             AddParentheses[e] \in Trees
      PROVE  Value[AddParentheses[e]] = Value[e]
  <2> DEFINE es == OfParts(AddParentheses, e)
             v == OfParts(Value, e)
             d == AddParentheses[e]
  <2>1. \A i \in DOMAIN e.args : es[i] \in Trees => Value[es[i]] = v[i]
    BY <1>1 DEF OfParts
  <2>2. DOMAIN es = DOMAIN e.args /\ DOMAIN v = DOMAIN e.args
        /\ v = [i \in DOMAIN e.args |-> v[i]]
    BY DEF OfParts
  <2>3. d = AddOf(e, es) /\ Value[e] = ValueOf(e, v)
    BY AddParenthesesIs, ValueIs
  <2>4. Value[d] = ValueOf(d, OfParts(Value, d))
        /\ \A i \in DOMAIN d.args : d.args[i] \in Trees
    BY <1>1, ValueIs, TreesAre
  <2>5. e = Node(e.kind, e.text, e.args) /\ Len(e.args) \in Counts[e.kind]
        /\ DOMAIN e.args = 1 .. Len(e.args)
    BY TreesAre
  <2> HIDE DEF es, v, d
  <2> DEFINE as == IF e.kind # "binary" THEN es
                   ELSE <<IF CompareLeft(e) THEN Parenthesized(es[1]) ELSE es[1],
                          IF CompareRight(e) THEN Parenthesized(es[2]) ELSE es[2]>>
  <2>6. d.kind = e.kind /\ d.text = e.text /\ d.args = as
    <3>1. d = [e EXCEPT !.args = as]
      BY <2>3 DEF AddOf
    <3> HIDE DEF as
    <3>2. d = Node(e.kind, e.text, as)
      BY <2>5, <3>1, OtherParts
    <3>3. QED BY <3>2 DEF Node
  <2>7. DOMAIN as = DOMAIN e.args
        /\ \A i \in DOMAIN e.args : as[i] = es[i] \/ as[i] = Parenthesized(es[i])
    <3>1. CASE e.kind # "binary"
      BY <2>2, <3>1
    <3>2. CASE e.kind = "binary"
      <4>1. Len(e.args) = 2
        BY <2>5, <3>2 DEF Counts
      <4>2. DOMAIN e.args = {1, 2}
        BY <2>5, <4>1
      <4>3. DOMAIN as = {1, 2}
        BY <3>2
      <4>4. /\ as[1] = IF CompareLeft(e) THEN Parenthesized(es[1]) ELSE es[1]
            /\ as[2] = IF CompareRight(e) THEN Parenthesized(es[2]) ELSE es[2]
        BY <3>2
      <4> HIDE DEF as
      <4>5. QED BY <4>2, <4>3, <4>4
    <3>3. QED BY <3>1, <3>2
  <2> HIDE DEF as
  <2>8. ASSUME NEW i \in DOMAIN e.args PROVE Value[as[i]] = v[i]
    <3>1. as[i] \in Trees
      BY <2>4, <2>6, <2>7
    <3>2. as[i] = es[i] \/ as[i] = Parenthesized(es[i])
      BY <2>7
    <3>3. es[i] \in Trees => Value[es[i]] = v[i]
      BY <2>1
    <3> DEFINE x == es[i]
    <3> HIDE DEF x
    <3>4. (as[i] = x \/ as[i] = Parenthesized(x)) /\ (x \in Trees => Value[x] = v[i])
      BY <3>2, <3>3 DEF x
    <3>5. QED BY <3>1, <3>4, ParenthesesKeepValue
  <2>9. OfParts(Value, d) = v
    BY <2>2, <2>6, <2>7, <2>8 DEF OfParts
  <2>10. ValueOf(d, v) = ValueOf(e, v)
    BY <2>6 DEF ValueOf
  <2>11. Value[d] = Value[e]
    BY <2>3, <2>4, <2>9, <2>10
  <2>12. QED BY <2>11 DEF d
<1>2. \A e \in Trees : (\A i \in DOMAIN e.args : e.args[i] \in S) => e \in S
  BY <1>1
<1>3. Trees \subseteq S
  <2> HIDE DEF S
  <2>1. QED BY <1>2, TreeInduction
<1>4. QED BY <1>3

-----------------------------------------------------------------------------
(* From the parser on there is a tree.                                     *)
Treed == stage # "written" => tree \in Trees

(* The text that is written has no tree; ParseText makes one, and the      *)
(* converters make trees of trees.                                         *)
THEOREM TreedCorrect == Spec => []Treed
<1>1. Init => Treed
  BY DEF Init, Treed
<1>2. Treed /\ [Next]_vars => Treed'
  <2> SUFFICES ASSUME Treed, [Next]_vars PROVE Treed'
    OBVIOUS
  <2>1. ASSUME NEW ts \in Longer(source), Write(ts) PROVE Treed'
    BY <2>1 DEF Write, Treed
  <2>2. CASE ParseText
    BY <2>2 DEF ParseText, Treed
  <2>3. CASE ExtractTree
    BY <2>3, ExtractKeeps DEF ExtractTree, Treed
  <2>4. CASE ExtractThrows
    BY <2>4 DEF ExtractThrows, Treed
  <2>5. CASE AddToTree
    BY <2>5 DEF AddToTree, Treed
  <2>6. CASE UNCHANGED vars
    BY <2>6 DEF vars, Treed
  <2>7. QED BY <2>1, <2>2, <2>3, <2>4, <2>5, <2>6 DEF Next
<1>3. QED BY <1>1, <1>2, PTL DEF Spec

(* The ExpressionExtractor and the ParenthesesAdder, in any order and any   *)
(* number of times, keep the value of the tree of any text.                *)
THEOREM ConvertersKeepValueCorrect == Spec => ConvertersKeepValue
<1>1. Treed /\ Treed' /\ [Next]_vars =>
        [stage # "written" => Agree(Value[tree'], Value[tree])]_vars
  <2> SUFFICES ASSUME Treed, Treed', Next, stage # "written"
               PROVE  Agree(Value[tree'], Value[tree])
    OBVIOUS
  <2>1. tree \in Trees
    BY DEF Treed
  <2>2. Agree(Value[tree], Value[tree])
    BY <2>1, ValuesGive, AgreesWithItself
  <2>3. CASE ExtractTree
    BY <2>1, <2>2, <2>3, ExtractKeeps DEF ExtractTree
  <2>4. CASE ExtractThrows
    BY <2>2, <2>4 DEF ExtractThrows
  <2>5. CASE AddToTree
    BY <2>1, <2>2, <2>5, AddKeeps DEF AddToTree
  <2>6. QED BY <2>3, <2>4, <2>5 DEF Next, Write, ParseText
<1>2. QED BY <1>1, TreedCorrect, PTL DEF Spec, ConvertersKeepValue

(* Nodes of a tree is made of Nodes of its parts.                          *)
LEMMA NodesIs ==
  \A e \in Trees : Nodes[e] = NodesOf(e, OfParts(Nodes, e))
<1> DEFINE Is(f, n) == f = [e \in TreesTo[n] |-> NodesOf(e, OfParts(f, e))]
           S == {n \in Nat : n <= MaxHeight => \E f : Is(f, n)}
<1>1. 0 \in S
  <2> DEFINE f == [e \in {} |-> 0]
  <2>1. Is(f, 0)
    BY TreesToAre
  <2>2. QED BY <2>1
<1>2. ASSUME NEW n \in Nat, n \in S PROVE n + 1 \in S
  <2>1. SUFFICES ASSUME n + 1 <= MaxHeight PROVE \E g : Is(g, n + 1)
    OBVIOUS
  <2>2. PICK f : Is(f, n)
    BY <1>2, <2>1, LanguageAssumption
  <2> DEFINE g == [e \in TreesTo[n + 1] |-> NodesOf(e, OfParts(f, e))]
  <2>3. \A e \in TreesTo[n] : g[e] = f[e]
    BY <2>1, <2>2, TreesGrow
  <2>4. ASSUME NEW e \in TreesTo[n + 1] PROVE OfParts(f, e) = OfParts(g, e)
    <3>1. \A i \in DOMAIN e.args : e.args[i] \in TreesTo[n]
      BY <2>1, TreesToAre, MadeOf
    <3> HIDE DEF g
    <3>2. \A i \in DOMAIN e.args : f[e.args[i]] = g[e.args[i]]
      BY <2>3, <3>1
    <3>3. QED BY <3>2 DEF OfParts
  <2>5. g = [e \in TreesTo[n + 1] |-> g[e]]
    OBVIOUS
  <2>6. \A e \in TreesTo[n + 1] : g[e] = NodesOf(e, OfParts(f, e))
    OBVIOUS
  <2> HIDE DEF g
  <2>7. \A e \in TreesTo[n + 1] : g[e] = NodesOf(e, OfParts(g, e))
    BY <2>4, <2>6
  <2>8. Is(g, n + 1)
    BY <2>5, <2>7
  <2>9. QED BY <2>8
<1>3. \A n \in Nat : n \in S
  <2> HIDE DEF S
  <2>1. QED BY <1>1, <1>2, Every
<1>4. \E f : Is(f, MaxHeight)
  BY <1>3, LanguageAssumption
<1>5. Nodes = [e \in Trees |-> NodesOf(e, OfParts(Nodes, e))]
  <2>1. \E f : f = [e \in Trees |-> NodesOf(e, OfParts(f, e))]
    BY <1>4 DEF Trees
  <2>2. QED BY <2>1 DEF Nodes
<1>6. QED BY <1>5

(* Represent of a tree is made of Represent of its parts.                  *)
LEMMA RepresentIs ==
  \A e \in Trees : Represent[e] = RepresentOf(e, OfParts(Represent, e))
<1> DEFINE Is(f, n) == f = [e \in TreesTo[n] |-> RepresentOf(e, OfParts(f, e))]
           S == {n \in Nat : n <= MaxHeight => \E f : Is(f, n)}
<1>1. 0 \in S
  <2> DEFINE f == [e \in {} |-> 0]
  <2>1. Is(f, 0)
    BY TreesToAre
  <2>2. QED BY <2>1
<1>2. ASSUME NEW n \in Nat, n \in S PROVE n + 1 \in S
  <2>1. SUFFICES ASSUME n + 1 <= MaxHeight PROVE \E g : Is(g, n + 1)
    OBVIOUS
  <2>2. PICK f : Is(f, n)
    BY <1>2, <2>1, LanguageAssumption
  <2> DEFINE g == [e \in TreesTo[n + 1] |-> RepresentOf(e, OfParts(f, e))]
  <2>3. \A e \in TreesTo[n] : g[e] = f[e]
    BY <2>1, <2>2, TreesGrow
  <2>4. ASSUME NEW e \in TreesTo[n + 1] PROVE OfParts(f, e) = OfParts(g, e)
    <3>1. \A i \in DOMAIN e.args : e.args[i] \in TreesTo[n]
      BY <2>1, TreesToAre, MadeOf
    <3> HIDE DEF g
    <3>2. \A i \in DOMAIN e.args : f[e.args[i]] = g[e.args[i]]
      BY <2>3, <3>1
    <3>3. QED BY <3>2 DEF OfParts
  <2>5. g = [e \in TreesTo[n + 1] |-> g[e]]
    OBVIOUS
  <2>6. \A e \in TreesTo[n + 1] : g[e] = RepresentOf(e, OfParts(f, e))
    OBVIOUS
  <2> HIDE DEF g
  <2>7. \A e \in TreesTo[n + 1] : g[e] = RepresentOf(e, OfParts(g, e))
    BY <2>4, <2>6
  <2>8. Is(g, n + 1)
    BY <2>5, <2>7
  <2>9. QED BY <2>8
<1>3. \A n \in Nat : n \in S
  <2> HIDE DEF S
  <2>1. QED BY <1>1, <1>2, Every
<1>4. \E f : Is(f, MaxHeight)
  BY <1>3, LanguageAssumption
<1>5. Represent = [e \in Trees |-> RepresentOf(e, OfParts(Represent, e))]
  <2>1. \E f : f = [e \in Trees |-> RepresentOf(e, OfParts(f, e))]
    BY <1>4 DEF Trees
  <2>2. QED BY <2>1 DEF Represent
<1>6. QED BY <1>5

(* The pieces of a text.                                                   *)
Piece(ts, i, j) == SubSeq(ts, i, j - 1)

(* A piece is a text, and two that follow one another are one.             *)
LEMMA Pieces ==
  ASSUME NEW T, NEW ts \in Seq(T), NEW i \in 1 .. Len(ts) + 1,
         NEW j \in i .. Len(ts) + 1
  PROVE  /\ Piece(ts, i, j) \in Seq(T) /\ Piece(ts, i, i) = <<>>
         /\ \A k \in j .. Len(ts) + 1 :
              Piece(ts, i, j) \o Piece(ts, j, k) = Piece(ts, i, k)
<1>1. PICK N \in Nat : N = Len(ts)
  OBVIOUS
<1>2. \A m \in i .. j - 1 : ts[m] \in T
  <2>1. \A m \in i .. j - 1 : m \in 1 .. Len(ts)
    BY <1>1
  <2>2. QED BY <2>1, ElementOfSeq
<1>3. i \in Int /\ j - 1 \in Int /\ i - 1 \in Int /\ i - 1 < i
  BY <1>1
<1>4. Piece(ts, i, j) \in Seq(T)
  BY <1>2, <1>3, SubSeqProperties DEF Piece
<1>5. Piece(ts, i, i) = <<>>
  BY <1>3, SubSeqEmpty DEF Piece
<1>6. ASSUME NEW k \in j .. Len(ts) + 1
      PROVE  Piece(ts, i, j) \o Piece(ts, j, k) = Piece(ts, i, k)
  <2>1. j - 1 \in i - 1 .. Len(ts) /\ k - 1 \in j - 1 .. Len(ts) /\ (j - 1) + 1 = j
    BY <1>1
  <2>2. SubSeq(ts, i, j - 1) \o SubSeq(ts, (j - 1) + 1, k - 1) = SubSeq(ts, i, k - 1)
    BY <2>1, ConcatAdjacentSubSeq
  <2>3. QED BY <2>1, <2>2 DEF Piece
<1>7. QED BY <1>4, <1>5, <1>6

(* The piece of one token.                                                 *)
LEMMA OneToken ==
  ASSUME NEW T, NEW ts \in Seq(T), NEW i \in 1 .. Len(ts)
  PROVE  Piece(ts, i, i + 1) = <<ts[i]>>
<1>1. i \in i .. Len(ts) /\ i + 1 \in Int /\ i \in Int /\ i < i + 1 /\ (i + 1) - 1 = i
  OBVIOUS
<1>2. SubSeq(ts, i, i) = <<ts[i]>> \o SubSeq(ts, i + 1, i)
  BY <1>1, SubSeqRecursiveFirst
<1>3. SubSeq(ts, i + 1, i) = <<>>
  BY <1>1, SubSeqEmpty
<1>4. <<ts[i]>> \in Seq(T)
  BY ElementOfSeq
<1>5. <<ts[i]>> \o <<>> = <<ts[i]>>
  BY <1>4, ConcatEmptySeq
<1>6. QED BY <1>1, <1>2, <1>3, <1>5 DEF Piece

-----------------------------------------------------------------------------
(* What a text is made of.                                                 *)
Tokens ==
  Literals \cup Variables \cup Operators \cup Functions \cup PrefixOperators
    \cup BinaryOperators \cup {"(", ")", ",", "?", ":"}

(* Whatever is written of e, it is w.                                      *)
Writes(e, w) == e \in Trees /\ Plain(e) => Represent[e] = w

(* What is written of the parts.                                           *)
Written(args) == [i \in DOMAIN args |-> Represent[args[i]]]

(* What is written of a node comes from what is written of its parts.      *)
LEMMA NodeRepresented ==
  ASSUME NEW k, NEW t, NEW args, NEW e \in Trees, e = Node(k, t, args), Plain(e)
  PROVE  /\ e.kind = k /\ e.text = t /\ e.args = args
         /\ Represent[e] = RepresentOf(e, Written(args))
         /\ args \in Seq(Trees)
         /\ \A i \in DOMAIN args : /\ args[i] \in Trees /\ Plain(args[i])
                                   /\ Written(args)[i] = Represent[args[i]]
         /\ k = "literal" => Shown[t] = <<t>>
<1>1. e.kind = k /\ e.text = t /\ e.args = args
  BY DEF Node
<1>2. Written(args) = OfParts(Represent, e)
  BY <1>1 DEF OfParts, Written
<1>3. Represent[e] = RepresentOf(e, Written(args))
  BY <1>2, RepresentIs
<1>4. Nodes[e] = NodesOf(e, OfParts(Nodes, e))
  BY NodesIs
<1>5. ASSUME NEW i \in DOMAIN args PROVE args[i] \in Trees /\ Plain(args[i])
  <2>1. args[i] \in Trees
    BY <1>1, TreesAre
  <2>2. OfParts(Nodes, e)[i] = Nodes[args[i]] /\ i \in DOMAIN OfParts(Nodes, e)
    BY <1>1 DEF OfParts
  <2>3. Nodes[args[i]] \subseteq Nodes[e]
    BY <1>4, <2>2 DEF NodesOf
  <2>4. QED BY <2>1, <2>3 DEF Plain
<1>6. k = "literal" => Shown[t] = <<t>>
  <2>1. e \in Nodes[e]
    BY <1>4 DEF NodesOf
  <2>2. QED BY <1>1, <2>1 DEF Plain
<1>7. args \in Seq(Trees)
  BY <1>1, TreesAre
<1>8. \A i \in DOMAIN args : Written(args)[i] = Represent[args[i]]
  BY DEF Written
<1>9. QED BY <1>1, <1>3, <1>5, <1>6, <1>7, <1>8

(* A literal and a variable are written as their tokens.                   *)
LEMMA WritesLeaf ==
  ASSUME NEW t
  PROVE  /\ Writes(Node("literal", t, <<>>), <<t>>)
         /\ Writes(Node("variable", t, <<>>), <<t>>)
<1>1. ASSUME NEW k \in {"literal", "variable"}, NEW e \in Trees,
             e = Node(k, t, <<>>), Plain(e)
      PROVE  Represent[e] = <<t>>
  <2>1. /\ e.kind = k /\ e.text = t /\ Represent[e] = RepresentOf(e, Written(<<>>))
        /\ k = "literal" => Shown[t] = <<t>>
    BY <1>1, NodeRepresented
  <2>2. QED BY <2>1 DEF RepresentOf
<1>2. QED BY <1>1 DEF Writes

(* A node of one part is written around what is written of it.             *)
LEMMA WritesOne ==
  ASSUME NEW t, NEW a, NEW u, Writes(a, u)
  PROVE  /\ Writes(Node("unary", t, <<a>>), <<t>> \o u)
         /\ Writes(Node("parentheses", "", <<a>>), Between(u))
<1>1. ASSUME NEW k, NEW s, NEW e \in Trees, e = Node(k, s, <<a>>), Plain(e)
      PROVE  \E r : /\ Represent[e] = RepresentOf(e, r) /\ r[1] = u
                    /\ e.kind = k /\ e.text = s
  <2> DEFINE args == <<a>>
             r == Written(args)
  <2>1. 1 \in DOMAIN args /\ args[1] = a
    OBVIOUS
  <2>2. e = Node(k, s, args)
    BY <1>1
  <2> HIDE DEF args
  <2>3. /\ Represent[e] = RepresentOf(e, r) /\ e.kind = k /\ e.text = s
        /\ a \in Trees /\ Plain(a) /\ r[1] = Represent[a]
    BY <1>1, <2>1, <2>2, NodeRepresented
  <2>4. r[1] = u
    BY <2>3 DEF Writes
  <2>5. QED BY <2>3, <2>4
<1>2. Writes(Node("unary", t, <<a>>), <<t>> \o u)
  <2>1. ASSUME NEW e \in Trees, e = Node("unary", t, <<a>>), Plain(e)
        PROVE  Represent[e] = <<t>> \o u
    <3>1. PICK r : Represent[e] = RepresentOf(e, r) /\ r[1] = u
                   /\ e.kind = "unary" /\ e.text = t
      BY <1>1, <2>1
    <3>2. QED BY <3>1 DEF RepresentOf
  <2>2. QED BY <2>1 DEF Writes
<1>3. Writes(Node("parentheses", "", <<a>>), Between(u))
  <2>1. ASSUME NEW e \in Trees, e = Node("parentheses", "", <<a>>), Plain(e)
        PROVE  Represent[e] = Between(u)
    <3>1. PICK r : Represent[e] = RepresentOf(e, r) /\ r[1] = u
                   /\ e.kind = "parentheses"
      <4>1. PICK s : s = ""
        OBVIOUS
      <4>2. e = Node("parentheses", s, <<a>>)
        BY <2>1, <4>1
      <4>3. Plain(e)
        BY <2>1
      <4>4. QED BY <1>1, <4>2, <4>3
    <3>2. QED BY <3>1 DEF RepresentOf, RepresentParentheses
  <2>2. QED BY <2>1 DEF Writes
<1>4. QED BY <1>2, <1>3

(* The operator is written between its operands.                           *)
LEMMA WritesBinary ==
  ASSUME NEW t, NEW a, NEW b, NEW u, NEW v, Writes(a, u), Writes(b, v)
  PROVE  Writes(Node("binary", t, <<a, b>>), u \o <<t>> \o v)
<1> DEFINE args == <<a, b>>
           r == Written(args)
<1>1. DOMAIN args = {1, 2} /\ args[1] = a /\ args[2] = b
  OBVIOUS
<1>2. ASSUME NEW e \in Trees, e = Node("binary", t, args), Plain(e)
      PROVE  Represent[e] = u \o <<t>> \o v
  <2> HIDE DEF args
  <2>1. /\ Represent[e] = RepresentOf(e, r) /\ e.kind = "binary" /\ e.text = t
        /\ \A i \in DOMAIN args : /\ args[i] \in Trees /\ Plain(args[i])
                                  /\ r[i] = Represent[args[i]]
    BY <1>2, NodeRepresented
  <2> HIDE DEF r
  <2>2. r[1] = u /\ r[2] = v
    BY <1>1, <2>1 DEF Writes
  <2>3. QED BY <2>1, <2>2 DEF RepresentOf
<1>3. QED BY <1>2 DEF Writes

(* A conditional is written with its marks between its parts.              *)
LEMMA WritesConditional ==
  ASSUME NEW a, NEW b, NEW c, NEW u, NEW v, NEW w,
         Writes(a, u), Writes(b, v), Writes(c, w)
  PROVE  Writes(Node("conditional", "", <<a, b, c>>),
                u \o <<"?">> \o v \o <<":">> \o w)
<1> DEFINE args == <<a, b, c>>
           r == Written(args)
<1>1. DOMAIN args = {1, 2, 3} /\ args[1] = a /\ args[2] = b /\ args[3] = c
  OBVIOUS
<1>2. ASSUME NEW e \in Trees, e = Node("conditional", "", args), Plain(e)
      PROVE  Represent[e] = u \o <<"?">> \o v \o <<":">> \o w
  <2> HIDE DEF args
  <2>1. PICK t : t = ""
    OBVIOUS
  <2>2. /\ Represent[e] = RepresentOf(e, r) /\ e.kind = "conditional"
        /\ \A i \in DOMAIN args : /\ args[i] \in Trees /\ Plain(args[i])
                                  /\ r[i] = Represent[args[i]]
    <3>1. e = Node("conditional", t, args)
      BY <1>2, <2>1
    <3>2. Plain(e)
      BY <1>2
    <3>3. QED BY <3>1, <3>2, NodeRepresented
  <2> HIDE DEF r
  <2>3. r[1] = u /\ r[2] = v /\ r[3] = w
    BY <1>1, <2>2 DEF Writes
  <2>4. QED BY <2>2, <2>3 DEF RepresentOf
<1>3. QED BY <1>2 DEF Writes

(* Whatever is written of a list of arguments, it is w.                    *)
WritesAll(es, w) ==
  es \in Seq(Trees) /\ (\A i \in DOMAIN es : Plain(es[i])) =>
    /\ Written(es) \in Seq(Seq(Tokens))
    /\ Separated(<<",">>, Written(es)) = w

(* A call is written with its arguments between parentheses.               *)
LEMMA WritesCall ==
  ASSUME NEW t, NEW es, NEW w, WritesAll(es, w)
  PROVE  Writes(Node("function", t, es), <<t>> \o Between(w))
<1>1. ASSUME NEW e \in Trees, e = Node("function", t, es), Plain(e)
      PROVE  Represent[e] = <<t>> \o Between(w)
  <2>1. /\ Represent[e] = RepresentOf(e, Written(es)) /\ e.kind = "function" /\ e.text = t
        /\ es \in Seq(Trees) /\ \A i \in DOMAIN es : Plain(es[i])
    BY <1>1, NodeRepresented
  <2>2. Separated(<<",">>, Written(es)) = w
    BY <2>1 DEF WritesAll
  <2>3. QED BY <2>1, <2>2 DEF RepresentOf
<1>2. QED BY <1>1 DEF Writes

-----------------------------------------------------------------------------
(* A sequence with one more in front.                                      *)
LEMMA InFront ==
  ASSUME NEW S, NEW x, NEW m \in Seq(S)
  PROVE  /\ <<x>> \o m \in Seq(S \cup {x}) /\ Len(<<x>> \o m) = Len(m) + 1
         /\ (<<x>> \o m)[1] = x /\ \A j \in 1 .. Len(m) : (<<x>> \o m)[j + 1] = m[j]
<1>1. <<x>> \in Seq(S \cup {x}) /\ Len(<<x>>) = 1 /\ <<x>>[1] = x
  OBVIOUS
<1>2. m \in Seq(S \cup {x})
  BY SeqMonotonic
<1>3. PICK N \in Nat : N = Len(m)
  OBVIOUS
<1> DEFINE y == <<x>>
<1> HIDE DEF y
<1>4. y \in Seq(S \cup {x}) /\ Len(y) = 1 /\ y[1] = x
  BY <1>1 DEF y
<1>5. /\ y \o m \in Seq(S \cup {x}) /\ Len(y \o m) = Len(y) + Len(m)
      /\ \A i \in 1 .. Len(y) + Len(m) : (y \o m)[i] =
           IF i <= Len(y) THEN y[i] ELSE m[i - Len(y)]
  BY <1>2, <1>4, ConcatProperties
<1>6. Len(y \o m) = Len(m) + 1 /\ (y \o m)[1] = x
  BY <1>3, <1>4, <1>5
<1>7. ASSUME NEW j \in 1 .. Len(m) PROVE (y \o m)[j + 1] = m[j]
  <2>1. j + 1 \in 1 .. 1 + N /\ ~(j + 1 <= 1) /\ (j + 1) - 1 = j
    BY <1>3
  <2>2. QED BY <1>3, <1>4, <1>5, <2>1
<1>8. QED BY <1>5, <1>6, <1>7 DEF y

(* What the grouping of the operators makes of each.                       *)
Groups(f, e, rest) ==
  f = [k \in 0 .. Len(rest) |->
         IF k = 0 THEN e
         ELSE Node("binary", rest[k].operator, <<f[k - 1], rest[k].tree>>)]

(* The grouping of the parser is the one of Groups.                        *)
LEMMA GroupedIs ==
  ASSUME NEW e, NEW rest, Len(rest) \in Nat
  PROVE  \E f : Groups(f, e, rest) /\ Grouped(e, rest) = f[Len(rest)]
<1> DEFINE N == Len(rest)
           G(k, d) == Node("binary", rest[k].operator, <<d, rest[k].tree>>)
           Is(f, n) == f = [k \in 0 .. n |-> IF k = 0 THEN e ELSE G(k, f[k - 1])]
           S == {n \in Nat : \E f : Is(f, n)}
           upTo == CHOOSE f : Is(f, N)
<1>1. Grouped(e, rest) = upTo[N]
  BY DEF Grouped
<1>2. \A f : Is(f, N) => Groups(f, e, rest)
  BY DEF Groups
<1> HIDE DEF G, N
<1>3. 0 \in S
  <2> DEFINE f == [k \in 0 .. 0 |-> e]
  <2>1. Is(f, 0)
    OBVIOUS
  <2>2. QED BY <2>1
<1>4. ASSUME NEW n \in Nat, n \in S PROVE n + 1 \in S
  <2>1. PICK f : Is(f, n)
    BY <1>4
  <2> DEFINE h == [k \in 0 .. n + 1 |-> IF k = n + 1 THEN G(k, f[k - 1]) ELSE f[k]]
  <2>2. ASSUME NEW k \in 0 .. n + 1 PROVE h[k] = IF k = 0 THEN e ELSE G(k, h[k - 1])
    <3>1. CASE k = n + 1
      <4>1. k # 0 /\ k - 1 \in 0 .. n + 1 /\ k - 1 # n + 1
        BY <3>1
      <4>2. h[k - 1] = f[k - 1] /\ h[k] = G(k, f[k - 1])
        BY <3>1, <4>1
      <4>3. QED BY <4>1, <4>2
    <3>2. CASE k = 0
      BY <2>1, <3>2
    <3>3. CASE k # n + 1 /\ k # 0
      <4>1. k \in 0 .. n /\ k - 1 \in 0 .. n + 1 /\ k - 1 # n + 1
        BY <3>3
      <4>2. h[k - 1] = f[k - 1] /\ h[k] = f[k]
        BY <3>3, <4>1
      <4>3. f[k] = G(k, f[k - 1])
        BY <2>1, <3>3, <4>1
      <4>4. QED BY <3>3, <4>2, <4>3
    <3>4. QED BY <3>1, <3>2, <3>3
  <2>3. h = [k \in 0 .. n + 1 |-> h[k]]
    OBVIOUS
  <2> HIDE DEF h
  <2>4. Is(h, n + 1)
    BY <2>2, <2>3
  <2>5. QED BY <2>4
<1>5. N \in S
  <2>1. N \in Nat
    BY DEF N
  <2> HIDE DEF S
  <2>2. QED BY <1>3, <1>4, <2>1, Every
<1>6. Is(upTo, N)
  BY <1>5
<1> HIDE DEF upTo
<1>7. QED BY <1>1, <1>2, <1>6 DEF N

(* No operators leave a tree as it is.                                     *)
LEMMA GroupedNone ==
  ASSUME NEW e
  PROVE  Grouped(e, <<>>) = e
<1>1. Len(<<>>) = 0 /\ 0 \in Nat
  OBVIOUS
<1>2. PICK f : Groups(f, e, <<>>) /\ Grouped(e, <<>>) = f[Len(<<>>)]
  BY <1>1, GroupedIs
<1>3. f[0] = e
  BY <1>1, <1>2 DEF Groups
<1>4. QED BY <1>1, <1>2, <1>3

(* The first operator groups first.                                        *)
LEMMA GroupedMore ==
  ASSUME NEW S, NEW e, NEW x, NEW m \in Seq(S)
  PROVE  Grouped(e, <<x>> \o m) =
           Grouped(Node("binary", x.operator, <<e, x.tree>>), m)
<1> DEFINE s == <<x>> \o m
           d == Node("binary", x.operator, <<e, x.tree>>)
<1>1. Len(s) = Len(m) + 1 /\ s[1] = x /\ \A j \in 1 .. Len(m) : s[j + 1] = m[j]
  BY InFront
<1> HIDE DEF s
<1>2. PICK N \in Nat : N = Len(m)
  OBVIOUS
<1>3. Len(s) = N + 1
  BY <1>1, <1>2
<1>4. PICK f : Groups(f, e, s) /\ Grouped(e, s) = f[N + 1]
  BY <1>2, <1>3, GroupedIs
<1> HIDE DEF d
<1>5. PICK g : Groups(g, d, m) /\ Grouped(d, m) = g[N]
  BY <1>2, GroupedIs
<1>6. /\ f[0] = e
      /\ \A k \in 1 .. N + 1 :
           f[k] = Node("binary", s[k].operator, <<f[k - 1], s[k].tree>>)
  <2>1. 0 \in 0 .. N + 1 /\ \A k \in 1 .. N + 1 : k \in 0 .. N + 1 /\ k # 0
    OBVIOUS
  <2>2. QED BY <1>3, <1>4, <2>1 DEF Groups
<1>7. /\ g[0] = d
      /\ \A k \in 1 .. N :
           g[k] = Node("binary", m[k].operator, <<g[k - 1], m[k].tree>>)
  <2>1. 0 \in 0 .. N /\ \A k \in 1 .. N : k \in 0 .. N /\ k # 0
    OBVIOUS
  <2>2. QED BY <1>2, <1>5, <2>1 DEF Groups
<1> DEFINE K == {k \in Nat : k <= N => f[k + 1] = g[k]}
<1>8. 0 \in K
  <2>1. 1 \in 1 .. N + 1 /\ 1 - 1 = 0 /\ 0 + 1 = 1
    OBVIOUS
  <2>2. f[1] = Node("binary", s[1].operator, <<f[1 - 1], s[1].tree>>)
    BY <1>6, <2>1
  <2>3. f[1] = d
    BY <1>1, <1>6, <2>1, <2>2 DEF d
  <2>4. QED BY <1>7, <2>1, <2>3
<1>9. ASSUME NEW k \in Nat, k \in K PROVE k + 1 \in K
  <2>1. SUFFICES ASSUME k + 1 <= N PROVE f[(k + 1) + 1] = g[k + 1]
    OBVIOUS
  <2>2. /\ (k + 1) + 1 \in 1 .. N + 1 /\ k + 1 \in 1 .. N /\ k <= N
        /\ ((k + 1) + 1) - 1 = k + 1 /\ (k + 1) - 1 = k
    BY <2>1
  <2>3. f[k + 1] = g[k]
    BY <1>9, <2>2
  <2>4. s[(k + 1) + 1] = m[k + 1]
    BY <1>1, <1>2, <2>2
  <2>5. f[(k + 1) + 1] = Node("binary", s[(k + 1) + 1].operator,
                              <<f[k + 1], s[(k + 1) + 1].tree>>)
    BY <1>6, <2>2
  <2>6. g[k + 1] = Node("binary", m[k + 1].operator, <<g[k], m[k + 1].tree>>)
    BY <1>7, <2>2
  <2>7. QED BY <2>3, <2>4, <2>5, <2>6
<1>10. \A k \in Nat : k \in K
  <2> HIDE DEF K
  <2>1. QED BY <1>8, <1>9, Every
<1>11. f[N + 1] = g[N]
  BY <1>10
<1>12. QED BY <1>4, <1>5, <1>11 DEF s, d

(* What is written of a list, up to each of its members.                   *)
Separates(f, s, tss) ==
  f = [i \in 0 .. Len(tss) |->
         IF i = 0 THEN <<>>
         ELSE IF i = 1 THEN tss[1] ELSE f[i - 1] \o s \o tss[i]]

(* What is written of a list is the one of Separates.                      *)
LEMMA SeparatedIs ==
  ASSUME NEW T, NEW s \in Seq(T), NEW tss \in Seq(Seq(T))
  PROVE  \E f : /\ Separates(f, s, tss) /\ Separated(s, tss) = f[Len(tss)]
                /\ \A i \in 0 .. Len(tss) : f[i] \in Seq(T)
<1> DEFINE N == Len(tss)
           At1(i, d) == IF i = 1 THEN tss[1] ELSE d \o s \o tss[i]
           G == [p \in (1 .. N) \X Seq(T) |-> At1(p[1], p[2])]
           Is(f) == f = [i \in 0 .. N |-> IF i = 0 THEN <<>>
                           ELSE IF i = 1 THEN tss[1] ELSE f[i - 1] \o s \o tss[i]]
           upTo == CHOOSE f : Is(f)
<1>1. N \in Nat /\ \A i \in 1 .. N : tss[i] \in Seq(T)
  OBVIOUS
<1>2. Separated(s, tss) = upTo[N]
  BY DEF Separated
<1>3. \A f : Is(f) <=> Separates(f, s, tss)
  BY DEF Separates
<1>4. \A f : Is(f) <=> f = [i \in 0 .. N |-> IF i = 0 THEN <<>> ELSE At1(i, f[i - 1])]
  OBVIOUS
<1>5. ASSUME NEW i \in 1 .. N, NEW d \in Seq(T) PROVE At1(i, d) \in Seq(T)
  <2>1. d \o s \in Seq(T)
    BY ConcatProperties
  <2>2. tss[i] \in Seq(T) /\ (i = 1 => tss[1] \in Seq(T))
    BY <1>1
  <2>3. d \o s \o tss[i] \in Seq(T)
    BY <2>1, <2>2, ConcatProperties
  <2>4. QED BY <2>2, <2>3
<1> HIDE DEF N, At1, Is
<1>6. \A i \in 1 .. N, d \in Seq(T) : G[<<i, d>>] = At1(i, d)
  OBVIOUS
<1>7. G \in [(1 .. N) \X Seq(T) -> Seq(T)]
  BY <1>5
<1> HIDE DEF G
<1>8. <<>> \in Seq(T)
  OBVIOUS
<1>9. PICK f \in [0 .. N -> Seq(T)] :
        f = [i \in 0 .. N |-> IF i = 0 THEN <<>> ELSE G[<<i, f[i - 1]>>]]
  <2>1. Steps(N, Seq(T), <<>>, G)
    BY <1>1, <1>7, <1>8, StepByStep
  <2>2. QED BY <2>1 DEF Steps
<1>10. ASSUME NEW i \in 0 .. N PROVE f[i] = IF i = 0 THEN <<>> ELSE At1(i, f[i - 1])
  <2>1. CASE i = 0
    BY <1>9, <2>1
  <2>2. CASE i # 0
    <3>1. i \in 1 .. N /\ i - 1 \in 0 .. N
      BY <1>1, <2>2
    <3>2. f[i - 1] \in Seq(T)
      BY <3>1
    <3>3. f[i] = G[<<i, f[i - 1]>>]
      BY <1>9, <2>2
    <3>4. QED BY <1>6, <2>2, <3>1, <3>2, <3>3
  <2>3. QED BY <2>1, <2>2
<1>11. f = [i \in 0 .. N |-> IF i = 0 THEN <<>> ELSE At1(i, f[i - 1])]
  BY <1>10
<1>12. Is(f)
  BY <1>4, <1>11
<1>13. Is(upTo)
  BY <1>12
<1> HIDE DEF upTo
<1>14. upTo = [i \in 0 .. N |-> IF i = 0 THEN <<>> ELSE At1(i, upTo[i - 1])]
  BY <1>4, <1>13
<1> DEFINE K == {i \in Nat : i <= N => upTo[i] \in Seq(T)}
<1>15. 0 \in K
  BY <1>1, <1>8, <1>14
<1>16. ASSUME NEW i \in Nat, i \in K PROVE i + 1 \in K
  <2>1. SUFFICES ASSUME i + 1 <= N PROVE upTo[i + 1] \in Seq(T)
    OBVIOUS
  <2>2. i + 1 \in 0 .. N /\ i + 1 # 0 /\ (i + 1) - 1 = i /\ i + 1 \in 1 .. N /\ i <= N
    BY <1>1, <2>1
  <2>3. upTo[i] \in Seq(T)
    BY <1>16, <2>2
  <2>4. upTo[i + 1] = At1(i + 1, upTo[i])
    BY <1>14, <2>2
  <2>5. QED BY <1>5, <2>2, <2>3, <2>4
<1>17. \A i \in Nat : i \in K
  <2> HIDE DEF K
  <2>1. QED BY <1>15, <1>16, Every
<1>18. \A i \in 0 .. N : upTo[i] \in Seq(T)
  BY <1>1, <1>17
<1>19. QED BY <1>2, <1>3, <1>13, <1>18 DEF N

(* Nothing is written of an empty list, and no separator of one text.      *)
LEMMA SeparatedFew ==
  ASSUME NEW T, NEW s \in Seq(T), NEW x \in Seq(T)
  PROVE  Separated(s, <<>>) = <<>> /\ Separated(s, <<x>>) = x
<1>1. Separated(s, <<>>) = <<>>
  <2>1. <<>> \in Seq(Seq(T)) /\ Len(<<>>) = 0
    OBVIOUS
  <2>2. PICK f : Separates(f, s, <<>>) /\ Separated(s, <<>>) = f[Len(<<>>)]
    BY <2>1, SeparatedIs
  <2>3. f[0] = <<>>
    BY <2>1, <2>2 DEF Separates
  <2>4. QED BY <2>1, <2>2, <2>3
<1>2. Separated(s, <<x>>) = x
  <2> DEFINE tss == <<x>>
  <2>1. tss \in Seq(Seq(T)) /\ Len(tss) = 1 /\ tss[1] = x
    OBVIOUS
  <2> HIDE DEF tss
  <2>2. PICK f : Separates(f, s, tss) /\ Separated(s, tss) = f[Len(tss)]
    BY <2>1, SeparatedIs
  <2>3. f[1] = tss[1]
    BY <2>1, <2>2 DEF Separates
  <2>4. QED BY <2>1, <2>2, <2>3 DEF tss
<1>3. QED BY <1>1, <1>2

(* Sequences are grouped in either way.                                    *)
Regroups(a, b, c, d) == a \o b \o c \o d = a \o (b \o c \o d)

(* Four sequences.                                                         *)
LEMMA Regrouped ==
  ASSUME NEW T, NEW a \in Seq(T), NEW b \in Seq(T), NEW c \in Seq(T), NEW d \in Seq(T)
  PROVE  Regroups(a, b, c, d)
BY DEF Regroups

(* One more text is written in front, with a separator.                    *)
LEMMA SeparatedMore ==
  ASSUME NEW T, NEW s \in Seq(T), NEW x \in Seq(T),
         NEW m \in Seq(Seq(T)), Len(m) >= 1
  PROVE  Separated(s, <<x>> \o m) = x \o s \o Separated(s, m)
<1> DEFINE l == <<x>> \o m
<1>1. Len(l) = Len(m) + 1 /\ l[1] = x /\ \A j \in 1 .. Len(m) : l[j + 1] = m[j]
  BY InFront
<1>2. l \in Seq(Seq(T))
  <2>1. <<x>> \in Seq(Seq(T))
    OBVIOUS
  <2>2. QED BY <2>1, ConcatProperties
<1> HIDE DEF l
<1>3. PICK N \in Nat : N = Len(m)
  OBVIOUS
<1>4. Len(l) = N + 1 /\ N >= 1 /\ \A j \in 1 .. N : m[j] \in Seq(T)
  BY <1>1, <1>3
<1>5. PICK f : /\ Separates(f, s, l) /\ Separated(s, l) = f[N + 1]
               /\ \A i \in 0 .. N + 1 : f[i] \in Seq(T)
  <2>1. \E f : /\ Separates(f, s, l) /\ Separated(s, l) = f[Len(l)]
               /\ \A i \in 0 .. Len(l) : f[i] \in Seq(T)
    BY <1>2, SeparatedIs
  <2>2. QED BY <1>4, <2>1
<1>6. PICK g : /\ Separates(g, s, m) /\ Separated(s, m) = g[N]
               /\ \A i \in 0 .. N : g[i] \in Seq(T)
  BY <1>3, SeparatedIs
<1>7. f[1] = x /\ \A i \in 2 .. N + 1 : f[i] = f[i - 1] \o s \o l[i]
  <2>1. 1 \in 0 .. N + 1 /\ \A i \in 2 .. N + 1 : i \in 0 .. N + 1 /\ i # 0 /\ i # 1
    BY <1>4
  <2>2. QED BY <1>1, <1>4, <1>5, <2>1 DEF Separates
<1>8. g[1] = m[1] /\ \A i \in 2 .. N : g[i] = g[i - 1] \o s \o m[i]
  <2>1. 1 \in 0 .. N /\ \A i \in 2 .. N : i \in 0 .. N /\ i # 0 /\ i # 1
    BY <1>4
  <2>2. QED BY <1>3, <1>6, <2>1 DEF Separates
<1>9. x \o s \in Seq(T)
  BY ConcatProperties
<1> DEFINE P(k) == k + 1 <= N => f[k + 2] = (x \o s) \o g[k + 1]
           K == {k \in Nat : P(k)}
<1>10. 0 \in K
  <2>1. 2 \in 2 .. N + 1 /\ 1 \in 1 .. N /\ 2 - 1 = 1 /\ 1 + 1 = 2 /\ 0 + 1 = 1 /\ 0 + 2 = 2
    BY <1>4
  <2>2. f[2] = f[1] \o s \o l[2] /\ l[2] = m[1]
    <3>1. f[2] = f[2 - 1] \o s \o l[2]
      BY <1>7, <2>1
    <3>2. l[1 + 1] = m[1]
      BY <1>1, <1>3, <2>1
    <3>3. QED BY <2>1, <3>1, <3>2
  <2>3. QED BY <1>7, <1>8, <2>1, <2>2
<1>11. ASSUME NEW k \in Nat, k \in K PROVE k + 1 \in K
  <2> HIDE DEF P
  <2>1. P(k) /\ (P(k + 1) => k + 1 \in K)
    BY <1>11
  <2> USE DEF P
  <2>2. SUFFICES ASSUME (k + 1) + 1 <= N
                 PROVE  f[(k + 1) + 2] = (x \o s) \o g[(k + 1) + 1]
    BY <2>1
  <2>3. /\ (k + 1) + 2 \in 2 .. N + 1 /\ ((k + 1) + 2) - 1 = k + 2
        /\ (k + 1) + 1 \in 2 .. N /\ ((k + 1) + 1) - 1 = k + 1
        /\ (k + 1) + 1 \in 1 .. N /\ ((k + 1) + 1) + 1 = (k + 1) + 2
        /\ k + 1 \in 0 .. N /\ k + 1 <= N
    BY <1>4, <2>2
  <2>4. f[k + 2] = (x \o s) \o g[k + 1]
    BY <2>1, <2>3
  <2>5. l[(k + 1) + 2] = m[(k + 1) + 1]
    BY <1>1, <1>3, <2>3
  <2> DEFINE a == g[k + 1]
             b == m[(k + 1) + 1]
             c == x \o s
  <2>6. a \in Seq(T) /\ b \in Seq(T) /\ c \in Seq(T)
    BY <1>4, <1>6, <1>9, <2>3
  <2>7. f[(k + 1) + 2] = f[k + 2] \o s \o b
    BY <1>7, <2>3, <2>5
  <2>8. g[(k + 1) + 1] = a \o s \o b
    BY <1>8, <2>3
  <2> HIDE DEF a, b, c
  <2>9. (c \o a) \o s \o b = c \o (a \o s \o b)
    <3>1. PICK u \in Seq(T), v \in Seq(T), w \in Seq(T) : u = a /\ v = b /\ w = c
      BY <2>6
    <3>2. w \o u \o s \o v = w \o (u \o s \o v)
      <4>1. Regroups(w, u, s, v)
        BY Regrouped
      <4>2. QED BY <4>1 DEF Regroups
    <3>3. QED BY <3>1, <3>2
  <2>10. f[k + 2] = c \o a
    BY <2>4 DEF a, c
  <2>11. f[(k + 1) + 2] = c \o g[(k + 1) + 1]
    BY <2>7, <2>8, <2>9, <2>10
  <2>12. QED BY <2>11 DEF c
<1>12. \A k \in Nat : k \in K
  <2> HIDE DEF K
  <2>1. QED BY <1>10, <1>11, Every
<1>13. N - 1 \in Nat /\ (N - 1) + 1 = N /\ (N - 1) + 2 = N + 1
  BY <1>4
<1>14. f[N + 1] = (x \o s) \o g[N]
  <2>1. N - 1 \in K
    BY <1>12, <1>13
  <2>2. (N - 1) + 1 <= N
    BY <1>13
  <2>3. f[(N - 1) + 2] = (x \o s) \o g[(N - 1) + 1]
    BY <2>1, <2>2
  <2>4. QED BY <1>13, <2>3
<1>15. QED BY <1>5, <1>6, <1>14 DEF l

-----------------------------------------------------------------------------
(* Two pieces of a text.                                                   *)
Joins(ts, i, j, k) ==
  Piece(ts, i, j) \in Seq(Tokens) /\ Piece(ts, i, j) \o Piece(ts, j, k) = Piece(ts, i, k)

(* Pieces of a text are joined.                                            *)
LEMMA Joined ==
  ASSUME NEW ts \in Seq(Tokens), NEW i \in 1 .. Len(ts) + 1,
         NEW j \in i .. Len(ts) + 1, NEW k \in j .. Len(ts) + 1
  PROVE  Joins(ts, i, j, k)
BY Pieces DEF Joins

(* Where the parser sees a token, the text has it.                         *)
LEMMA TokenIs ==
  ASSUME NEW ts \in Seq(Tokens), NEW i \in 1 .. Len(ts) + 1,
         NEW t, Token(ts, i) = t, t # "end"
  PROVE  /\ i \in 1 .. Len(ts) /\ i + 1 \in 1 .. Len(ts) + 1
         /\ ts[i] = t /\ Piece(ts, i, i + 1) = <<t>>
<1>1. i \in 1 .. Len(ts) /\ ts[i] = t
  BY DEF Token
<1>2. Piece(ts, i, i + 1) = <<ts[i]>>
  BY <1>1, OneToken
<1>3. QED BY <1>1, <1>2

(* What the parser says of a goal is right: it has gone on, and the tree   *)
(* is written as what it has passed.                                       *)
LevelRight(ts, i, p) ==
  /\ p.at \in 0 .. Len(ts) + 1
  /\ ~Fails(p) => p.at > i /\ Writes(p.tree, Piece(ts, i, p.at))

ArgumentsRight(ts, i, p) ==
  /\ p.at \in 0 .. Len(ts) + 1
  /\ ~Fails(p) => /\ p.at > i /\ WritesAll(p.tree, Piece(ts, i, p.at))
                  /\ Len(p.tree) >= 1 /\ \E S : p.tree \in Seq(S)

RestRight(ts, i, p) ==
  /\ p.at \in 0 .. Len(ts) + 1
  /\ ~Fails(p) =>
       /\ p.at >= i /\ \E S : p.tree \in Seq(S)
       /\ \A e : \A w \in Seq(Tokens) :
            Writes(e, w) => Writes(Grouped(e, p.tree), w \o Piece(ts, i, p.at))

(* Of what begins behind i, f and h say the same, and they are right.      *)
Behind(ts, f, h, i) ==
  \A j \in i + 1 .. Len(ts) + 1 : \A m \in Levels :
    /\ At(f, j, m) = At(h, j, m) /\ LevelRight(ts, j, At(f, j, m))
    /\ f[<<"rest", j, m>>] = h[<<"rest", j, m>>]
    /\ RestRight(ts, j, f[<<"rest", j, m>>])
    /\ f[<<"arguments", j, m>>] = h[<<"arguments", j, m>>]
    /\ ArgumentsRight(ts, j, f[<<"arguments", j, m>>])

(* Nothing wrong is said where the parser fails.                           *)
LEMMA FailedRight ==
  ASSUME NEW ts \in Seq(Tokens), NEW i
  PROVE  LevelRight(ts, i, Failed) /\ ArgumentsRight(ts, i, Failed) /\ RestRight(ts, i, Failed)
BY DEF LevelRight, ArgumentsRight, RestRight, Failed, Fails, Parsed

(* What was parsed.                                                        *)
LEMMA ParsedIs ==
  ASSUME NEW e, NEW at
  PROVE  /\ Parsed(e, at).tree = e /\ Parsed(e, at).at = at
         /\ at \in Nat /\ at >= 1 => ~Fails(Parsed(e, at))
BY DEF Parsed, Fails

(* What is closed by a token.                                              *)
LEMMA ClosedRight ==
  ASSUME NEW ts \in Seq(Tokens), NEW i \in 1 .. Len(ts) + 1,
         NEW j \in i .. Len(ts) + 1, NEW p, NEW args, NEW kind, NEW text, NEW w,
         p.at \in 0 .. Len(ts) + 1, ~Fails(p) => p.at >= j,
         ~Fails(p) => Writes(Node(kind, text, args), w),
         ~Fails(p) /\ Token(ts, p.at) = ")" => w = Piece(ts, i, p.at + 1)
  PROVE  LevelRight(ts, i, Closed(ts, p, ")", kind, text, args))
<1> DEFINE c == Closed(ts, p, ")", kind, text, args)
           e == Node(kind, text, args)
<1>1. CASE ~Fails(p) /\ Token(ts, p.at) = ")"
  <2>1. c = Parsed(e, p.at + 1)
    BY <1>1 DEF Closed
  <2>2. p.at \in j .. Len(ts) + 1 /\ p.at \in 1 .. Len(ts) + 1
    BY <1>1
  <2>3. p.at + 1 \in 1 .. Len(ts) + 1 /\ p.at + 1 > i
    BY <1>1, <2>2, TokenIs
  <2>4. Writes(e, Piece(ts, i, p.at + 1))
    BY <1>1
  <2> HIDE DEF c, e
  <2>5. c.tree = e /\ c.at = p.at + 1
    BY <2>1, ParsedIs
  <2>6. QED BY <2>3, <2>4, <2>5 DEF LevelRight, c
<1>2. CASE ~(~Fails(p) /\ Token(ts, p.at) = ")")
  <2>1. c = Failed
    BY <1>2 DEF Closed
  <2>2. QED BY <2>1, FailedRight
<1>3. QED BY <1>1, <1>2

-----------------------------------------------------------------------------
(* The text between two parentheses.                                       *)
LEMMA Enclosed ==
  ASSUME NEW ts \in Seq(Tokens), NEW i \in 1 .. Len(ts) + 1, Token(ts, i) = "(",
         NEW k \in i + 1 .. Len(ts) + 1, Token(ts, k) = ")"
  PROVE  k + 1 \in i + 1 .. Len(ts) + 1 /\ Between(Piece(ts, i + 1, k)) = Piece(ts, i, k + 1)
<1>1. PICK N \in Nat : N = Len(ts)
  OBVIOUS
<1>2. "(" # "end" /\ ")" # "end"
  OBVIOUS
<1>3. i \in 1 .. N /\ i + 1 \in i .. N + 1 /\ i + 1 \in 1 .. N + 1 /\ Piece(ts, i, i + 1) = <<"(">>
  BY <1>1, <1>2, TokenIs
<1>4. k \in 1 .. N + 1 /\ k \in i + 1 .. N + 1 /\ k \in i .. N + 1
  BY <1>1
<1>5. k \in 1 .. N /\ Piece(ts, k, k + 1) = <<")">>
  BY <1>1, <1>2, <1>4, TokenIs
<1>6. k + 1 \in k .. N + 1 /\ k + 1 \in i + 1 .. N + 1
  BY <1>4, <1>5
<1>7. Joins(ts, i, i + 1, k) /\ Joins(ts, i, k, k + 1)
  BY <1>1, <1>3, <1>4, <1>6, Joined
<1>8. Between(Piece(ts, i + 1, k)) =
        Piece(ts, i, i + 1) \o Piece(ts, i + 1, k) \o Piece(ts, k, k + 1)
  BY <1>3, <1>5 DEF Between
<1>9. QED BY <1>1, <1>6, <1>7, <1>8 DEF Joins

(* Of one token.                                                           *)
LEMMA LeafRight ==
  ASSUME NEW ts \in Seq(Tokens), NEW i \in 1 .. Len(ts) + 1,
         NEW t, Token(ts, i) = t, t # "end", NEW k \in {"literal", "variable"}
  PROVE  LevelRight(ts, i, Parsed(Node(k, t, <<>>), i + 1))
<1> DEFINE e == Node(k, t, <<>>)
           p == Parsed(e, i + 1)
<1>1. i \in 1 .. Len(ts) /\ Piece(ts, i, i + 1) = <<t>>
  BY TokenIs
<1>2. Writes(e, <<t>>)
  BY WritesLeaf
<1> HIDE DEF e
<1>3. p.tree = e /\ p.at = i + 1
  BY ParsedIs
<1> HIDE DEF p
<1>4. LevelRight(ts, i, p)
  BY <1>1, <1>2, <1>3 DEF LevelRight
<1>5. QED BY <1>4 DEF p, e

(* Of an expression in parentheses.                                        *)
LEMMA ParenthesesRight ==
  ASSUME NEW ts \in Seq(Tokens), NEW i \in 1 .. Len(ts) + 1, Token(ts, i) = "(",
         NEW p, LevelRight(ts, i + 1, p)
  PROVE  LevelRight(ts, i, Closed(ts, p, ")", "parentheses", "", <<p.tree>>))
<1>1. PICK s : s = ""
  OBVIOUS
<1>2. i + 1 \in i .. Len(ts) + 1
  <2>1. "(" # "end"
    OBVIOUS
  <2>2. QED BY <2>1, TokenIs
<1> DEFINE w == Between(Piece(ts, i + 1, p.at))
           args == <<p.tree>>
<1>3. p.at \in 0 .. Len(ts) + 1 /\ (~Fails(p) => p.at >= i + 1)
  BY <1>2 DEF LevelRight
<1>4. ~Fails(p) => Writes(Node("parentheses", "", args), w)
  BY WritesOne DEF LevelRight
<1>5. ~Fails(p) /\ Token(ts, p.at) = ")" => w = Piece(ts, i, p.at + 1)
  <2>1. SUFFICES ASSUME ~Fails(p), Token(ts, p.at) = ")" PROVE w = Piece(ts, i, p.at + 1)
    OBVIOUS
  <2>2. p.at \in i + 1 .. Len(ts) + 1
    BY <1>2, <1>3, <2>1
  <2>3. QED BY <2>1, <2>2, Enclosed
<1> HIDE DEF w, args
<1>6. ~Fails(p) => Writes(Node("parentheses", s, args), w)
  BY <1>1, <1>4
<1>7. LevelRight(ts, i, Closed(ts, p, ")", "parentheses", s, args))
  <2>1. PICK j \in i .. Len(ts) + 1 : j = i + 1
    BY <1>2
  <2>2. ~Fails(p) => p.at >= j
    BY <1>3, <2>1
  <2>3. PICK k : k = "parentheses"
    OBVIOUS
  <2>4. ~Fails(p) => Writes(Node(k, s, args), w)
    BY <1>6, <2>3
  <2>5. LevelRight(ts, i, Closed(ts, p, ")", k, s, args))
    BY <1>3, <1>5, <2>2, <2>4, ClosedRight
  <2>6. QED BY <2>3, <2>5
<1>8. QED BY <1>1, <1>7 DEF args

(* The call of a function, with arguments and without.                     *)
LEMMA CallRight ==
  ASSUME NEW ts \in Seq(Tokens), NEW i \in 1 .. Len(ts) + 1,
         NEW t, Token(ts, i) = t, t # "end", Token(ts, i + 1) = "("
  PROVE  /\ i + 2 \in i + 1 .. Len(ts) + 1
         /\ Token(ts, i + 2) = ")" =>
              LevelRight(ts, i, Parsed(Node("function", t, <<>>), i + 3))
         /\ \A p : ArgumentsRight(ts, i + 2, p) =>
              LevelRight(ts, i, Closed(ts, p, ")", "function", t, p.tree))
<1>1. PICK N \in Nat : N = Len(ts)
  OBVIOUS
<1>2. "(" # "end"
  OBVIOUS
<1>3. i \in 1 .. N /\ i + 1 \in i .. N + 1 /\ Piece(ts, i, i + 1) = <<t>>
  BY <1>1, TokenIs
<1>4. PICK j \in 1 .. N + 1 : j = i + 1
  BY <1>1, <1>3
<1>5. j \in 1 .. N /\ j + 1 \in 1 .. N + 1 /\ j + 1 = i + 2
  BY <1>1, <1>2, <1>4, TokenIs
<1>6. ASSUME NEW k \in i + 2 .. N + 1, Token(ts, k) = ")"
      PROVE  /\ k + 1 \in 1 .. N + 1
             /\ Piece(ts, i, k + 1) = <<t>> \o Between(Piece(ts, i + 2, k))
  <2>1. k \in j + 1 .. N + 1
    BY <1>4, <1>6
  <2>2. k + 1 \in j + 1 .. N + 1 /\ Between(Piece(ts, j + 1, k)) = Piece(ts, j, k + 1)
    BY <1>1, <1>4, <1>6, <2>1, Enclosed
  <2>3. k + 1 \in j .. N + 1
    BY <2>1, <2>2
  <2>4. j \in i .. N + 1
    BY <1>3, <1>4
  <2>5. Joins(ts, i, j, k + 1)
    BY <1>1, <2>3, <2>4, Joined
  <2>6. Piece(ts, i, j) \o Piece(ts, j, k + 1) = Piece(ts, i, k + 1)
    BY <2>5 DEF Joins
  <2>7. Piece(ts, i, j) = <<t>>
    BY <1>3, <1>4
  <2>8. Piece(ts, j, k + 1) = Between(Piece(ts, i + 2, k))
    BY <1>5, <2>2
  <2>9. k + 1 \in 1 .. N + 1
    BY <2>3
  <2>10. QED BY <2>6, <2>7, <2>8, <2>9
<1>7. ASSUME Token(ts, i + 2) = ")"
      PROVE  LevelRight(ts, i, Parsed(Node("function", t, <<>>), i + 3))
  <2>1. PICK k \in i + 2 .. N + 1 : k = i + 2
    BY <1>4, <1>5
  <2>2. k + 1 \in 1 .. N + 1 /\ Piece(ts, i, k + 1) = <<t>> \o Between(Piece(ts, i + 2, k))
    BY <1>6, <1>7, <2>1
  <2>3. Piece(ts, k, k) = <<>>
    <3>1. k \in 1 .. N + 1 /\ k \in k .. N + 1
      BY <1>3, <2>1
    <3>2. QED BY <1>1, <3>1, Pieces
  <2>4. WritesAll(<<>>, <<>>)
    <3>1. Written(<<>>) = <<>> /\ <<>> \in Seq(Seq(Tokens))
      BY DEF Written
    <3>2. "," \in Tokens
      BY DEF Tokens
    <3>3. Separated(<<",">>, <<>>) = <<>>
      <4>1. PICK c \in Tokens : c = ","
        BY <3>2
      <4>2. <<c>> \in Seq(Tokens)
        OBVIOUS
      <4>3. <<>> \in Seq(Tokens)
        OBVIOUS
      <4>4. Separated(<<c>>, <<>>) = <<>>
        BY <4>2, <4>3, SeparatedFew
      <4>5. QED BY <4>1, <4>4
    <3>4. QED BY <3>1, <3>3 DEF WritesAll
  <2>5. Writes(Node("function", t, <<>>), <<t>> \o Between(<<>>))
    BY <2>4, WritesCall
  <2> DEFINE e == Node("function", t, <<>>)
             p == Parsed(e, i + 3)
  <2>6. Writes(e, Piece(ts, i, k + 1))
    BY <2>1, <2>2, <2>3, <2>5
  <2> HIDE DEF e
  <2>7. p.tree = e /\ p.at = i + 3
    BY ParsedIs
  <2> HIDE DEF p
  <2>8. p.at = k + 1 /\ k + 1 > i
    BY <2>1, <2>7
  <2>9. LevelRight(ts, i, p)
    BY <1>1, <2>2, <2>6, <2>7, <2>8 DEF LevelRight
  <2>10. QED BY <2>9 DEF p, e
<1>8. ASSUME NEW p, ArgumentsRight(ts, i + 2, p)
      PROVE  LevelRight(ts, i, Closed(ts, p, ")", "function", t, p.tree))
  <2> DEFINE w == <<t>> \o Between(Piece(ts, i + 2, p.at))
             args == p.tree
  <2>1. p.at \in 0 .. Len(ts) + 1 /\ (~Fails(p) => p.at >= i + 2)
    BY <1>8, <1>5, <1>4 DEF ArgumentsRight
  <2>2. ~Fails(p) => Writes(Node("function", t, args), w)
    BY <1>8, WritesCall DEF ArgumentsRight
  <2>3. ~Fails(p) /\ Token(ts, p.at) = ")" => w = Piece(ts, i, p.at + 1)
    <3>1. SUFFICES ASSUME ~Fails(p), Token(ts, p.at) = ")" PROVE w = Piece(ts, i, p.at + 1)
      OBVIOUS
    <3>2. p.at \in i + 2 .. N + 1
      BY <1>1, <1>4, <2>1, <3>1
    <3>3. QED BY <1>6, <3>1, <3>2
  <2> HIDE DEF w, args
  <2>4. PICK k : k = "function"
    OBVIOUS
  <2>5. ~Fails(p) => Writes(Node(k, t, args), w)
    BY <2>2, <2>4
  <2>6. PICK m \in i .. Len(ts) + 1 : m = i + 2
    BY <1>1, <1>3, <1>5
  <2>7. ~Fails(p) => p.at >= m
    BY <2>1, <2>6
  <2>8. LevelRight(ts, i, Closed(ts, p, ")", k, t, args))
    BY <2>1, <2>3, <2>5, <2>7, ClosedRight
  <2>9. QED BY <2>4, <2>8 DEF args
<1>9. i + 2 \in i + 1 .. Len(ts) + 1
  BY <1>1, <1>4, <1>5
<1>10. QED BY <1>7, <1>8, <1>9

-----------------------------------------------------------------------------
(* What is parsed at i is right, and the same by f and h, when what is     *)
(* parsed behind i is.                                                     *)
LEMMA UnitRight ==
  ASSUME NEW ts \in Seq(Tokens), NEW i \in 1 .. Len(ts) + 1,
         NEW f, NEW h, Behind(ts, f, h, i)
  PROVE  /\ ParseUnit(ts, f, i) = ParseUnit(ts, h, i)
         /\ LevelRight(ts, i, ParseUnit(ts, f, i))
<1> DEFINE t == Token(ts, i)
<1>1. 10 \in Levels
  BY DEF Levels
<1>2. CASE t = "("
  <2> DEFINE p == At(f, i + 1, 10)
             q == At(h, i + 1, 10)
  <2>1. "(" # "end"
    OBVIOUS
  <2>2. i + 1 \in i + 1 .. Len(ts) + 1
    BY <1>2, <2>1, TokenIs
  <2>3. p = q /\ LevelRight(ts, i + 1, p)
    BY <1>1, <2>2 DEF Behind
  <2>4. /\ ParseUnit(ts, f, i) = Closed(ts, p, ")", "parentheses", "", <<p.tree>>)
        /\ ParseUnit(ts, h, i) = Closed(ts, q, ")", "parentheses", "", <<q.tree>>)
    BY <1>2 DEF ParseUnit
  <2> HIDE DEF p, q
  <2>5. LevelRight(ts, i, Closed(ts, p, ")", "parentheses", "", <<p.tree>>))
    BY <1>2, <2>3, ParenthesesRight
  <2>6. QED BY <2>3, <2>4, <2>5
<1>3. CASE t # "(" /\ t \in Functions \cup Variables /\ Token(ts, i + 1) = "("
  <2>1. t # "end"
    BY <1>3, TokenAssumption DEF Functions
  <2>2. CASE Token(ts, i + 2) = ")"
    <3>1. /\ ParseUnit(ts, f, i) = Parsed(Node("function", t, <<>>), i + 3)
          /\ ParseUnit(ts, h, i) = Parsed(Node("function", t, <<>>), i + 3)
      BY <1>3, <2>2 DEF ParseUnit
    <3>2. LevelRight(ts, i, Parsed(Node("function", t, <<>>), i + 3))
      BY <1>3, <2>1, <2>2, CallRight
    <3>3. QED BY <3>1, <3>2
  <2>3. CASE Token(ts, i + 2) # ")"
    <3> DEFINE p == f[<<"arguments", i + 2, 10>>]
               q == h[<<"arguments", i + 2, 10>>]
    <3>1. i + 2 \in i + 1 .. Len(ts) + 1
      BY <1>3, <2>1, CallRight
    <3>2. p = q /\ ArgumentsRight(ts, i + 2, p)
      BY <1>1, <3>1 DEF Behind
    <3>3. /\ ParseUnit(ts, f, i) = Closed(ts, p, ")", "function", t, p.tree)
          /\ ParseUnit(ts, h, i) = Closed(ts, q, ")", "function", t, q.tree)
      BY <1>3, <2>3 DEF ParseUnit
    <3> HIDE DEF p, q
    <3>4. LevelRight(ts, i, Closed(ts, p, ")", "function", t, p.tree))
      BY <1>3, <2>1, <3>2, CallRight
    <3>5. QED BY <3>2, <3>3, <3>4
  <2>4. QED BY <2>2, <2>3
<1>4. CASE /\ t # "(" /\ ~(t \in Functions \cup Variables /\ Token(ts, i + 1) = "(")
           /\ t \in Functions \cup Variables
  <2>1. t # "end"
    BY <1>4, TokenAssumption DEF Functions
  <2>2. /\ ParseUnit(ts, f, i) = Parsed(Node("variable", t, <<>>), i + 1)
        /\ ParseUnit(ts, h, i) = Parsed(Node("variable", t, <<>>), i + 1)
    BY <1>4 DEF ParseUnit
  <2>3. LevelRight(ts, i, Parsed(Node("variable", t, <<>>), i + 1))
    BY <2>1, LeafRight
  <2>4. QED BY <2>2, <2>3
<1>5. CASE t # "(" /\ t \notin Functions \cup Variables /\ t \in Literals
  <2>1. t # "end"
    BY <1>5, TokenAssumption
  <2>2. /\ ParseUnit(ts, f, i) = Parsed(Node("literal", t, <<>>), i + 1)
        /\ ParseUnit(ts, h, i) = Parsed(Node("literal", t, <<>>), i + 1)
    BY <1>5 DEF ParseUnit
  <2>3. LevelRight(ts, i, Parsed(Node("literal", t, <<>>), i + 1))
    BY <2>1, LeafRight
  <2>4. QED BY <2>2, <2>3
<1>6. CASE t # "(" /\ t \notin Functions \cup Variables /\ t \notin Literals
  <2>1. ParseUnit(ts, f, i) = Failed /\ ParseUnit(ts, h, i) = Failed
    BY <1>6 DEF ParseUnit
  <2>2. QED BY <2>1, FailedRight
<1>7. QED BY <1>2, <1>3, <1>4, <1>5, <1>6

(* Of a prefix operator, or of none.                                       *)
LEMMA PrefixRight ==
  ASSUME NEW ts \in Seq(Tokens), NEW i \in 1 .. Len(ts) + 1,
         NEW f, NEW h, Behind(ts, f, h, i)
  PROVE  /\ ParsePrefix(ts, f, i) = ParsePrefix(ts, h, i)
         /\ LevelRight(ts, i, ParsePrefix(ts, f, i))
<1>1. CASE Token(ts, i) \in PrefixOperators
  <2> DEFINE t == Token(ts, i)
             p == At(f, i + 1, 80)
             q == At(h, i + 1, 80)
             r == ParsePrefix(ts, f, i)
  <2>1. t # "end" /\ 80 \in Levels
    BY <1>1 DEF PrefixOperators, Levels
  <2>2. i \in 1 .. Len(ts) /\ ts[i] = t /\ Piece(ts, i, i + 1) = <<t>>
    BY <2>1, TokenIs
  <2>3. i + 1 \in i + 1 .. Len(ts) + 1 /\ i + 1 \in i .. Len(ts) + 1
    BY <2>2
  <2>4. p = q /\ LevelRight(ts, i + 1, p)
    BY <2>1, <2>3 DEF Behind
  <2>5. /\ r = IF Fails(p) THEN Failed ELSE Parsed(Node("unary", t, <<p.tree>>), p.at)
        /\ ParsePrefix(ts, h, i) =
             IF Fails(q) THEN Failed ELSE Parsed(Node("unary", t, <<q.tree>>), q.at)
    BY <1>1, <2>2 DEF ParsePrefix
  <2> HIDE DEF p, q, r, t
  <2>6. CASE Fails(p)
    BY <2>4, <2>5, <2>6, FailedRight DEF r
  <2>7. CASE ~Fails(p)
    <3> DEFINE e == Node("unary", t, <<p.tree>>)
               w == Piece(ts, i + 1, p.at)
    <3>1. Writes(p.tree, w) /\ p.at \in i + 1 .. Len(ts) + 1
      BY <2>3, <2>4, <2>7 DEF LevelRight
    <3>2. Writes(e, <<t>> \o w)
      BY <3>1, WritesOne
    <3>3. Joins(ts, i, i + 1, p.at)
      BY <2>3, <3>1, Joined
    <3>4. Writes(e, Piece(ts, i, p.at))
      BY <2>2, <3>2, <3>3 DEF Joins
    <3> HIDE DEF e
    <3>5. r = Parsed(e, p.at)
      BY <2>5, <2>7 DEF e
    <3>6. r.tree = e /\ r.at = p.at
      BY <3>5, ParsedIs
    <3>7. LevelRight(ts, i, r)
      BY <3>1, <3>4, <3>6 DEF LevelRight
    <3>8. QED BY <2>4, <2>5, <3>7 DEF r
  <2>8. QED BY <2>6, <2>7
<1>2. CASE Token(ts, i) \notin PrefixOperators
  <2>1. /\ ParsePrefix(ts, f, i) = ParseUnit(ts, f, i)
        /\ ParsePrefix(ts, h, i) = ParseUnit(ts, h, i)
    BY <1>2 DEF ParsePrefix
  <2>2. QED BY <2>1, UnitRight
<1>3. QED BY <1>1, <1>2

(* A piece, a token and a piece.                                           *)
LEMMA Around ==
  ASSUME NEW ts \in Seq(Tokens), NEW i \in 1 .. Len(ts) + 1,
         NEW j \in i .. Len(ts) + 1, NEW t, Token(ts, j) = t, t # "end"
  PROVE  /\ j + 1 \in i + 1 .. Len(ts) + 1
         /\ \A k \in j + 1 .. Len(ts) + 1 :
              Piece(ts, i, j) \o <<t>> \o Piece(ts, j + 1, k) = Piece(ts, i, k)
<1>1. PICK N \in Nat : N = Len(ts)
  OBVIOUS
<1>2. j \in 1 .. N + 1 /\ j \in i .. N + 1
  BY <1>1
<1>3. j \in 1 .. N /\ Piece(ts, j, j + 1) = <<t>>
  BY <1>1, <1>2, TokenIs
<1>4. j + 1 \in i + 1 .. N + 1 /\ j + 1 \in j .. N + 1 /\ j + 1 \in i .. N + 1
  BY <1>1, <1>2, <1>3
<1>5. ASSUME NEW k \in j + 1 .. N + 1
      PROVE  Piece(ts, i, j) \o <<t>> \o Piece(ts, j + 1, k) = Piece(ts, i, k)
  <2>1. Joins(ts, i, j, j + 1) /\ Joins(ts, i, j + 1, k)
    BY <1>1, <1>2, <1>4, Joined
  <2>2. QED BY <1>3, <2>1 DEF Joins
<1>6. QED BY <1>1, <1>4, <1>5

(* Of a conditional, with its branches or without.                         *)
LEMMA ConditionalRight ==
  ASSUME NEW ts \in Seq(Tokens), NEW i \in 1 .. Len(ts) + 1,
         NEW f, NEW h, Behind(ts, f, h, i),
         At(f, i, 20) = At(h, i, 20), LevelRight(ts, i, At(f, i, 20))
  PROVE  /\ ParseConditional(ts, f, i) = ParseConditional(ts, h, i)
         /\ LevelRight(ts, i, ParseConditional(ts, f, i))
<1> DEFINE c == At(f, i, 20)
           t == At(f, c.at + 1, 10)
           e == At(f, t.at + 1, 10)
           r == ParseConditional(ts, f, i)
           s == ParseConditional(ts, h, i)
<1>1. PICK N \in Nat : N = Len(ts)
  OBVIOUS
<1>2. 10 \in Levels
  BY DEF Levels
<1>3. \A j \in i + 1 .. N + 1 : At(f, j, 10) = At(h, j, 10) /\ LevelRight(ts, j, At(f, j, 10))
  BY <1>1, <1>2 DEF Behind
<1>4. CASE Fails(c) \/ Token(ts, c.at) # "?"
  <2>1. r = c /\ s = c
    BY <1>4 DEF ParseConditional
  <2>2. QED BY <2>1
<1>5. CASE ~(Fails(c) \/ Token(ts, c.at) # "?")
  <2>1. Writes(c.tree, Piece(ts, i, c.at)) /\ c.at \in i .. N + 1 /\ c.at > i
    BY <1>1, <1>5 DEF LevelRight
  <2>2. c.at + 1 \in i + 1 .. N + 1 /\ c.at + 1 \in 1 .. N + 1
    <3>1. "?" # "end"
      OBVIOUS
    <3>2. c.at + 1 \in i + 1 .. N + 1
      BY <1>1, <1>5, <2>1, <3>1, Around
    <3>3. QED BY <1>1, <3>2
  <2>3. t = At(h, c.at + 1, 10) /\ LevelRight(ts, c.at + 1, t)
    BY <1>3, <2>2
  <2>4. CASE Fails(t) \/ Token(ts, t.at) # ":"
    <3>1. r = Failed /\ s = Failed
      BY <1>5, <2>3, <2>4 DEF ParseConditional
    <3>2. QED BY <3>1, FailedRight
  <2>5. CASE ~(Fails(t) \/ Token(ts, t.at) # ":")
    <3>1. /\ Writes(t.tree, Piece(ts, c.at + 1, t.at))
          /\ t.at \in c.at + 1 .. N + 1 /\ t.at > c.at + 1
      BY <1>1, <2>2, <2>3, <2>5 DEF LevelRight
    <3>2. t.at + 1 \in (c.at + 1) + 1 .. N + 1
      <4>1. ":" # "end"
        OBVIOUS
      <4>2. QED BY <1>1, <2>2, <2>5, <3>1, <4>1, Around
    <3>3. t.at + 1 \in i + 1 .. N + 1 /\ t.at + 1 \in 1 .. N + 1
      BY <1>1, <2>2, <3>1, <3>2
    <3>4. e = At(h, t.at + 1, 10) /\ LevelRight(ts, t.at + 1, e)
      BY <1>3, <3>3
    <3>5. CASE Fails(e)
      <4>1. r = Failed /\ s = Failed
        BY <1>5, <2>3, <2>5, <3>4, <3>5 DEF ParseConditional
      <4>2. QED BY <4>1, FailedRight
    <3>6. CASE ~Fails(e)
      <4> DEFINE d == Node("conditional", "", <<c.tree, t.tree, e.tree>>)
      <4>1. r = Parsed(d, e.at) /\ s = Parsed(d, e.at)
        BY <1>5, <2>3, <2>5, <3>4, <3>6 DEF ParseConditional
      <4> HIDE DEF r, s, c, t, e
      <4>2. /\ Writes(e.tree, Piece(ts, t.at + 1, e.at))
            /\ e.at \in t.at + 1 .. N + 1 /\ e.at > t.at + 1
        BY <1>1, <3>3, <3>4, <3>6 DEF LevelRight
      <4> DEFINE u == Piece(ts, i, c.at)
                 v == Piece(ts, c.at + 1, t.at)
                 w == Piece(ts, t.at + 1, e.at)
      <4>3. Writes(d, u \o <<"?">> \o v \o <<":">> \o w)
        BY <2>1, <3>1, <4>2, WritesConditional
      <4>4. u \o <<"?">> \o v = Piece(ts, i, t.at)
        <5>1. "?" # "end" /\ Token(ts, c.at) = "?"
          BY <1>5
        <5>2. QED BY <1>1, <2>1, <3>1, <5>1, Around
      <4>5. t.at \in i .. N + 1 /\ t.at + 1 \in t.at + 1 .. N + 1 /\ e.at \in t.at + 1 .. N + 1
        BY <1>1, <2>1, <3>1, <3>2, <4>2
      <4>6. Piece(ts, i, t.at) \o <<":">> \o w = Piece(ts, i, e.at)
        <5>1. ":" # "end" /\ Token(ts, t.at) = ":"
          BY <2>5
        <5>2. QED BY <1>1, <4>5, <5>1, Around
      <4>7. Writes(d, Piece(ts, i, e.at))
        BY <4>3, <4>4, <4>6
      <4> HIDE DEF d
      <4>8. r.tree = d /\ r.at = e.at
        BY <4>1, ParsedIs
      <4>9. e.at \in 0 .. Len(ts) + 1 /\ e.at > i
        BY <1>1, <4>2, <4>5
      <4>10. LevelRight(ts, i, r)
        BY <4>7, <4>8, <4>9 DEF LevelRight
      <4>11. QED BY <4>1, <4>10 DEF r, s
    <3>7. QED BY <3>5, <3>6
  <2>6. QED BY <2>4, <2>5
<1>6. QED BY <1>4, <1>5

(* Of one argument, and of one more in front of others.                    *)
LEMMA WritesLast ==
  ASSUME NEW a, NEW w \in Seq(Tokens), Writes(a, w)
  PROVE  WritesAll(<<a>>, w)
<1> DEFINE es == <<a>>
<1>1. DOMAIN es = {1} /\ es[1] = a
  OBVIOUS
<1>2. ASSUME es \in Seq(Trees), \A i \in DOMAIN es : Plain(es[i])
      PROVE  /\ Written(es) \in Seq(Seq(Tokens))
             /\ Separated(<<",">>, Written(es)) = w
  <2>1. a \in Trees /\ Plain(a)
    BY <1>1, <1>2, ElementOfSeq
  <2>2. Represent[a] = w
    BY <2>1 DEF Writes
  <2>3. Written(es) = <<w>>
    <3>1. Written(es) = [i \in {1} |-> w]
      <4> HIDE DEF es
      <4>1. QED BY <1>1, <2>2 DEF Written
    <3>2. QED BY <3>1
  <2>4. <<w>> \in Seq(Seq(Tokens))
    OBVIOUS
  <2>5. Separated(<<",">>, <<w>>) = w
    <3>1. "," \in Tokens
      BY DEF Tokens
    <3>2. PICK c \in Tokens : c = ","
      BY <3>1
    <3>3. <<c>> \in Seq(Tokens)
      OBVIOUS
    <3>4. Separated(<<c>>, <<w>>) = w
      BY <3>3, SeparatedFew
    <3>5. QED BY <3>2, <3>4
  <2>6. QED BY <2>3, <2>4, <2>5
<1> HIDE DEF es
<1>3. WritesAll(es, w)
  BY <1>2 DEF WritesAll
<1>4. QED BY <1>3 DEF es

(* Of one argument in front of others.                                     *)
LEMMA WritesMore ==
  ASSUME NEW a, NEW w \in Seq(Tokens), Writes(a, w),
         NEW S, NEW m \in Seq(S), Len(m) >= 1, NEW v, WritesAll(m, v)
  PROVE  WritesAll(<<a>> \o m, w \o <<",">> \o v)
<1> DEFINE es == <<a>> \o m
<1>1. /\ Len(es) = Len(m) + 1 /\ es \in Seq(S \cup {a}) /\ es[1] = a
      /\ \A j \in 1 .. Len(m) : es[j + 1] = m[j]
  BY InFront
<1> HIDE DEF es
<1>2. PICK N \in Nat : N = Len(m)
  OBVIOUS
<1>3. DOMAIN es = 1 .. N + 1 /\ DOMAIN m = 1 .. N /\ N >= 1 /\ m = [j \in 1 .. N |-> m[j]]
  BY <1>1, <1>2
<1>4. ASSUME es \in Seq(Trees), \A i \in DOMAIN es : Plain(es[i])
      PROVE  /\ Written(es) \in Seq(Seq(Tokens))
             /\ Separated(<<",">>, Written(es)) = w \o <<",">> \o v
  <2>1. \A i \in 1 .. N + 1 : es[i] \in Trees /\ Plain(es[i])
    BY <1>3, <1>4, ElementOfSeq
  <2>2. ASSUME NEW j \in 1 .. N PROVE m[j] \in Trees /\ Plain(m[j])
    <3>1. j + 1 \in 1 .. N + 1 /\ es[j + 1] = m[j]
      BY <1>1, <1>2
    <3>2. QED BY <2>1, <3>1
  <2>3. m \in Seq(Trees)
    <3>1. [j \in 1 .. N |-> m[j]] \in [1 .. N -> Trees]
      BY <2>2
    <3>2. QED BY <1>3, <3>1, SeqDef
  <2>4. Written(m) \in Seq(Seq(Tokens)) /\ Separated(<<",">>, Written(m)) = v
    BY <1>3, <2>2, <2>3 DEF WritesAll
  <2>5. Len(Written(m)) = N /\ \A j \in 1 .. N : Written(m)[j] = Represent[m[j]]
    <3>1. DOMAIN Written(m) = 1 .. N /\ \A j \in 1 .. N : Written(m)[j] = Represent[m[j]]
      BY <1>3 DEF Written
    <3>2. PICK q \in Seq(Seq(Tokens)) : q = Written(m)
      BY <2>4
    <3>3. PICK M \in Nat : M = Len(q) /\ DOMAIN q = 1 .. M
      OBVIOUS
    <3>4. M = N
      BY <3>1, <3>2, <3>3
    <3>5. QED BY <3>1, <3>2, <3>3, <3>4
  <2>6. Represent[a] = w
    <3>1. 1 \in 1 .. N + 1
      BY <1>3
    <3>2. QED BY <1>1, <2>1, <3>1 DEF Writes
  <2> DEFINE l == <<w>> \o Written(m)
  <2>7. /\ l \in Seq(Seq(Tokens) \cup {w}) /\ Len(l) = N + 1 /\ l[1] = w
        /\ \A j \in 1 .. N : l[j + 1] = Written(m)[j]
    <3>1. PICK q \in Seq(Seq(Tokens)) : q = Written(m)
      BY <2>4
    <3>2. /\ <<w>> \o q \in Seq(Seq(Tokens) \cup {w}) /\ Len(<<w>> \o q) = Len(q) + 1
          /\ (<<w>> \o q)[1] = w /\ \A j \in 1 .. Len(q) : (<<w>> \o q)[j + 1] = q[j]
      BY InFront
    <3>3. QED BY <2>5, <3>1, <3>2
  <2>8. Seq(Tokens) \cup {w} = Seq(Tokens)
    OBVIOUS
  <2> HIDE DEF l
  <2>9. Written(es) = l
    <3>1. l = [i \in 1 .. N + 1 |-> l[i]]
      BY <2>7
    <3>2. Written(es) = [i \in 1 .. N + 1 |-> Represent[es[i]]]
      BY <1>3 DEF Written
    <3>3. ASSUME NEW i \in 1 .. N + 1 PROVE l[i] = Represent[es[i]]
      <4>1. CASE i = 1
        BY <1>1, <2>6, <2>7, <4>1
      <4>2. CASE i # 1
        <5>1. PICK j \in 1 .. N : i = j + 1
          <6>1. i - 1 \in 1 .. N /\ i = (i - 1) + 1
            BY <4>2
          <6>2. QED BY <6>1
        <5>2. QED BY <1>1, <1>2, <2>5, <2>7, <5>1
      <4>3. QED BY <4>1, <4>2
    <3>4. QED BY <3>1, <3>2, <3>3
  <2>10. Separated(<<",">>, l) = w \o <<",">> \o v
    <3>1. "," \in Tokens
      BY DEF Tokens
    <3>2. PICK c \in Tokens : c = ","
      BY <3>1
    <3>3. <<c>> \in Seq(Tokens)
      OBVIOUS
    <3>4. Separated(<<c>>, l) = w \o <<c>> \o Separated(<<c>>, Written(m))
      BY <1>3, <2>4, <2>5, <3>3, SeparatedMore DEF l
    <3>5. QED BY <2>4, <3>2, <3>4
  <2>11. QED BY <2>7, <2>8, <2>9, <2>10
<1>5. WritesAll(es, w \o <<",">> \o v)
  BY <1>4 DEF WritesAll
<1>6. QED BY <1>5 DEF es

(* Of the arguments of a call.                                             *)
LEMMA ArgumentListRight ==
  ASSUME NEW ts \in Seq(Tokens), NEW i \in 1 .. Len(ts) + 1,
         NEW f, NEW h, Behind(ts, f, h, i),
         At(f, i, 10) = At(h, i, 10), LevelRight(ts, i, At(f, i, 10))
  PROVE  /\ ParseArguments(ts, f, i) = ParseArguments(ts, h, i)
         /\ ArgumentsRight(ts, i, ParseArguments(ts, f, i))
<1> DEFINE p == At(f, i, 10)
           more == f[<<"arguments", p.at + 1, 10>>]
           r == ParseArguments(ts, f, i)
           s == ParseArguments(ts, h, i)
           w == Piece(ts, i, p.at)
<1>1. PICK N \in Nat : N = Len(ts)
  OBVIOUS
<1>2. 10 \in Levels
  BY DEF Levels
<1>3. CASE Fails(p)
  <2>1. r = Failed /\ s = Failed
    BY <1>3 DEF ParseArguments
  <2>2. QED BY <2>1, FailedRight
<1>4. ASSUME ~Fails(p)
      PROVE  /\ p.at \in i .. N + 1 /\ p.at > i /\ w \in Seq(Tokens) /\ Writes(p.tree, w)
  <2>1. p.at \in i .. N + 1 /\ p.at > i /\ Writes(p.tree, w)
    BY <1>1, <1>4 DEF LevelRight
  <2>2. i \in i .. N + 1 /\ p.at \in p.at .. N + 1
    BY <1>1, <2>1
  <2>3. QED BY <1>1, <2>1, <2>2, Joined DEF Joins
<1>5. CASE ~Fails(p) /\ Token(ts, p.at) # ","
  <2> DEFINE es == <<p.tree>>
  <2>1. r = Parsed(es, p.at) /\ s = Parsed(es, p.at)
    BY <1>5 DEF ParseArguments
  <2>2. WritesAll(es, w)
    BY <1>4, <1>5, WritesLast
  <2>3. Len(es) >= 1 /\ es \in Seq({p.tree})
    OBVIOUS
  <2> HIDE DEF es, r, s, p
  <2>4. r.tree = es /\ r.at = p.at
    BY <2>1, ParsedIs
  <2>5. ArgumentsRight(ts, i, r)
    <3>1. p.at \in 0 .. Len(ts) + 1 /\ p.at > i
      <4>1. p.at \in i .. N + 1 /\ p.at > i
        BY <1>4, <1>5
      <4>2. QED BY <1>1, <4>1
    <3>2. WritesAll(es, Piece(ts, i, p.at)) /\ \E S : es \in Seq(S)
      BY <2>2, <2>3
    <3>3. QED BY <2>3, <2>4, <3>1, <3>2 DEF ArgumentsRight
  <2>6. QED BY <2>1, <2>5 DEF r, s
<1>6. CASE ~Fails(p) /\ Token(ts, p.at) = ","
  <2>1. p.at + 1 \in i + 1 .. N + 1 /\ p.at + 1 \in 1 .. N + 1
    <3>1. "," # "end"
      OBVIOUS
    <3>2. p.at + 1 \in i + 1 .. N + 1
      BY <1>1, <1>4, <1>6, <3>1, Around
    <3>3. QED BY <1>1, <3>2
  <2>2. /\ more = h[<<"arguments", p.at + 1, 10>>]
        /\ ArgumentsRight(ts, p.at + 1, more)
    BY <1>1, <1>2, <2>1 DEF Behind
  <2>3. CASE Fails(more)
    <3>1. r = Failed /\ s = Failed
      BY <1>6, <2>2, <2>3 DEF ParseArguments
    <3>2. QED BY <3>1, FailedRight
  <2>4. CASE ~Fails(more)
    <3> DEFINE es == <<p.tree>> \o more.tree
               v == Piece(ts, p.at + 1, more.at)
    <3>1. r = Parsed(es, more.at) /\ s = Parsed(es, more.at)
      BY <1>6, <2>2, <2>4 DEF ParseArguments
    <3>2. /\ more.at \in p.at + 1 .. N + 1 /\ more.at > p.at + 1 /\ Len(more.tree) >= 1
          /\ WritesAll(more.tree, v)
      <4>1. /\ more.at \in 0 .. N + 1 /\ more.at > p.at + 1 /\ Len(more.tree) >= 1
            /\ WritesAll(more.tree, v)
        BY <1>1, <2>2, <2>4 DEF ArgumentsRight
      <4>2. QED BY <2>1, <4>1
    <3>3. PICK S : more.tree \in Seq(S)
      BY <2>2, <2>4 DEF ArgumentsRight
    <3> HIDE DEF r, s, p, more
    <3>4. WritesAll(es, w \o <<",">> \o v)
      BY <1>4, <1>6, <3>2, <3>3, WritesMore
    <3>5. w \o <<",">> \o v = Piece(ts, i, more.at)
      <4>1. "," # "end" /\ Token(ts, p.at) = ","
        BY <1>6
      <4>2. QED BY <1>1, <1>4, <1>6, <3>2, <4>1, Around
    <3>6. Len(es) >= 1 /\ \E T : es \in Seq(T)
      <4>1. Len(es) = Len(more.tree) + 1 /\ es \in Seq(S \cup {p.tree})
        BY <3>3, InFront
      <4>2. PICK M \in Nat : M = Len(more.tree)
        BY <3>3
      <4> HIDE DEF es
      <4>3. QED BY <4>1, <4>2
    <3>7. WritesAll(es, Piece(ts, i, more.at))
      BY <3>4, <3>5
    <3> HIDE DEF es
    <3>8. r.tree = es /\ r.at = more.at
      BY <3>1, ParsedIs
    <3>9. more.at \in 0 .. Len(ts) + 1 /\ more.at > i
      <4>1. p.at \in i .. N + 1 /\ p.at > i
        BY <1>4, <1>6
      <4>2. QED BY <1>1, <3>2, <4>1
    <3>10. ArgumentsRight(ts, i, r)
      BY <3>6, <3>7, <3>8, <3>9 DEF ArgumentsRight
    <3>11. QED BY <3>1, <3>10 DEF r, s
  <2>5. QED BY <2>3, <2>4
<1>7. QED BY <1>3, <1>5, <1>6

(* The levels of the operators.                                            *)
LEMMA OperatorLevels ==
  /\ \A o : Level(o) \in {0, 20, 30, 40, 50, 60, 70}
  /\ \A o : Level(o) \in Levels => o # "end" /\ Level(o) + 10 \in Levels
<1>1. \A o : Level(o) \in {0, 20, 30, 40, 50, 60, 70}
  BY DEF Level
<1>2. ASSUME NEW o, Level(o) \in Levels PROVE o # "end"
  <2>1. Level("end") = 0
    BY DEF Level
  <2>2. QED BY <1>2, <2>1 DEF Levels
<1>3. ASSUME NEW o, Level(o) \in Levels PROVE Level(o) + 10 \in Levels
  BY <1>1, <1>3 DEF Levels
<1>4. QED BY <1>1, <1>2, <1>3

(* Of no more operators.                                                   *)
LEMMA NoRestRight ==
  ASSUME NEW ts \in Seq(Tokens), NEW i \in 1 .. Len(ts) + 1
  PROVE  RestRight(ts, i, Parsed(<<>>, i))
<1> DEFINE es == <<>>
           p == Parsed(es, i)
<1>1. es \in Seq({}) /\ \A e : Grouped(e, es) = e
  BY GroupedNone
<1>2. Piece(ts, i, i) = <<>>
  <2>1. i \in i .. Len(ts) + 1
    OBVIOUS
  <2>2. QED BY <2>1, Pieces
<1>3. ASSUME NEW e, NEW w \in Seq(Tokens), Writes(e, w)
      PROVE  Writes(Grouped(e, es), w \o Piece(ts, i, i))
  <2>1. w \o Piece(ts, i, i) = w
    BY <1>2, ConcatEmptySeq
  <2> HIDE DEF es
  <2>2. QED BY <1>1, <1>3, <2>1
<1> HIDE DEF es
<1>4. p.tree = es /\ p.at = i
  BY ParsedIs
<1> HIDE DEF p
<1>5. i \in 0 .. Len(ts) + 1 /\ i >= i
  OBVIOUS
<1>6. \A e : \A w \in Seq(Tokens) :
        Writes(e, w) => Writes(Grouped(e, p.tree), w \o Piece(ts, i, p.at))
  BY <1>3, <1>4
<1>7. \E S : p.tree \in Seq(S)
  BY <1>1, <1>4
<1>8. RestRight(ts, i, p)
  BY <1>4, <1>5, <1>6, <1>7 DEF RestRight
<1>9. QED BY <1>8 DEF p, es

(* Of the operators of a level that follow.                                *)
LEMMA RestIsRight ==
  ASSUME NEW ts \in Seq(Tokens), NEW i \in 1 .. Len(ts) + 1,
         NEW f, NEW h, Behind(ts, f, h, i), NEW l \in Levels
  PROVE  /\ ParseRest(ts, f, i, l) = ParseRest(ts, h, i, l)
         /\ RestRight(ts, i, ParseRest(ts, f, i, l))
<1> DEFINE o == Token(ts, i)
           q == At(f, i + 1, l + 10)
           more == f[<<"rest", q.at, l>>]
           r == ParseRest(ts, f, i, l)
           s == ParseRest(ts, h, i, l)
<1>1. PICK N \in Nat : N = Len(ts)
  OBVIOUS
<1>2. CASE Level(o) # l
  <2>1. r = Parsed(<<>>, i) /\ s = Parsed(<<>>, i)
    BY <1>2 DEF ParseRest
  <2>2. QED BY <2>1, NoRestRight
<1>3. CASE Level(o) = l
  <2>1. o # "end" /\ l + 10 \in Levels
    BY <1>3, OperatorLevels
  <2>2. i \in 1 .. N /\ Piece(ts, i, i + 1) = <<o>>
    BY <1>1, <2>1, TokenIs
  <2>3. i + 1 \in i + 1 .. N + 1 /\ i + 1 \in i .. N + 1 /\ i + 1 \in 1 .. N + 1
    BY <2>2
  <2>4. q = At(h, i + 1, l + 10) /\ LevelRight(ts, i + 1, q)
    BY <1>1, <2>1, <2>3 DEF Behind
  <2>5. CASE Fails(q)
    <3>1. r = Failed /\ s = Failed
      BY <1>3, <2>4, <2>5 DEF ParseRest
    <3>2. QED BY <3>1, FailedRight
  <2>6. CASE ~Fails(q)
    <3>1. /\ Writes(q.tree, Piece(ts, i + 1, q.at))
          /\ q.at \in i + 1 .. N + 1 /\ q.at \in 1 .. N + 1 /\ q.at > i + 1
      BY <1>1, <2>3, <2>4, <2>6 DEF LevelRight
    <3>2. more = h[<<"rest", q.at, l>>] /\ RestRight(ts, q.at, more)
      BY <1>1, <3>1 DEF Behind
    <3>3. CASE Fails(more)
      <4>1. r = Failed /\ s = Failed
        BY <1>3, <2>4, <2>6, <3>2, <3>3 DEF ParseRest
      <4>2. QED BY <4>1, FailedRight
    <3>4. CASE ~Fails(more)
      <4> DEFINE x == [operator |-> o, tree |-> q.tree]
                 es == <<x>> \o more.tree
                 u == Piece(ts, i + 1, q.at)
                 v == Piece(ts, q.at, more.at)
      <4>1. r = Parsed(es, more.at) /\ s = Parsed(es, more.at)
        BY <1>3, <2>4, <2>6, <3>2, <3>4 DEF ParseRest
      <4>2. x.operator = o /\ x.tree = q.tree
        OBVIOUS
      <4>3. more.at \in q.at .. N + 1 /\ \E S : more.tree \in Seq(S)
        <5>1. more.at \in 0 .. N + 1 /\ more.at >= q.at
          BY <1>1, <3>2, <3>4 DEF RestRight
        <5>2. \E S : more.tree \in Seq(S)
          BY <3>2, <3>4, Zenon DEF RestRight
        <5>3. q.at \in 1 .. N + 1
          BY <3>1
        <5> HIDE DEF q, more
        <5>4. more.at \in q.at .. N + 1
          BY <5>1, <5>3
        <5>5. QED BY <5>2, <5>4
      <4>4. \A e : \A w \in Seq(Tokens) : Writes(e, w) => Writes(Grouped(e, more.tree), w \o v)
        BY <3>2, <3>4 DEF RestRight
      <4>5. PICK S : more.tree \in Seq(S)
        BY <4>3
      <4>6. Joins(ts, i, i + 1, q.at) /\ Joins(ts, i, q.at, more.at)
            /\ Joins(ts, i + 1, q.at, more.at) /\ Joins(ts, q.at, more.at, more.at)
        <5>1. /\ q.at \in i .. N + 1 /\ more.at \in i .. N + 1
              /\ more.at \in more.at .. N + 1
          BY <2>3, <3>1, <4>3
        <5>2. QED BY <1>1, <2>3, <3>1, <4>3, <5>1, Joined
      <4> HIDE DEF r, s, o, q, more, x, u, v
      <4>7. <<o>> \in Seq(Tokens) /\ u \in Seq(Tokens) /\ v \in Seq(Tokens)
        BY <2>2, <4>6 DEF Joins, u, v, o, q, more
      <4>8. (<<o>> \o u) \o v = Piece(ts, i, more.at)
        <5>1. <<o>> \o u = Piece(ts, i, q.at)
          BY <2>2, <4>6 DEF Joins, u, o, q
        <5>2. QED BY <4>6, <5>1 DEF Joins, v, q, more
      <4>9. ASSUME NEW e, NEW w \in Seq(Tokens), Writes(e, w)
            PROVE  Writes(Grouped(e, es), w \o Piece(ts, i, more.at))
        <5> DEFINE d == Node("binary", o, <<e, q.tree>>)
        <5>1. Writes(d, w \o <<o>> \o u)
          BY <3>1, <4>9, WritesBinary DEF u, q
        <5>2. w \o <<o>> \o u \in Seq(Tokens)
          BY <4>7, ConcatProperties
        <5>3. Writes(Grouped(d, more.tree), (w \o <<o>> \o u) \o v)
          <6> HIDE DEF d
          <6>1. QED BY <4>4, <5>1, <5>2 DEF more
        <5>4. Regroups(w, <<o>>, u, v)
          BY <4>7, Regrouped
        <5>5. Grouped(e, es) = Grouped(d, more.tree)
          BY <4>2, <4>5, GroupedMore
        <5> HIDE DEF d, es
        <5>6. QED BY <4>8, <5>3, <5>4, <5>5 DEF Regroups
      <4>10. \E T : es \in Seq(T)
        BY <4>5, InFront
      <4> HIDE DEF es
      <4>11. r.tree = es /\ r.at = more.at
        BY <4>1, ParsedIs
      <4>12. more.at \in 0 .. Len(ts) + 1 /\ more.at >= i
        <5>1. q.at \in i + 1 .. N + 1
          BY <3>1 DEF q
        <5>2. QED BY <1>1, <4>3, <5>1
      <4>13. /\ \E T : r.tree \in Seq(T)
             /\ \A e : \A w \in Seq(Tokens) :
                  Writes(e, w) => Writes(Grouped(e, r.tree), w \o Piece(ts, i, r.at))
        BY <4>9, <4>10, <4>11
      <4>14. RestRight(ts, i, r)
        BY <4>11, <4>12, <4>13 DEF RestRight
      <4>15. QED BY <4>1, <4>14 DEF r, s
    <3>5. QED BY <3>3, <3>4
  <2>7. QED BY <2>5, <2>6
<1>4. QED BY <1>2, <1>3

(* Of the operators of a level, grouped to the left.                       *)
LEMMA InfixRight ==
  ASSUME NEW ts \in Seq(Tokens), NEW i \in 1 .. Len(ts) + 1,
         NEW f, NEW h, Behind(ts, f, h, i), NEW l \in Levels,
         At(f, i, l + 10) = At(h, i, l + 10), LevelRight(ts, i, At(f, i, l + 10))
  PROVE  /\ ParseInfix(ts, f, i, l) = ParseInfix(ts, h, i, l)
         /\ LevelRight(ts, i, ParseInfix(ts, f, i, l))
<1> DEFINE p == At(f, i, l + 10)
           rest == f[<<"rest", p.at, l>>]
           r == ParseInfix(ts, f, i, l)
           s == ParseInfix(ts, h, i, l)
<1>1. PICK N \in Nat : N = Len(ts)
  OBVIOUS
<1>2. CASE Fails(p)
  <2>1. r = Failed /\ s = Failed
    BY <1>2 DEF ParseInfix
  <2>2. QED BY <2>1, FailedRight
<1>3. CASE ~Fails(p)
  <2> DEFINE w == Piece(ts, i, p.at)
  <2>1. p.at \in i + 1 .. N + 1 /\ p.at \in i .. N + 1 /\ Writes(p.tree, w)
    BY <1>1, <1>3 DEF LevelRight
  <2>2. rest = h[<<"rest", p.at, l>>] /\ RestRight(ts, p.at, rest)
    BY <1>1, <2>1 DEF Behind
  <2>3. CASE Fails(rest)
    <3>1. r = Failed /\ s = Failed
      BY <1>3, <2>2, <2>3 DEF ParseInfix
    <3>2. QED BY <3>1, FailedRight
  <2>4. CASE ~Fails(rest)
    <3> DEFINE e == Grouped(p.tree, rest.tree)
               v == Piece(ts, p.at, rest.at)
    <3>1. r = Parsed(e, rest.at) /\ s = Parsed(e, rest.at)
      BY <1>3, <2>2, <2>4 DEF ParseInfix
    <3>2. rest.at \in 0 .. N + 1 /\ rest.at >= p.at
      BY <1>1, <2>2, <2>4 DEF RestRight
    <3>3. rest.at \in p.at .. N + 1 /\ rest.at \in 0 .. N + 1 /\ rest.at > i
      BY <2>1, <3>2
    <3>4. Joins(ts, i, p.at, rest.at)
      BY <1>1, <2>1, <3>3, Joined
    <3>5. w \in Seq(Tokens)
      BY <3>4 DEF Joins
    <3>6. \A d : \A u \in Seq(Tokens) : Writes(d, u) => Writes(Grouped(d, rest.tree), u \o v)
      BY <2>2, <2>4 DEF RestRight
    <3>7. w \o v = Piece(ts, i, rest.at)
      BY <3>4 DEF Joins
    <3> HIDE DEF r, s, w, v, p, rest
    <3>8. Writes(e, w \o v)
      BY <2>1, <3>5, <3>6 DEF p, rest
    <3> HIDE DEF e
    <3>9. r.tree = e /\ r.at = rest.at
      BY <3>1, ParsedIs
    <3>10. LevelRight(ts, i, r)
      BY <1>1, <3>3, <3>7, <3>8, <3>9 DEF LevelRight
    <3>11. QED BY <3>1, <3>10 DEF r, s
  <2>5. QED BY <2>3, <2>4
<1>4. QED BY <1>2, <1>3

-----------------------------------------------------------------------------
(* What is said of a goal is right.                                        *)
Right(ts, g, p) ==
  /\ g[1] = "level" => LevelRight(ts, g[2], p)
  /\ g[1] = "rest" => RestRight(ts, g[2], p)
  /\ g[1] = "arguments" => ArgumentsRight(ts, g[2], p)

(* A goal is parsed from goals of a lower rank: behind it, or of an        *)
(* operator that binds more.                                               *)
Rank(ts, g) ==
  100 * ((Len(ts) + 1) - g[2])
    + (IF g[1] = "level" THEN 80 - g[3] ELSE IF g[1] = "rest" THEN 0 ELSE 80)

(* Of the goals of a lower rank, f and h say the same, and they are right. *)
Known(ts, f, h, n) ==
  \A d \in Goals(ts) : Rank(ts, d) < n => f[d] = h[d] /\ Right(ts, d, f[d])

(* The rank of each kind of goal.                                          *)
LEMMA RankIs ==
  ASSUME NEW ts \in Seq(Tokens), NEW i \in 1 .. Len(ts) + 1, NEW l \in Levels
  PROVE  /\ <<"level", i, l>> \in Goals(ts) /\ <<"rest", i, l>> \in Goals(ts)
         /\ <<"arguments", i, l>> \in Goals(ts)
         /\ Rank(ts, <<"level", i, l>>) = 100 * ((Len(ts) + 1) - i) + (80 - l)
         /\ Rank(ts, <<"rest", i, l>>) = 100 * ((Len(ts) + 1) - i)
         /\ Rank(ts, <<"arguments", i, l>>) = 100 * ((Len(ts) + 1) - i) + 80
<1>1. PICK N \in Nat : N = Len(ts)
  OBVIOUS
<1>2. PICK a, b, c : a = "level" /\ b = "rest" /\ c = "arguments"
  OBVIOUS
<1>3. a # b /\ a # c /\ b # c
  BY <1>2
<1>4. /\ <<a, i, l>> \in Goals(ts) /\ <<b, i, l>> \in Goals(ts) /\ <<c, i, l>> \in Goals(ts)
  BY <1>2 DEF Goals
<1>5. \A d : Rank(ts, d) = 100 * ((N + 1) - d[2])
               + (IF d[1] = a THEN 80 - d[3] ELSE IF d[1] = b THEN 0 ELSE 80)
  BY <1>1, <1>2 DEF Rank
<1>6. i \in Int /\ l \in Int
  BY <1>1 DEF Levels
<1>7. /\ Rank(ts, <<a, i, l>>) = 100 * ((N + 1) - i) + (80 - l)
      /\ Rank(ts, <<b, i, l>>) = 100 * ((N + 1) - i)
      /\ Rank(ts, <<c, i, l>>) = 100 * ((N + 1) - i) + 80
  BY <1>3, <1>5, <1>6
<1>8. QED BY <1>1, <1>2, <1>4, <1>7

(* A goal has a kind, a position and a level, and a rank below a bound.    *)
LEMMA GoalIs ==
  ASSUME NEW ts \in Seq(Tokens), NEW g \in Goals(ts)
  PROVE  /\ \E k \in {"level", "rest", "arguments"} : \E i \in 1 .. Len(ts) + 1 :
              \E l \in Levels : g = <<k, i, l>>
         /\ Rank(ts, g) \in Nat /\ Rank(ts, g) < 100 * (Len(ts) + 1)
         /\ Rank(ts, g) >= 100 * ((Len(ts) + 1) - g[2])
<1>1. PICK k \in {"level", "rest", "arguments"}, i \in 1 .. Len(ts) + 1, l \in Levels :
        g = <<k, i, l>>
  BY DEF Goals
<1>2. PICK N \in Nat : N = Len(ts)
  OBVIOUS
<1>3. \/ Rank(ts, g) = 100 * ((N + 1) - i) + (80 - l)
      \/ Rank(ts, g) = 100 * ((N + 1) - i)
      \/ Rank(ts, g) = 100 * ((N + 1) - i) + 80
  <2>1. /\ Rank(ts, <<"level", i, l>>) = 100 * ((N + 1) - i) + (80 - l)
        /\ Rank(ts, <<"rest", i, l>>) = 100 * ((N + 1) - i)
        /\ Rank(ts, <<"arguments", i, l>>) = 100 * ((N + 1) - i) + 80
    BY <1>2, RankIs
  <2>2. g = <<"level", i, l>> \/ g = <<"rest", i, l>> \/ g = <<"arguments", i, l>>
    BY <1>1
  <2>3. QED BY <2>1, <2>2
<1>4. l \in {10, 20, 30, 40, 50, 60, 70, 80}
  BY DEF Levels
<1>5. i \in 1 .. N + 1
  BY <1>2
<1>6. /\ Rank(ts, g) \in Nat /\ Rank(ts, g) < 100 * (N + 1)
      /\ Rank(ts, g) >= 100 * ((N + 1) - i)
  BY <1>3, <1>4, <1>5
<1>7. g[2] = i
  BY <1>1
<1>8. QED BY <1>1, <1>2, <1>6, <1>7

(* What is behind is of a lower rank.                                      *)
LEMMA KnownBehind ==
  ASSUME NEW ts \in Seq(Tokens), NEW i \in 1 .. Len(ts) + 1, NEW f, NEW h,
         NEW n \in Nat, n >= 100 * ((Len(ts) + 1) - i), Known(ts, f, h, n)
  PROVE  Behind(ts, f, h, i)
<1>1. PICK N \in Nat : N = Len(ts)
  OBVIOUS
<1>2. ASSUME NEW j \in i + 1 .. N + 1, NEW m \in Levels
      PROVE  /\ At(f, j, m) = At(h, j, m) /\ LevelRight(ts, j, At(f, j, m))
             /\ f[<<"rest", j, m>>] = h[<<"rest", j, m>>]
             /\ RestRight(ts, j, f[<<"rest", j, m>>])
             /\ f[<<"arguments", j, m>>] = h[<<"arguments", j, m>>]
             /\ ArgumentsRight(ts, j, f[<<"arguments", j, m>>])
  <2>1. j \in 1 .. Len(ts) + 1
    BY <1>1
  <2>2. PICK a, b, c : /\ a = <<"level", j, m>> /\ b = <<"rest", j, m>>
                       /\ c = <<"arguments", j, m>>
    OBVIOUS
  <2>3. /\ a \in Goals(ts) /\ b \in Goals(ts) /\ c \in Goals(ts)
        /\ Rank(ts, a) = 100 * ((N + 1) - j) + (80 - m)
        /\ Rank(ts, b) = 100 * ((N + 1) - j) /\ Rank(ts, c) = 100 * ((N + 1) - j) + 80
    BY <1>1, <2>1, <2>2, RankIs
  <2>4. m \in {10, 20, 30, 40, 50, 60, 70, 80} /\ n >= 100 * ((N + 1) - i)
    BY <1>1 DEF Levels
  <2>5. Rank(ts, a) < n /\ Rank(ts, b) < n /\ Rank(ts, c) < n
    BY <2>3, <2>4
  <2>6. /\ f[a] = h[a] /\ Right(ts, a, f[a]) /\ f[b] = h[b] /\ Right(ts, b, f[b])
        /\ f[c] = h[c] /\ Right(ts, c, f[c])
    BY <2>3, <2>5 DEF Known
  <2>7. /\ a[1] = "level" /\ b[1] = "rest" /\ c[1] = "arguments"
        /\ a[2] = j /\ b[2] = j /\ c[2] = j
    BY <2>2
  <2>8. LevelRight(ts, j, f[a]) /\ RestRight(ts, j, f[b]) /\ ArgumentsRight(ts, j, f[c])
    BY <2>6, <2>7 DEF Right
  <2>9. QED BY <2>2, <2>6, <2>8 DEF At
<1>3. QED BY <1>1, <1>2 DEF Behind

(* What is parsed for a goal from what is right is right.                  *)
LEMMA GoalRight ==
  ASSUME NEW ts \in Seq(Tokens), NEW g \in Goals(ts), NEW f, NEW h,
         Known(ts, f, h, Rank(ts, g))
  PROVE  ParseGoal(ts, f, g) = ParseGoal(ts, h, g) /\ Right(ts, g, ParseGoal(ts, f, g))
<1>1. PICK k \in {"level", "rest", "arguments"}, i \in 1 .. Len(ts) + 1, l \in Levels :
        g = <<k, i, l>>
  BY GoalIs
<1>2. PICK N \in Nat : N = Len(ts)
  OBVIOUS
<1>3. Rank(ts, g) \in Nat /\ g[1] = k /\ g[2] = i /\ g[3] = l
  BY <1>1, GoalIs
<1>4. l \in {10, 20, 30, 40, 50, 60, 70, 80} /\ i \in 1 .. N + 1
  BY <1>2 DEF Levels
<1>5. Rank(ts, g) >= 100 * ((Len(ts) + 1) - i)
  BY <1>3, GoalIs
<1>6. Behind(ts, f, h, i)
  BY <1>3, <1>5, KnownBehind
<1>7. ASSUME NEW m \in Levels, 100 * ((N + 1) - i) + (80 - m) < Rank(ts, g)
      PROVE  At(f, i, m) = At(h, i, m) /\ LevelRight(ts, i, At(f, i, m))
  <2>1. PICK d : d = <<"level", i, m>>
    OBVIOUS
  <2>2. d \in Goals(ts) /\ Rank(ts, d) < Rank(ts, g)
    BY <1>2, <1>7, <2>1, RankIs
  <2>3. f[d] = h[d] /\ Right(ts, d, f[d])
    BY <2>2 DEF Known
  <2>4. d[1] = "level" /\ d[2] = i
    BY <2>1
  <2>5. QED BY <2>1, <2>3, <2>4 DEF Right, At
<1>8. CASE k = "rest"
  <2>1. /\ ParseGoal(ts, f, g) = ParseRest(ts, f, i, l)
        /\ ParseGoal(ts, h, g) = ParseRest(ts, h, i, l)
    BY <1>3, <1>8 DEF ParseGoal
  <2>2. ParseRest(ts, f, i, l) = ParseRest(ts, h, i, l)
        /\ RestRight(ts, i, ParseRest(ts, f, i, l))
    BY <1>6, RestIsRight
  <2>3. g[1] = "rest" /\ "rest" # "level" /\ "rest" # "arguments"
    BY <1>3, <1>8
  <2>4. QED BY <1>3, <2>1, <2>2, <2>3 DEF Right
<1>9. CASE k = "arguments"
  <2>1. /\ ParseGoal(ts, f, g) = ParseArguments(ts, f, i)
        /\ ParseGoal(ts, h, g) = ParseArguments(ts, h, i)
    BY <1>3, <1>9 DEF ParseGoal
  <2>2. Rank(ts, g) = 100 * ((N + 1) - i) + 80
    BY <1>1, <1>2, <1>9, RankIs
  <2>3. 10 \in Levels /\ 100 * ((N + 1) - i) + (80 - 10) < Rank(ts, g)
    BY <1>2, <1>4, <2>2 DEF Levels
  <2>4. At(f, i, 10) = At(h, i, 10) /\ LevelRight(ts, i, At(f, i, 10))
    BY <1>7, <2>3
  <2>5. ParseArguments(ts, f, i) = ParseArguments(ts, h, i)
        /\ ArgumentsRight(ts, i, ParseArguments(ts, f, i))
    BY <1>6, <2>4, ArgumentListRight
  <2>6. g[1] = "arguments" /\ "arguments" # "level" /\ "arguments" # "rest"
    BY <1>3, <1>9
  <2>7. QED BY <1>3, <2>1, <2>5, <2>6 DEF Right
<1>10. CASE k = "level"
  <2>1. /\ ParseGoal(ts, f, g) = ParseLevel(ts, f, i, l)
        /\ ParseGoal(ts, h, g) = ParseLevel(ts, h, i, l)
    BY <1>3, <1>10 DEF ParseGoal
  <2>2. Rank(ts, g) = 100 * ((N + 1) - i) + (80 - l)
    BY <1>1, <1>2, <1>10, RankIs
  <2>3. g[1] = "level" /\ "level" # "arguments" /\ "level" # "rest"
    BY <1>3, <1>10
  <2>4. ParseLevel(ts, f, i, l) = ParseLevel(ts, h, i, l)
        /\ LevelRight(ts, i, ParseLevel(ts, f, i, l))
    <3>1. CASE l = 10
      <4>1. 20 \in Levels /\ 100 * ((N + 1) - i) + (80 - 20) < Rank(ts, g)
        BY <1>2, <1>4, <2>2, <3>1 DEF Levels
      <4>2. At(f, i, 20) = At(h, i, 20) /\ LevelRight(ts, i, At(f, i, 20))
        BY <1>7, <4>1
      <4>3. QED BY <1>6, <3>1, <4>2, ConditionalRight DEF ParseLevel
    <3>2. CASE l = 80
      BY <1>6, <3>2, PrefixRight DEF ParseLevel
    <3>3. CASE l # 10 /\ l # 80
      <4>1. l + 10 \in Levels /\ 100 * ((N + 1) - i) + (80 - (l + 10)) < Rank(ts, g)
        BY <1>2, <1>4, <2>2, <3>3 DEF Levels
      <4>2. At(f, i, l + 10) = At(h, i, l + 10) /\ LevelRight(ts, i, At(f, i, l + 10))
        BY <1>7, <4>1
      <4>3. QED BY <1>6, <3>3, <4>2, InfixRight DEF ParseLevel
    <3>4. QED BY <3>1, <3>2, <3>3
  <2>5. QED BY <1>3, <2>1, <2>3, <2>4 DEF Right
<1>11. QED BY <1>8, <1>9, <1>10

(* What the parser says of every goal of a text, which is right.           *)
Parses(ts, parse) ==
  \A g \in Goals(ts) : parse[g] = ParseGoal(ts, parse, g) /\ Right(ts, g, parse[g])

(* Every goal of a text is parsed.                                         *)
LEMMA ParseIs ==
  ASSUME NEW ts \in Seq(Tokens)
  PROVE  \E parse : /\ Parses(ts, parse)
                    /\ LET p == At(parse, 1, 10)
                       IN Parse(ts) = IF p.at = Len(ts) + 1 THEN p.tree ELSE NoTree
<1> DEFINE Ranked(n) == {g \in Goals(ts) : Rank(ts, g) < n}
           Is(f, n) == f = [g \in Ranked(n) |-> ParseGoal(ts, f, g)]
           Rights(f, n) == \A g \in Ranked(n) : Right(ts, g, f[g])
           S == {n \in Nat : \E f : Is(f, n) /\ Rights(f, n)}
           parse == CHOOSE f : f = [g \in Goals(ts) |-> ParseGoal(ts, f, g)]
           p == At(parse, 1, 10)
<1>1. Parse(ts) = IF p.at = Len(ts) + 1 THEN p.tree ELSE NoTree
  BY DEF Parse
<1>2. \A g \in Goals(ts) : Rank(ts, g) \in Nat /\ Rank(ts, g) < 100 * (Len(ts) + 1)
  BY GoalIs
<1> HIDE DEF parse, p
<1>3. 0 \in S
  <2>1. Ranked(0) = {}
    BY <1>2
  <2> DEFINE f == [g \in {} |-> 0]
  <2>2. Is(f, 0) /\ Rights(f, 0)
    BY <2>1
  <2>3. QED BY <2>2
<1>4. ASSUME NEW n \in Nat, n \in S PROVE n + 1 \in S
  <2>1. PICK f : Is(f, n) /\ Rights(f, n)
    BY <1>4
  <2> DEFINE h == [g \in Ranked(n + 1) |-> ParseGoal(ts, f, g)]
  <2>2. \A g \in Ranked(n) : g \in Ranked(n + 1)
    BY <1>2
  <2>3. \A g \in Ranked(n + 1) : h[g] = ParseGoal(ts, f, g)
    OBVIOUS
  <2>4. h = [g \in Ranked(n + 1) |-> h[g]]
    OBVIOUS
  <2>5. \A g \in Ranked(n) : f[g] = ParseGoal(ts, f, g)
    BY <2>1
  <2> HIDE DEF h
  <2>6. ASSUME NEW g \in Ranked(n + 1)
        PROVE  h[g] = ParseGoal(ts, h, g) /\ Right(ts, g, h[g])
    <3>1. g \in Goals(ts) /\ Rank(ts, g) < n + 1
      OBVIOUS
    <3>2. ASSUME NEW d \in Goals(ts), Rank(ts, d) < Rank(ts, g)
          PROVE  f[d] = h[d] /\ Right(ts, d, f[d])
      <4>1. d \in Ranked(n)
        BY <1>2, <3>1, <3>2
      <4> HIDE DEF Ranked
      <4>2. QED BY <2>1, <2>2, <2>3, <2>5, <4>1
    <3>3. Known(ts, f, h, Rank(ts, g))
      BY <3>2 DEF Known
    <3>4. ParseGoal(ts, f, g) = ParseGoal(ts, h, g) /\ Right(ts, g, ParseGoal(ts, f, g))
      BY <3>1, <3>3, GoalRight
    <3>5. QED BY <2>3, <3>4
  <2> HIDE DEF Ranked
  <2>7. Is(h, n + 1) /\ Rights(h, n + 1)
    BY <2>4, <2>6
  <2>8. QED BY <2>7
<1>5. PICK M \in Nat : M = 100 * (Len(ts) + 1)
  OBVIOUS
<1>6. Ranked(M) = Goals(ts)
  BY <1>2, <1>5
<1>7. M \in S
  <2> HIDE DEF S
  <2>1. QED BY <1>3, <1>4, <1>5, Every
<1>8. \E f : f = [g \in Goals(ts) |-> ParseGoal(ts, f, g)]
  <2> HIDE DEF Ranked
  <2>1. QED BY <1>6, <1>7
<1>9. parse = [g \in Goals(ts) |-> ParseGoal(ts, parse, g)]
  BY <1>8 DEF parse
<1>10. \A g \in Goals(ts) : parse[g] = ParseGoal(ts, parse, g)
  BY <1>9
<1> DEFINE K == {n \in Nat : Rights(parse, n)}
<1>11. 0 \in K
  BY <1>2
<1>12. ASSUME NEW n \in Nat, n \in K PROVE n + 1 \in K
  <2>1. Rights(parse, n)
    BY <1>12
  <2>2. ASSUME NEW g \in Ranked(n + 1) PROVE Right(ts, g, parse[g])
    <3>1. g \in Goals(ts) /\ Rank(ts, g) < n + 1
      OBVIOUS
    <3>2. ASSUME NEW d \in Goals(ts), Rank(ts, d) < Rank(ts, g) PROVE Right(ts, d, parse[d])
      <4>1. d \in Ranked(n)
        BY <1>2, <3>1, <3>2
      <4>2. QED BY <2>1, <4>1
    <3>3. Known(ts, parse, parse, Rank(ts, g))
      BY <3>2 DEF Known
    <3>4. Right(ts, g, ParseGoal(ts, parse, g))
      BY <3>1, <3>3, GoalRight
    <3>5. QED BY <1>10, <3>1, <3>4
  <2>3. Rights(parse, n + 1)
    BY <2>2
  <2>4. QED BY <2>3
<1>13. M \in K
  <2> HIDE DEF K
  <2>1. QED BY <1>5, <1>11, <1>12, Every
<1>14. Parses(ts, parse)
  <2>1. Rights(parse, M)
    BY <1>13
  <2>2. QED BY <1>6, <1>10, <2>1 DEF Parses
<1>15. QED BY <1>1, <1>14 DEF p

(* The tree of a text is written as the text.                              *)
LEMMA ParseRight ==
  ASSUME NEW ts \in Seq(Tokens)
  PROVE  Writes(Parse(ts), ts)
<1>1. PICK parse : /\ Parses(ts, parse)
                   /\ LET p == At(parse, 1, 10)
                      IN Parse(ts) = IF p.at = Len(ts) + 1 THEN p.tree ELSE NoTree
  BY ParseIs
<1> DEFINE p == At(parse, 1, 10)
<1>2. Parse(ts) = IF p.at = Len(ts) + 1 THEN p.tree ELSE NoTree
  BY <1>1
<1> HIDE DEF p
<1>3. LevelRight(ts, 1, p)
  <2>1. PICK g : g = <<"level", 1, 10>>
    OBVIOUS
  <2>2. 1 \in 1 .. Len(ts) + 1 /\ 10 \in Levels
    BY DEF Levels
  <2>3. g \in Goals(ts)
    BY <2>1, <2>2, RankIs
  <2>4. Right(ts, g, parse[g])
    BY <1>1, <2>3 DEF Parses
  <2>5. g[1] = "level" /\ g[2] = 1
    BY <2>1
  <2>6. p = parse[g]
    BY <2>1 DEF p, At
  <2>7. QED BY <2>4, <2>5, <2>6 DEF Right
<1>4. CASE p.at = Len(ts) + 1
  <2>1. ~Fails(p)
    BY <1>4 DEF Fails
  <2>2. Writes(p.tree, Piece(ts, 1, Len(ts) + 1))
    BY <1>3, <1>4, <2>1 DEF LevelRight
  <2>3. Piece(ts, 1, Len(ts) + 1) = ts
    <3>1. (Len(ts) + 1) - 1 = Len(ts)
      OBVIOUS
    <3>2. QED BY <3>1, SubSeqFull DEF Piece
  <2>4. QED BY <1>2, <1>4, <2>2, <2>3
<1>5. CASE p.at # Len(ts) + 1
  <2>1. NoTree \notin Trees
    <3>1. NoTree.kind = "none" /\ "none" \notin DOMAIN Texts
      BY DEF NoTree, Node, Texts
    <3>2. QED BY <3>1, TreesAre
  <2>2. QED BY <1>2, <1>5, <2>1 DEF Writes
<1>6. QED BY <1>4, <1>5

(* Whatever is written is a text, and the tree of a text parsed is written *)
(* as the text.                                                            *)
Represented ==
  /\ source \in Seq(Tokens)
  /\ stage = "parsed" => Writes(tree, source)

(* Texts one after another are a text.                                     *)
LEMMA FiveTexts ==
  ASSUME NEW T, NEW a \in Seq(T), NEW b \in Seq(T), NEW c \in Seq(T), NEW d \in Seq(T),
         NEW e \in Seq(T)
  PROVE  a \o b \o c \in Seq(T) /\ a \o b \o c \o d \o e \in Seq(T)
<1>1. a \o b \in Seq(T)
  BY ConcatProperties
<1>2. a \o b \o c \in Seq(T)
  BY <1>1, ConcatProperties
<1>3. a \o b \o c \o d \in Seq(T)
  BY <1>2, ConcatProperties
<1>4. a \o b \o c \o d \o e \in Seq(T)
  BY <1>3, ConcatProperties
<1>5. QED BY <1>2, <1>4

(* An operand is a text.                                                   *)
LEMMA OperandText ==
  \A a \in Operand : a \in Seq(Tokens)
<1>1. ASSUME NEW a \in Operand PROVE a \in Seq(Tokens)
  <2>1. PICK t \in Literals \cup Variables : a = <<t>>
    BY DEF Operand
  <2>2. t \in Tokens
    BY DEF Tokens
  <2>3. QED BY <2>1, <2>2
<1>2. QED BY <1>1

(* A longer text is a text.                                                *)
LEMMA LongerText ==
  ASSUME NEW ts \in Seq(Tokens), NEW us \in Longer(ts)
  PROVE  us \in Seq(Tokens)
<1>1. \A o \in Operators \cup PrefixOperators \cup Functions
           \cup {"(", ")", ",", "?", ":"} : <<o>> \in Seq(Tokens)
  <2>1. \A o \in Tokens : <<o>> \in Seq(Tokens)
    OBVIOUS
  <2>2. QED BY <2>1, Zenon DEF Tokens
<1>2. \A a \in Operand : a \in Seq(Tokens)
  BY OperandText
<1>3. \A u \in Seq(Tokens), v \in Seq(Tokens) : u \o v \in Seq(Tokens)
  BY ConcatProperties
<1>4. PICK b, c, d, e, q : /\ b = <<"(">> /\ c = <<")">> /\ d = <<",">>
                           /\ e = <<"?">> /\ q = <<":">>
  OBVIOUS
<1>5. /\ b \in Seq(Tokens) /\ c \in Seq(Tokens) /\ d \in Seq(Tokens)
      /\ e \in Seq(Tokens) /\ q \in Seq(Tokens)
  BY <1>1, <1>4
<1>6. \A u \in Seq(Tokens) : Between(u) \in Seq(Tokens)
  BY <1>3, <1>4, <1>5 DEF Between
<1>7. ASSUME NEW o \in Operators, NEW a \in Operand
      PROVE  ts \o <<o>> \o a \in Seq(Tokens) /\ a \o <<o>> \o ts \in Seq(Tokens)
  BY <1>1, <1>2, <1>3
<1>8. ASSUME NEW o \in PrefixOperators
      PROVE  <<o>> \o ts \in Seq(Tokens)
  BY <1>1, <1>3
<1>9. ASSUME NEW f \in Functions
      PROVE  /\ <<f>> \o Between(ts) \in Seq(Tokens)
             /\ \A a \in Operand : <<f>> \o Between(ts \o <<",">> \o a) \in Seq(Tokens)
  <2>1. \A a \in Operand : ts \o d \o a \in Seq(Tokens)
    BY <1>2, <1>3, <1>5
  <2>2. <<f>> \in Seq(Tokens)
    BY <1>1
  <2>3. QED BY <1>3, <1>4, <1>6, <2>1, <2>2
<1>10. ASSUME NEW a \in Operand
       PROVE  /\ ts \o <<"?">> \o a \o <<":">> \o a \in Seq(Tokens)
              /\ a \o <<"?">> \o a \o <<":">> \o ts \in Seq(Tokens)
              /\ a \o <<"?">> \o ts \o <<":">> \o a \in Seq(Tokens)
  <2>1. /\ ts \o e \o a \o q \o a \in Seq(Tokens)
        /\ a \o e \o a \o q \o ts \in Seq(Tokens)
        /\ a \o e \o ts \o q \o a \in Seq(Tokens)
    BY <1>2, <1>5, FiveTexts
  <2>2. QED BY <1>4, <2>1
<1>11. \A a \in Operand : LongerWith(ts, a) \subseteq Seq(Tokens)
  BY <1>7, <1>9, <1>10, Zenon DEF LongerWith
<1>12. CASE us \in UNION {LongerWith(ts, a) : a \in Operand}
  BY <1>11, <1>12
<1>13. CASE us \in {<<o>> \o ts : o \in PrefixOperators}
  BY <1>8, <1>13, Zenon
<1>14. CASE us \in {<<f>> \o Between(ts) : f \in Functions}
  BY <1>9, <1>14, Zenon
<1>15. CASE us \in {Between(ts)}
  BY <1>6, <1>15, Zenon
<1>16. QED BY <1>12, <1>13, <1>14, <1>15, Zenon DEF Longer

(* It stays so, step by step.                                              *)
LEMMA RepresentedCorrect == Spec => []Represented
<1>1. Init => Represented
  <2>1. SUFFICES ASSUME Init PROVE Represented
    OBVIOUS
  <2>2. source \in Seq(Tokens)
    <3>1. CASE source \in Operand
      BY <3>1, OperandText
    <3>2. CASE source \in {<<f, "(", ")">> : f \in Functions}
      <4>1. PICK f \in Functions : source = <<f, "(", ")">>
        BY <3>2
      <4>2. f \in Tokens /\ "(" \in Tokens /\ ")" \in Tokens
        BY DEF Tokens
      <4>3. PICK b \in Tokens, c \in Tokens : b = "(" /\ c = ")"
        BY <4>2
      <4>4. <<f, b, c>> \in Seq(Tokens)
        BY <4>2
      <4>5. QED BY <4>1, <4>3, <4>4
    <3>3. QED BY <2>1, <3>1, <3>2 DEF Init
  <2>3. QED BY <2>1, <2>2 DEF Init, Represented
<1>2. Represented /\ [Next]_vars => Represented'
  <2>1. SUFFICES ASSUME Represented, [Next]_vars PROVE Represented'
    OBVIOUS
  <2>2. CASE \E ts \in Longer(source) : Write(ts)
    <3>1. PICK ts \in Longer(source) : Write(ts)
      BY <2>2
    <3>2. ts \in Seq(Tokens)
      BY <2>1, <3>1, LongerText DEF Represented
    <3>3. QED BY <3>1, <3>2 DEF Represented, Write
  <2>3. CASE ParseText
    <3>1. tree' = Parse(source) /\ source' = source
      BY <2>3 DEF ParseText
    <3>2. Writes(Parse(source), source)
      BY <2>1, ParseRight DEF Represented
    <3>3. Writes(tree', source')
      BY <3>1, <3>2
    <3>4. QED BY <2>1, <3>1, <3>3 DEF Represented, Writes, Plain
  <2>4. CASE ExtractTree
    BY <2>1, <2>4 DEF Represented, ExtractTree
  <2>5. CASE ExtractThrows
    BY <2>1, <2>5 DEF Represented, ExtractThrows
  <2>6. CASE AddToTree
    BY <2>1, <2>6 DEF Represented, AddToTree
  <2>7. CASE UNCHANGED vars
    BY <2>1, <2>7 DEF Represented, vars, Writes, Plain
  <2>8. QED BY <2>1, <2>2, <2>3, <2>4, <2>5, <2>6, <2>7 DEF Next
<1>3. QED BY <1>1, <1>2, PTL DEF Spec

(* The representation of what the ExpressionParser makes of a text is the  *)
(* text: grouping and precedence take nothing from it and add nothing.     *)
THEOREM RepresentsSourceCorrect == Spec => []RepresentsSource
<1>1. Represented /\ Treed => RepresentsSource
  <2>1. SUFFICES ASSUME Represented, Treed, stage = "parsed", Plain(tree)
                 PROVE  Represent[tree] = source
    BY DEF RepresentsSource
  <2>2. tree \in Trees
    BY <2>1 DEF Treed
  <2>3. QED BY <2>1, <2>2 DEF Represented, Writes
<1>2. QED BY <1>1, TreedCorrect, RepresentedCorrect, PTL

-----------------------------------------------------------------------------
(* A text stands in another from position i on.                            *)
Stands(ts, w, i) ==
  i + Len(w) <= Len(ts) + 1 /\ \A k \in 1 .. Len(w) : ts[i + k - 1] = w[k]

(* Of a text in two parts each stands in its place.                        *)
LEMMA StandsTwo ==
  ASSUME NEW T, NEW ts \in Seq(T), NEW u \in Seq(T), NEW v \in Seq(T),
         NEW i \in 1 .. Len(ts) + 1, Stands(ts, u \o v, i)
  PROVE  /\ Stands(ts, u, i) /\ Stands(ts, v, i + Len(u))
         /\ Len(u \o v) = Len(u) + Len(v)
         /\ i + Len(u) \in 1 .. Len(ts) + 1
         /\ i + Len(u) + Len(v) \in 1 .. Len(ts) + 1
<1>1. PICK m \in Nat, n \in Nat, N \in Nat : m = Len(u) /\ n = Len(v) /\ N = Len(ts)
  OBVIOUS
<1>2. PICK w : w = u \o v
  OBVIOUS
<1>3. /\ Len(w) = m + n /\ \A k \in 1 .. m : w[k] = u[k]
      /\ \A k \in 1 .. n : w[k + m] = v[k]
  <2>1. Len(w) = m + n /\ \A k \in 1 .. Len(u) + Len(v) :
          w[k] = IF k <= Len(u) THEN u[k] ELSE v[k - Len(u)]
    BY <1>1, <1>2, ConcatProperties
  <2>2. ASSUME NEW k \in 1 .. m PROVE w[k] = u[k]
    BY <1>1, <2>1
  <2>3. ASSUME NEW k \in 1 .. n PROVE w[k + m] = v[k]
    <3>1. k + m \in 1 .. m + n /\ ~(k + m <= m) /\ (k + m) - m = k
      BY <1>1
    <3>2. QED BY <1>1, <2>1, <3>1
  <2>4. QED BY <2>1, <2>2, <2>3
<1>4. i + (m + n) <= N + 1 /\ \A k \in 1 .. m + n : ts[i + k - 1] = w[k]
  BY <1>1, <1>2, <1>3 DEF Stands
<1>5. Stands(ts, u, i)
  BY <1>1, <1>3, <1>4 DEF Stands
<1>6. Stands(ts, v, i + m)
  <2>1. ASSUME NEW k \in 1 .. n PROVE ts[(i + m) + k - 1] = v[k]
    <3>1. k + m \in 1 .. m + n /\ i + (k + m) - 1 = (i + m) + k - 1
      BY <1>1
    <3>2. ts[i + (k + m) - 1] = w[k + m]
      BY <1>4, <3>1
    <3>3. QED BY <1>3, <3>1, <3>2
  <2>2. (i + m) + n <= N + 1
    BY <1>1, <1>4
  <2>3. QED BY <1>1, <2>1, <2>2 DEF Stands
<1>7. i \in 1 .. N + 1 /\ i + m \in 1 .. N + 1 /\ i + m + n \in 1 .. N + 1
  BY <1>1, <1>4
<1>8. QED BY <1>1, <1>2, <1>3, <1>5, <1>6, <1>7

(* The token that stands at i is the one the parser sees.                  *)
LEMMA StandsOne ==
  ASSUME NEW T, NEW ts \in Seq(T), NEW t \in T,
         NEW i \in 1 .. Len(ts) + 1, Stands(ts, <<t>>, i)
  PROVE  Token(ts, i) = t /\ ts[i] = t /\ i + 1 \in 1 .. Len(ts) + 1
<1>1. PICK N \in Nat : N = Len(ts)
  OBVIOUS
<1>2. Len(<<t>>) = 1 /\ <<t>>[1] = t
  OBVIOUS
<1>3. i + 1 <= N + 1 /\ ts[i + 1 - 1] = t
  BY <1>1, <1>2 DEF Stands
<1>4. i \in DOMAIN ts /\ i + 1 - 1 = i
  BY <1>1, <1>3
<1>5. QED BY <1>1, <1>3, <1>4 DEF Token

(* A token and what follows it.                                            *)
LEMMA StandsFirst ==
  ASSUME NEW T, NEW ts \in Seq(T), NEW t \in T, NEW v \in Seq(T),
         NEW i \in 1 .. Len(ts) + 1, Stands(ts, <<t>> \o v, i)
  PROVE  /\ Token(ts, i) = t /\ ts[i] = t /\ i + 1 \in 1 .. Len(ts) + 1
         /\ Stands(ts, v, i + 1) /\ Len(<<t>> \o v) = 1 + Len(v)
         /\ i + 1 + Len(v) \in 1 .. Len(ts) + 1
<1>1. <<t>> \in Seq(T) /\ Len(<<t>>) = 1
  OBVIOUS
<1>2. PICK u \in Seq(T) : u = <<t>> /\ Len(u) = 1
  BY <1>1
<1>3. /\ Stands(ts, u, i) /\ Stands(ts, v, i + Len(u)) /\ Len(u \o v) = Len(u) + Len(v)
      /\ i + Len(u) + Len(v) \in 1 .. Len(ts) + 1
  <2>1. Stands(ts, u \o v, i)
    BY <1>2
  <2>2. QED BY <2>1, StandsTwo
<1>4. Token(ts, i) = t /\ ts[i] = t /\ i + 1 \in 1 .. Len(ts) + 1
  BY <1>2, <1>3, StandsOne
<1>5. QED BY <1>2, <1>3, <1>4

(* Two texts with a token between them.                                    *)
LEMMA StandsBetween ==
  ASSUME NEW T, NEW ts \in Seq(T), NEW u \in Seq(T), NEW t \in T, NEW v \in Seq(T),
         NEW i \in 1 .. Len(ts) + 1, Stands(ts, u \o <<t>> \o v, i)
  PROVE  /\ Stands(ts, u, i) /\ Token(ts, i + Len(u)) = t
         /\ i + Len(u) \in 1 .. Len(ts) + 1 /\ i + Len(u) + 1 \in 1 .. Len(ts) + 1
         /\ Stands(ts, v, i + Len(u) + 1)
         /\ Len(u \o <<t>> \o v) = Len(u) + 1 + Len(v)
         /\ i + Len(u) + 1 + Len(v) \in 1 .. Len(ts) + 1
<1>1. PICK c \in Seq(T) : c = <<t>> /\ Len(c) = 1
  <2>1. <<t>> \in Seq(T) /\ Len(<<t>>) = 1
    OBVIOUS
  <2>2. QED BY <2>1
<1>2. PICK w \in Seq(T) : w = u \o c
  BY ConcatProperties
<1>3. Stands(ts, w \o v, i)
  BY <1>1, <1>2
<1>4. /\ Stands(ts, w, i) /\ Stands(ts, v, i + Len(w)) /\ Len(w \o v) = Len(w) + Len(v)
      /\ i + Len(w) \in 1 .. Len(ts) + 1 /\ i + Len(w) + Len(v) \in 1 .. Len(ts) + 1
  BY <1>3, StandsTwo
<1>5. Stands(ts, u \o c, i)
  BY <1>2, <1>4
<1>6. /\ Stands(ts, u, i) /\ Stands(ts, c, i + Len(u)) /\ Len(u \o c) = Len(u) + Len(c)
      /\ i + Len(u) \in 1 .. Len(ts) + 1
  BY <1>5, StandsTwo
<1>7. PICK j \in 1 .. Len(ts) + 1 : j = i + Len(u)
  BY <1>6
<1>8. Token(ts, j) = t /\ j + 1 \in 1 .. Len(ts) + 1
  <2>1. Stands(ts, <<t>>, j)
    BY <1>1, <1>6, <1>7
  <2>2. QED BY <2>1, StandsOne
<1>9. Len(w) = Len(u) + 1 /\ w \o v = u \o <<t>> \o v
  BY <1>1, <1>2, <1>6
<1>10. PICK m \in Nat : m = Len(u)
  OBVIOUS
<1>11. i + Len(w) = i + m + 1 /\ j + 1 = i + m + 1
  BY <1>7, <1>9, <1>10
<1>12. QED BY <1>4, <1>6, <1>7, <1>8, <1>9, <1>10, <1>11

-----------------------------------------------------------------------------
(* The text and the parts of a node of each kind.                          *)
LEMMA KindIs ==
  ASSUME NEW e \in Trees
  PROVE  /\ e.kind \in {"literal", "variable", "unary", "parentheses", "binary",
                        "conditional", "function"}
         /\ e.kind = "literal" => e.text \in Literals
         /\ e.kind = "variable" => e.text \in Variables
         /\ e.kind = "unary" => e.text \in PrefixOperators
         /\ e.kind = "binary" => e.text \in BinaryOperators
         /\ e.kind = "function" => e.text \in Functions
         /\ e.kind \in {"parentheses", "conditional"} => e.text = ""
         /\ e.kind \in {"unary", "parentheses"} => DOMAIN e.args = {1}
         /\ e.kind = "binary" => DOMAIN e.args = {1, 2}
         /\ e.kind = "conditional" => DOMAIN e.args = {1, 2, 3}
         /\ e.kind \in {"unary", "parentheses"} => Len(e.args) = 1
         /\ e.kind = "binary" => Len(e.args) = 2
         /\ e.kind = "conditional" => Len(e.args) = 3
<1>1. PICK k, t, n : k = e.kind /\ t = e.text /\ n = Len(e.args)
  OBVIOUS
<1>2. /\ k \in DOMAIN Texts /\ t \in Texts[k] /\ n \in Counts[k] /\ n \in Nat
      /\ DOMAIN e.args = 1 .. n
  BY <1>1, TreesAre
<1>3. k \in {"literal", "variable", "unary", "parentheses", "binary",
            "conditional", "function"}
  BY <1>2 DEF Texts
<1>4. /\ k = "literal" => t \in Literals
      /\ k = "variable" => t \in Variables
      /\ k = "unary" => t \in PrefixOperators
      /\ k = "binary" => t \in BinaryOperators
      /\ k = "function" => t \in Functions
  <2>1. Texts["literal"] = Literals /\ Texts["variable"] = Variables
    BY DEF Texts
  <2>2. Texts["unary"] = PrefixOperators /\ Texts["binary"] = BinaryOperators
    BY DEF Texts
  <2>3. Texts["function"] = Functions
    BY DEF Texts
  <2>4. QED BY <1>2, <2>1, <2>2, <2>3
<1>5. k \in {"parentheses", "conditional"} => t = ""
  <2>1. Texts["parentheses"] = {""} /\ Texts["conditional"] = {""}
    BY DEF Texts
  <2>2. QED BY <1>2, <2>1
<1>6. /\ k \in {"unary", "parentheses"} => n = 1
      /\ k = "binary" => n = 2
      /\ k = "conditional" => n = 3
  <2>1. Counts["unary"] = {1} /\ Counts["parentheses"] = {1}
    BY DEF Counts
  <2>2. Counts["binary"] = {2} /\ Counts["conditional"] = {3}
    BY DEF Counts
  <2>3. QED BY <1>2, <2>1, <2>2
<1>7. 1 .. 1 = {1} /\ 1 .. 2 = {1, 2} /\ 1 .. 3 = {1, 2, 3}
  OBVIOUS
<1>8. QED BY <1>1, <1>2, <1>3, <1>4, <1>5, <1>6, <1>7

(* What is written of a tree, by its kind.                                 *)
LEMMA WrittenAs ==
  ASSUME NEW e \in Trees, Plain(e)
  PROVE  /\ e.kind \in {"literal", "variable"} =>
              e.args = <<>> /\ Represent[e] = <<e.text>>
         /\ e.kind = "unary" =>
              e.args = <<e.args[1]>> /\ Represent[e] = <<e.text>> \o Represent[e.args[1]]
         /\ e.kind = "parentheses" =>
              e.args = <<e.args[1]>> /\ Represent[e] = Between(Represent[e.args[1]])
         /\ e.kind = "binary" =>
              /\ e.args = <<e.args[1], e.args[2]>>
              /\ Represent[e] = Represent[e.args[1]] \o <<e.text>> \o Represent[e.args[2]]
         /\ e.kind = "conditional" =>
              /\ e.args = <<e.args[1], e.args[2], e.args[3]>>
              /\ Represent[e] = Represent[e.args[1]] \o <<"?">> \o Represent[e.args[2]]
                                  \o <<":">> \o Represent[e.args[3]]
         /\ e.kind = "function" =>
              Represent[e] = <<e.text>> \o Between(Separated(<<",">>, Written(e.args)))
<1>1. /\ e = Node(e.kind, e.text, e.args) /\ e.args \in Seq(Trees)
      /\ Len(e.args) \in Counts[e.kind]
  BY TreesAre
<1>2. /\ Represent[e] = RepresentOf(e, Written(e.args))
      /\ \A i \in DOMAIN e.args : Written(e.args)[i] = Represent[e.args[i]]
      /\ e.kind = "literal" => Shown[e.text] = <<e.text>>
  <2>1. PICK k, t, args : k = e.kind /\ t = e.text /\ args = e.args
    OBVIOUS
  <2>2. e = Node(k, t, args)
    BY <1>1, <2>1
  <2>3. QED BY <2>1, <2>2, NodeRepresented
<1>3. CASE e.kind \in {"literal", "variable"}
  <2>1. Len(e.args) = 0
    BY <1>1, <1>3 DEF Counts
  <2>2. e.args = <<>>
    BY <1>1, <2>1, EmptySeq
  <2>3. QED BY <1>2, <1>3, <2>2 DEF RepresentOf
<1>4. CASE e.kind \in {"unary", "parentheses"}
  <2>1. Len(e.args) = 1
    BY <1>4, KindIs
  <2>2. e.args = <<e.args[1]>> /\ 1 \in DOMAIN e.args
    BY <1>1, <2>1
  <2>3. Written(e.args)[1] = Represent[e.args[1]]
    BY <1>2, <2>2
  <2>4. QED BY <1>2, <1>4, <2>2, <2>3 DEF RepresentOf, RepresentParentheses
<1>5. CASE e.kind = "binary"
  <2>1. Len(e.args) = 2
    BY <1>5, KindIs
  <2>2. e.args = <<e.args[1], e.args[2]>> /\ 1 \in DOMAIN e.args /\ 2 \in DOMAIN e.args
    BY <1>1, <2>1
  <2>3. /\ Written(e.args)[1] = Represent[e.args[1]]
        /\ Written(e.args)[2] = Represent[e.args[2]]
    BY <1>2, <2>2
  <2>4. QED BY <1>2, <1>5, <2>2, <2>3 DEF RepresentOf
<1>6. CASE e.kind = "conditional"
  <2>1. Len(e.args) = 3
    BY <1>6, KindIs
  <2>2. /\ e.args = <<e.args[1], e.args[2], e.args[3]>>
        /\ 1 \in DOMAIN e.args /\ 2 \in DOMAIN e.args /\ 3 \in DOMAIN e.args
    BY <1>1, <2>1
  <2>3. /\ Written(e.args)[1] = Represent[e.args[1]]
        /\ Written(e.args)[2] = Represent[e.args[2]]
        /\ Written(e.args)[3] = Represent[e.args[3]]
    BY <1>2, <2>2
  <2>4. QED BY <1>2, <1>6, <2>2, <2>3 DEF RepresentOf
<1>7. CASE e.kind = "function"
  BY <1>2, <1>7 DEF RepresentOf
<1>8. QED BY <1>3, <1>4, <1>5, <1>6, <1>7, KindIs

(* The parts of a tree are trees, written as they are read if it is.       *)
LEMMA PartsPlain ==
  ASSUME NEW e \in Trees, Plain(e)
  PROVE  \A i \in DOMAIN e.args : e.args[i] \in Trees /\ Plain(e.args[i])
<1>1. PICK k, t, args : k = e.kind /\ t = e.text /\ args = e.args
  OBVIOUS
<1>2. e = Node(k, t, args)
  BY <1>1, TreesAre
<1>3. QED BY <1>1, <1>2, NodeRepresented

(* What is put between is as long as its parts.                            *)
LEMMA BetweenText ==
  ASSUME NEW w \in Seq(Tokens)
  PROVE  Between(w) \in Seq(Tokens) /\ Len(Between(w)) = Len(w) + 2 /\ Between(w)[1] = "("
<1>1. PICK b \in Tokens, c \in Tokens : b = "(" /\ c = ")"
  BY DEF Tokens
<1>2. <<b>> \o w \o <<c>> \in Seq(Tokens) /\ Len(<<b>> \o w \o <<c>>) = Len(w) + 2
      /\ (<<b>> \o w \o <<c>>)[1] = b
  OBVIOUS
<1>3. QED BY <1>1, <1>2 DEF Between

(* A text and what is in front of it.                                      *)
LEMMA FirstOf ==
  ASSUME NEW T, NEW u \in Seq(T), NEW v \in Seq(T), Len(u) >= 1
  PROVE  u \o v \in Seq(T) /\ Len(u \o v) >= 1 /\ (u \o v)[1] = u[1]
<1>1. PICK m \in Nat, n \in Nat : m = Len(u) /\ n = Len(v)
  OBVIOUS
<1>2. Len(u \o v) = m + n /\ u \o v \in Seq(T)
  BY <1>1, ConcatProperties
<1>3. 1 \in 1 .. Len(u) + Len(v) /\ 1 <= Len(u)
  BY <1>1
<1>4. (u \o v)[1] = u[1]
  BY <1>3, ConcatProperties
<1>5. QED BY <1>1, <1>2, <1>4

(* What is written of a tree is a text that begins with no ")".            *)
LEMMA TextOfTree ==
  \A e \in Trees : Plain(e) =>
    /\ Represent[e] \in Seq(Tokens) /\ Len(Represent[e]) >= 1 /\ Represent[e][1] # ")"
    /\ Written(e.args) \in Seq(Seq(Tokens))
<1> DEFINE Good(w) == w \in Seq(Tokens) /\ Len(w) >= 1 /\ w[1] # ")"
           S == {e \in Trees : Plain(e) =>
                   Good(Represent[e]) /\ Written(e.args) \in Seq(Seq(Tokens))}
<1>1. ASSUME NEW e \in Trees, \A i \in DOMAIN e.args : e.args[i] \in S, Plain(e)
      PROVE  Good(Represent[e]) /\ Written(e.args) \in Seq(Seq(Tokens))
  <2>1. \A i \in DOMAIN e.args : Good(Represent[e.args[i]])
    <3> HIDE DEF Good
    <3>1. QED BY <1>1, PartsPlain
  <2>2. DOMAIN e.args = 1 .. Len(e.args) /\ e.args \in Seq(Trees)
    BY TreesAre
  <2>3. Written(e.args) \in Seq(Seq(Tokens))
    <3>1. \A i \in 1 .. Len(e.args) : Represent[e.args[i]] \in Seq(Tokens)
      BY <2>1, <2>2
    <3>2. PICK n \in Nat : n = Len(e.args)
      BY <2>2
    <3>3. Written(e.args) = [i \in 1 .. n |-> Represent[e.args[i]]]
      BY <2>2, <3>2 DEF Written
    <3>4. \A i \in 1 .. n : Represent[e.args[i]] \in Seq(Tokens)
      BY <3>1, <3>2
    <3> HIDE DEF Good
    <3>5. QED BY <3>3, <3>4
  <2>4. PICK b, c, d, q : b = ")" /\ c = "?" /\ d = ":" /\ q = ","
    OBVIOUS
  <2>5. /\ <<c>> \in Seq(Tokens) /\ <<d>> \in Seq(Tokens) /\ <<q>> \in Seq(Tokens)
    <3>1. c \in Tokens /\ d \in Tokens /\ q \in Tokens
      BY <2>4 DEF Tokens
    <3>2. QED BY <3>1
  <2>6. ASSUME NEW t \in Tokens, t # b, NEW w \in Seq(Tokens)
        PROVE  Good(<<t>> \o w) /\ Good(<<t>>) /\ <<t>> \in Seq(Tokens)
    <3>1. <<t>> \in Seq(Tokens) /\ Len(<<t>>) = 1 /\ <<t>>[1] = t
      OBVIOUS
    <3>2. PICK u \in Seq(Tokens) : u = <<t>> /\ Len(u) >= 1 /\ u[1] = t
      <4>1. 1 >= 1
        OBVIOUS
      <4>2. QED BY <3>1, <4>1, Zenon
    <3>3. u \o w \in Seq(Tokens) /\ Len(u \o w) >= 1 /\ (u \o w)[1] = u[1]
      BY <3>2, FirstOf
    <3>4. Good(u \o w) /\ Good(u)
      BY <2>4, <2>6, <3>2, <3>3
    <3>5. QED BY <3>2, <3>4
  <2>7. ASSUME NEW w \in Seq(Tokens), Good(w), NEW v \in Seq(Tokens)
        PROVE  Good(w \o v)
    BY <2>7, FirstOf
  <2>8. e.text \in Literals \cup Variables \cup Functions \cup PrefixOperators
          => e.text \in Tokens /\ e.text # b
    BY <2>4, TokenAssumption DEF Tokens, Functions, PrefixOperators
  <2>9. \A w \in Seq(Tokens) : Good(Between(w))
    BY BetweenText
  <2>10. \A w \in Seq(Tokens) : Good(w) => w \in Seq(Tokens)
    OBVIOUS
  <2>11. Good(Represent[e])
    <3> HIDE DEF Good
    <3>1. CASE e.kind \in {"literal", "variable"}
      <4>1. Represent[e] = <<e.text>>
        BY <1>1, <3>1, WrittenAs
      <4>2. e.text \in Literals \cup Variables
        BY <3>1, KindIs
      <4>3. <<>> \in Seq(Tokens)
        OBVIOUS
      <4>4. QED BY <2>6, <2>8, <4>1, <4>2, <4>3
    <3>2. CASE e.kind = "unary"
      <4>1. Represent[e] = <<e.text>> \o Represent[e.args[1]]
        BY <1>1, <3>2, WrittenAs
      <4>2. e.text \in PrefixOperators /\ 1 \in DOMAIN e.args
        BY <3>2, KindIs
      <4>3. Represent[e.args[1]] \in Seq(Tokens)
        BY <2>1, <4>2 DEF Good
      <4>4. QED BY <2>6, <2>8, <4>1, <4>2, <4>3
    <3>3. CASE e.kind = "parentheses"
      <4>1. Represent[e] = Between(Represent[e.args[1]])
        BY <1>1, <3>3, WrittenAs
      <4>2. 1 \in DOMAIN e.args
        BY <3>3, KindIs
      <4>3. Represent[e.args[1]] \in Seq(Tokens)
        BY <2>1, <4>2 DEF Good
      <4>4. QED BY <2>9, <4>1, <4>3
    <3>4. CASE e.kind = "binary"
      <4>1. Represent[e] = Represent[e.args[1]] \o <<e.text>> \o Represent[e.args[2]]
        BY <1>1, <3>4, WrittenAs
      <4>2. e.text \in BinaryOperators /\ 1 \in DOMAIN e.args /\ 2 \in DOMAIN e.args
        BY <3>4, KindIs
      <4>3. PICK u \in Seq(Tokens), v \in Seq(Tokens), w \in Seq(Tokens) :
              u = Represent[e.args[1]] /\ v = Represent[e.args[2]] /\ w = <<e.text>>
              /\ Good(u)
        <5>1. e.text \in Tokens
          BY <4>2 DEF Tokens
        <5>2. <<e.text>> \in Seq(Tokens)
          BY <5>1
        <5>3. Good(Represent[e.args[1]]) /\ Good(Represent[e.args[2]])
          BY <2>1, <4>2
        <5>4. Represent[e.args[1]] \in Seq(Tokens) /\ Represent[e.args[2]] \in Seq(Tokens)
          BY <5>3 DEF Good
        <5>5. QED BY <5>2, <5>3, <5>4
      <4>4. u \o w \in Seq(Tokens) /\ Good(u \o w)
        BY <2>7, <4>3 DEF Good
      <4>5. Good((u \o w) \o v)
        BY <2>7, <4>3, <4>4
      <4>6. QED BY <4>1, <4>3, <4>5
    <3>5. CASE e.kind = "conditional"
      <4>1. Represent[e] = Represent[e.args[1]] \o <<c>> \o Represent[e.args[2]]
                             \o <<d>> \o Represent[e.args[3]]
        BY <1>1, <2>4, <3>5, WrittenAs
      <4>2. 1 \in DOMAIN e.args /\ 2 \in DOMAIN e.args /\ 3 \in DOMAIN e.args
        BY <3>5, KindIs
      <4>3. PICK u \in Seq(Tokens), v \in Seq(Tokens), w \in Seq(Tokens),
                 x \in Seq(Tokens), y \in Seq(Tokens) :
              /\ u = Represent[e.args[1]] /\ v = Represent[e.args[2]]
              /\ w = Represent[e.args[3]] /\ x = <<c>> /\ y = <<d>> /\ Good(u)
        <5>1. /\ Good(Represent[e.args[1]]) /\ Good(Represent[e.args[2]])
              /\ Good(Represent[e.args[3]])
          BY <2>1, <4>2
        <5>2. /\ Represent[e.args[1]] \in Seq(Tokens) /\ Represent[e.args[2]] \in Seq(Tokens)
              /\ Represent[e.args[3]] \in Seq(Tokens)
          BY <5>1 DEF Good
        <5>3. QED BY <2>5, <5>1, <5>2
      <4>4. u \o x \in Seq(Tokens) /\ Good(u \o x)
        BY <2>7, <4>3 DEF Good
      <4>5. (u \o x) \o v \in Seq(Tokens) /\ Good((u \o x) \o v)
        BY <2>7, <4>3, <4>4 DEF Good
      <4>6. ((u \o x) \o v) \o y \in Seq(Tokens) /\ Good(((u \o x) \o v) \o y)
        BY <2>7, <4>3, <4>5 DEF Good
      <4>7. Good((((u \o x) \o v) \o y) \o w)
        BY <2>7, <4>3, <4>6
      <4>8. QED BY <4>1, <4>3, <4>7
    <3>6. CASE e.kind = "function"
      <4>1. PICK w : w = Separated(<<q>>, Written(e.args))
        OBVIOUS
      <4>2. w \in Seq(Tokens)
        <5>1. PICK s \in Seq(Tokens) : s = <<q>>
          BY <2>5
        <5>2. PICK f : /\ Separated(s, Written(e.args)) = f[Len(Written(e.args))]
                       /\ \A i \in 0 .. Len(Written(e.args)) : f[i] \in Seq(Tokens)
          BY <2>3, SeparatedIs
        <5>3. Len(Written(e.args)) \in 0 .. Len(Written(e.args))
          BY <2>3
        <5>4. QED BY <4>1, <5>1, <5>2, <5>3
      <4>3. Represent[e] = <<e.text>> \o Between(w)
        BY <1>1, <2>4, <3>6, <4>1, WrittenAs
      <4>4. Between(w) \in Seq(Tokens)
        BY <4>2, BetweenText
      <4>5. e.text \in Functions
        BY <3>6, KindIs
      <4>6. QED BY <2>6, <2>8, <4>3, <4>4, <4>5
    <3>7. QED BY KindIs, <3>1, <3>2, <3>3, <3>4, <3>5, <3>6
  <2>12. QED BY <2>3, <2>11
<1>2. Trees \subseteq S
  <2>1. \A e \in Trees : (\A i \in DOMAIN e.args : e.args[i] \in S) => e \in S
    <3>1. ASSUME NEW e \in Trees, \A i \in DOMAIN e.args : e.args[i] \in S
          PROVE  e \in S
      <4>1. Plain(e) => Good(Represent[e]) /\ Written(e.args) \in Seq(Seq(Tokens))
        BY <1>1, <3>1
      <4> HIDE DEF Good
      <4>2. QED BY <4>1
    <3> HIDE DEF S
    <3>2. QED BY <3>1
  <2> HIDE DEF S
  <2>2. QED BY <2>1, TreeInduction
<1>3. QED BY <1>2

-----------------------------------------------------------------------------
(* The level a node is parsed at.                                          *)
Binds(e) ==
  IF e.kind = "binary" THEN Level(e.text)
  ELSE IF e.kind = "conditional" THEN 10 ELSE 80

(* The token at j goes on with nothing that is parsed at a level.          *)
Stops(ts, j, l) ==
  /\ Token(ts, j) # "(" /\ Level(Token(ts, j)) <= l
  /\ l = 10 => Token(ts, j) # "?"

(* From i on the parser finds e, and behind it, from j on, the operators   *)
(* of the level that follow.                                               *)
Found(parse, e, i, j, l) ==
  LET rest == parse[<<"rest", j, l>>] IN
  At(parse, i, l) =
    IF l \in {10, 80} THEN Parsed(e, j)
    ELSE IF Fails(rest) THEN Failed
    ELSE Parsed(Grouped(e, rest.tree), rest.at)

(* Where e is written the parser finds it.                                 *)
Reads(ts, parse, e, i, l) ==
  LET j == i + Len(Represent[e]) IN
  Stands(ts, Represent[e], i) /\ Stops(ts, j, l) => Found(parse, e, i, j, l)

Readable(ts, parse, e) ==
  \A i \in 1 .. Len(ts) + 1 : \A l \in Levels : l <= Binds(e) => Reads(ts, parse, e, i, l)

(* What the parser says of a goal.                                         *)
LEMMA GoalsAre ==
  ASSUME NEW ts \in Seq(Tokens), NEW parse, Parses(ts, parse),
         NEW i \in 1 .. Len(ts) + 1, NEW l \in Levels
  PROVE  /\ At(parse, i, l) = ParseLevel(ts, parse, i, l)
         /\ parse[<<"rest", i, l>>] = ParseRest(ts, parse, i, l)
         /\ parse[<<"arguments", i, l>>] = ParseArguments(ts, parse, i)
<1>1. PICK a, b, c : a = <<"level", i, l>> /\ b = <<"rest", i, l>> /\ c = <<"arguments", i, l>>
  OBVIOUS
<1>2. a \in Goals(ts) /\ b \in Goals(ts) /\ c \in Goals(ts)
  BY <1>1, RankIs
<1>3. /\ parse[a] = ParseGoal(ts, parse, a) /\ parse[b] = ParseGoal(ts, parse, b)
      /\ parse[c] = ParseGoal(ts, parse, c)
  BY <1>2 DEF Parses
<1>4. /\ a[1] = "level" /\ b[1] = "rest" /\ c[1] = "arguments"
      /\ a[2] = i /\ a[3] = l /\ b[2] = i /\ b[3] = l /\ c[2] = i
  BY <1>1
<1>5. ParseGoal(ts, parse, a) = ParseLevel(ts, parse, i, l)
  BY <1>4 DEF ParseGoal
<1>6. ParseGoal(ts, parse, b) = ParseRest(ts, parse, i, l)
  BY <1>4 DEF ParseGoal
<1>7. ParseGoal(ts, parse, c) = ParseArguments(ts, parse, i)
  BY <1>4 DEF ParseGoal
<1>8. QED BY <1>1, <1>3, <1>5, <1>6, <1>7 DEF At

(* The levels of what is no operator, and of what is.                      *)
LEMMA LevelsAre ==
  /\ \A t \in {"(", ")", ",", "?", ":", "end"} : Level(t) = 0
  /\ \A o \in BinaryOperators : Level(o) \in {20, 30, 40, 50, 60, 70} /\ o # "("
BY DEF Level, BinaryOperators

(* Where no operator of the level follows.                                 *)
LEMMA NoneFollows ==
  ASSUME NEW ts \in Seq(Tokens), NEW parse, Parses(ts, parse),
         NEW j \in 1 .. Len(ts) + 1, NEW l \in Levels, Level(Token(ts, j)) # l,
         NEW e, NEW i, Found(parse, e, i, j, l)
  PROVE  At(parse, i, l) = Parsed(e, j)
<1>1. parse[<<"rest", j, l>>] = Parsed(<<>>, j)
  <2>1. parse[<<"rest", j, l>>] = ParseRest(ts, parse, j, l)
    BY GoalsAre
  <2>2. ParseRest(ts, parse, j, l) = Parsed(<<>>, j)
    BY DEF ParseRest
  <2>3. QED BY <2>1, <2>2
<1>2. ~Fails(Parsed(<<>>, j)) /\ Parsed(<<>>, j).tree = <<>> /\ Parsed(<<>>, j).at = j
  BY ParsedIs
<1>3. QED BY <1>1, <1>2, GroupedNone DEF Found

(* The parser finds a tree at a level if it finds it at the next.          *)
LEMMA FoundBelow ==
  ASSUME NEW ts \in Seq(Tokens), NEW parse, Parses(ts, parse),
         NEW i \in 1 .. Len(ts) + 1, NEW j \in 1 .. Len(ts) + 1,
         NEW l \in Levels \ {80}, NEW e,
         Found(parse, e, i, j, l + 10), Stops(ts, j, l)
  PROVE  Found(parse, e, i, j, l)
<1>1. l + 10 \in Levels /\ l \in Levels /\ l # 80
  BY DEF Levels
<1>2. Level(Token(ts, j)) # l + 10
  <2>1. PICK n \in Nat : n = Level(Token(ts, j))
    BY OperatorLevels
  <2>2. n <= l /\ l \in Nat
    BY <2>1 DEF Stops, Levels
  <2>3. QED BY <2>1, <2>2
<1>3. At(parse, i, l + 10) = Parsed(e, j)
  BY <1>1, <1>2, NoneFollows
<1>4. ~Fails(Parsed(e, j)) /\ Parsed(e, j).tree = e /\ Parsed(e, j).at = j
  BY ParsedIs
<1>5. At(parse, i, l) = ParseLevel(ts, parse, i, l)
  BY <1>1, GoalsAre
<1>6. CASE l = 10
  <2>1. At(parse, i, 20) = Parsed(e, j)
    BY <1>3, <1>6
  <2>2. Token(ts, j) # "?"
    BY <1>6 DEF Stops
  <2>3. ParseConditional(ts, parse, i) = Parsed(e, j)
    BY <1>4, <2>1, <2>2 DEF ParseConditional
  <2>4. QED BY <1>5, <1>6, <2>3 DEF ParseLevel, Found
<1>7. CASE l # 10
  <2>1. At(parse, i, l) = ParseInfix(ts, parse, i, l)
    BY <1>1, <1>5, <1>7 DEF ParseLevel
  <2>2. l \notin {10, 80}
    BY <1>1, <1>7
  <2>3. QED BY <1>3, <1>4, <2>1, <2>2 DEF ParseInfix, Found
<1>8. QED BY <1>6, <1>7

(* A tree that is found at its own level is found at every lower one.      *)
LEMMA ReadsBelow ==
  ASSUME NEW ts \in Seq(Tokens), NEW parse, Parses(ts, parse),
         NEW e \in Trees, Plain(e),
         \A i \in 1 .. Len(ts) + 1 : Reads(ts, parse, e, i, Binds(e))
  PROVE  Readable(ts, parse, e)
<1> SUFFICES ASSUME NEW i \in 1 .. Len(ts) + 1, Stands(ts, Represent[e], i)
             PROVE  \A l \in Levels : l <= Binds(e) => Reads(ts, parse, e, i, l)
  BY DEF Readable, Reads
<1> DEFINE j == i + Len(Represent[e])
           R(l) == Reads(ts, parse, e, i, l)
<1>1. j \in 1 .. Len(ts) + 1
  <2>1. PICK n \in Nat : n = Len(Represent[e])
    BY TextOfTree
  <2>2. i + n <= Len(ts) + 1
    BY <2>1 DEF Stands
  <2>3. QED BY <2>1, <2>2
<1>2. ASSUME NEW l \in Levels \ {80}, R(l + 10) PROVE R(l)
  <2>1. SUFFICES ASSUME Stops(ts, j, l) PROVE Found(parse, e, i, j, l)
    BY DEF Reads
  <2>2. Stops(ts, j, l + 10)
    <3>1. PICK n \in Nat : n = Level(Token(ts, j))
      BY OperatorLevels
    <3>2. l \in Nat /\ l + 10 # 10
      BY DEF Levels
    <3>3. n <= l + 10
      BY <2>1, <3>1, <3>2 DEF Stops
    <3>4. QED BY <2>1, <3>1, <3>2, <3>3 DEF Stops
  <2>3. Found(parse, e, i, j, l + 10)
    BY <1>2, <2>2 DEF Reads
  <2>4. QED BY <1>1, <2>1, <2>3, FoundBelow
<1>3. PICK b \in Levels : b = Binds(e)
  <2>1. e.kind = "binary" => Level(e.text) \in Levels
    BY KindIs, LevelsAre DEF Levels
  <2>2. QED BY <2>1 DEF Binds, Levels
<1>4. R(b)
  BY <1>3
<1> HIDE DEF R
<1>5. /\ R(80) => R(70)
      /\ R(70) => R(60)
      /\ R(60) => R(50)
      /\ R(50) => R(40)
  <2>1. /\ 70 \in Levels \ {80} /\ 60 \in Levels \ {80} /\ 50 \in Levels \ {80}
        /\ 40 \in Levels \ {80}
        /\ 70 + 10 = 80 /\ 60 + 10 = 70 /\ 50 + 10 = 60 /\ 40 + 10 = 50
    BY DEF Levels
  <2>2. QED BY <1>2, <2>1
<1>6. /\ R(40) => R(30)
      /\ R(30) => R(20)
      /\ R(20) => R(10)
  <2>1. /\ 30 \in Levels \ {80} /\ 20 \in Levels \ {80} /\ 10 \in Levels \ {80}
        /\ 30 + 10 = 40 /\ 20 + 10 = 30 /\ 10 + 10 = 20
    BY DEF Levels
  <2>2. QED BY <1>2, <2>1
<1>7. \A l \in Levels : l <= b => R(l)
  BY <1>4, <1>5, <1>6 DEF Levels
<1>8. QED BY <1>3, <1>7 DEF R

(* A part that stands where a text goes on is parsed as what it is.        *)
LEMMA PartRead ==
  ASSUME NEW ts \in Seq(Tokens), NEW parse, Parses(ts, parse),
         NEW a \in Trees, Plain(a), Readable(ts, parse, a),
         NEW i \in 1 .. Len(ts) + 1, NEW l \in Levels, l <= Binds(a),
         Stands(ts, Represent[a], i),
         NEW j, j = i + Len(Represent[a]), Stops(ts, j, l),
         l \in {10, 80} \/ Level(Token(ts, j)) # l
  PROVE  At(parse, i, l) = Parsed(a, j)
<1>1. Found(parse, a, i, j, l)
  BY DEF Readable, Reads
<1>2. j \in 1 .. Len(ts) + 1
  <2>1. PICK n \in Nat : n = Len(Represent[a])
    BY TextOfTree
  <2>2. i + n <= Len(ts) + 1
    BY <2>1 DEF Stands
  <2>3. QED BY <2>1, <2>2
<1>3. CASE l \in {10, 80}
  BY <1>1, <1>3 DEF Found
<1>4. CASE Level(Token(ts, j)) # l
  BY <1>1, <1>2, <1>4, NoneFollows
<1>5. QED BY <1>3, <1>4

(* A text between parentheses stands with them around it.                  *)
LEMMA StandsEnclosed ==
  ASSUME NEW ts \in Seq(Tokens), NEW w \in Seq(Tokens),
         NEW i \in 1 .. Len(ts) + 1, Stands(ts, Between(w), i)
  PROVE  /\ Token(ts, i) = "(" /\ i + 1 \in 1 .. Len(ts) + 1 /\ Stands(ts, w, i + 1)
         /\ i + 1 + Len(w) \in 1 .. Len(ts) + 1 /\ Token(ts, i + 1 + Len(w)) = ")"
         /\ i + 1 + Len(w) + 1 \in 1 .. Len(ts) + 1
         /\ Len(Between(w)) = Len(w) + 2
<1>1. PICK b \in Tokens, c \in Tokens : b = "(" /\ c = ")"
  BY DEF Tokens
<1>2. PICK u \in Seq(Tokens) : u = <<b>> /\ Len(u) = 1
  <2>1. <<b>> \in Seq(Tokens) /\ Len(<<b>>) = 1
    OBVIOUS
  <2>2. QED BY <2>1
<1>3. PICK z \in Seq(Tokens) : z = <<>> /\ Len(z) = 0
  <2>1. <<>> \in Seq(Tokens) /\ Len(<<>>) = 0
    OBVIOUS
  <2>2. QED BY <2>1
<1>4. PICK x \in Seq(Tokens) : x = w \o <<c>> /\ Len(x) = Len(w) + 1
  <2>1. w \o <<c>> \in Seq(Tokens) /\ Len(w \o <<c>>) = Len(w) + 1
    OBVIOUS
  <2>2. QED BY <2>1
<1>5. Between(w) = <<b>> \o x
  <2>1. <<b>> \o w \o <<c>> = <<b>> \o (w \o <<c>>)
    OBVIOUS
  <2>2. QED BY <1>1, <1>4, <2>1 DEF Between
<1>6. /\ Token(ts, i) = b /\ i + 1 \in 1 .. Len(ts) + 1 /\ Stands(ts, x, i + 1)
      /\ i + 1 + Len(x) \in 1 .. Len(ts) + 1
  <2>1. Stands(ts, <<b>> \o x, i)
    BY <1>5
  <2>2. QED BY <2>1, StandsFirst
<1>7. PICK k \in 1 .. Len(ts) + 1 : k = i + 1
  BY <1>6
<1>8. PICK y \in Seq(Tokens) : y = <<c>>
  <2>1. <<c>> \in Seq(Tokens)
    OBVIOUS
  <2>2. QED BY <2>1
<1>9. Stands(ts, w, k) /\ Stands(ts, y, k + Len(w)) /\ k + Len(w) \in 1 .. Len(ts) + 1
  <2>1. Stands(ts, w \o y, k)
    BY <1>4, <1>6, <1>7, <1>8
  <2>2. QED BY <2>1, StandsTwo
<1>10. PICK j \in 1 .. Len(ts) + 1 : j = k + Len(w)
  BY <1>9
<1>11. Token(ts, j) = c /\ j + 1 \in 1 .. Len(ts) + 1
  <2>1. Stands(ts, <<c>>, j)
    BY <1>8, <1>9, <1>10
  <2>2. QED BY <2>1, StandsOne
<1>12. Len(Between(w)) = Len(w) + 2
  BY BetweenText
<1>13. QED BY <1>1, <1>6, <1>7, <1>9, <1>10, <1>11, <1>12

(* A mark or the end stops everything.                                     *)
Ends(t) == Level(t) = 0 /\ t # "(" /\ t # "?"

(* Such tokens.                                                            *)
LEMMA MarksEnd ==
  Ends(")") /\ Ends(",") /\ Ends(":") /\ Ends("end")
<1>1. /\ Level(")") = 0 /\ Level(",") = 0 /\ Level(":") = 0 /\ Level("end") = 0
  BY LevelsAre, Zenon
<1>2. /\ ")" # "(" /\ "," # "(" /\ ":" # "(" /\ "end" # "("
      /\ ")" # "?" /\ "," # "?" /\ ":" # "?" /\ "end" # "?"
  BY Zenon
<1>3. QED BY <1>1, <1>2, Zenon DEF Ends

(* Where one stands nothing goes on at the lowest level.                   *)
LEMMA StopsAt ==
  ASSUME NEW ts, NEW j, Ends(Token(ts, j))
  PROVE  Stops(ts, j, 10)
<1>1. Level(Token(ts, j)) <= 10
  BY DEF Ends
<1>2. QED BY <1>1 DEF Stops, Ends

(* Every tree binds at a level.                                            *)
LEMMA BindsAtLeast ==
  ASSUME NEW e \in Trees
  PROVE  Binds(e) \in Levels /\ 10 <= Binds(e) /\ (e.kind # "conditional" => 20 <= Binds(e))
<1>1. e.kind = "binary" => Level(e.text) \in {20, 30, 40, 50, 60, 70}
  BY KindIs, LevelsAre
<1>2. QED BY <1>1 DEF Binds, Levels

(* At the highest level an operator in front or a unit is parsed.          *)
LEMMA AtHighest ==
  ASSUME NEW ts \in Seq(Tokens), NEW parse, Parses(ts, parse),
         NEW i \in 1 .. Len(ts) + 1
  PROVE  At(parse, i, 80) = ParsePrefix(ts, parse, i)
<1>1. PICK l \in Levels : l = 80
  BY DEF Levels
<1>2. At(parse, i, l) = ParseLevel(ts, parse, i, l)
  BY GoalsAre
<1>3. ParseLevel(ts, parse, i, l) = ParsePrefix(ts, parse, i)
  BY <1>1 DEF ParseLevel
<1>4. QED BY <1>1, <1>2, <1>3

(* Of a part at the lowest level, or the highest.                          *)
LEMMA PartReadPlain ==
  ASSUME NEW ts \in Seq(Tokens), NEW parse, Parses(ts, parse),
         NEW a \in Trees, Plain(a), Readable(ts, parse, a),
         NEW i \in 1 .. Len(ts) + 1, NEW l \in {10, 80}, l <= Binds(a),
         NEW w, w = Represent[a], Stands(ts, w, i),
         NEW j, j = i + Len(w), Stops(ts, j, l)
  PROVE  At(parse, i, l) = Parsed(a, j)
<1>1. l \in Levels
  BY DEF Levels
<1>2. QED BY <1>1, PartRead

(* Of one where no operator of the level follows.                          *)
LEMMA PartReadBelow ==
  ASSUME NEW ts \in Seq(Tokens), NEW parse, Parses(ts, parse),
         NEW a \in Trees, Plain(a), Readable(ts, parse, a),
         NEW i \in 1 .. Len(ts) + 1, NEW l \in Levels, l <= Binds(a),
         NEW w, w = Represent[a], Stands(ts, w, i),
         NEW j, j = i + Len(w), Stops(ts, j, l), Level(Token(ts, j)) # l
  PROVE  At(parse, i, l) = Parsed(a, j)
BY PartRead

(* The arguments of a call are parsed one after another.                   *)
LEMMA ArgumentsAre ==
  ASSUME NEW ts \in Seq(Tokens), NEW parse, Parses(ts, parse),
         NEW i \in 1 .. Len(ts) + 1
  PROVE  parse[<<"arguments", i, 10>>] = ParseArguments(ts, parse, i)
<1>1. PICK l \in Levels : l = 10
  BY DEF Levels
<1>2. parse[<<"arguments", i, l>>] = ParseArguments(ts, parse, i)
  BY GoalsAre
<1>3. QED BY <1>1, <1>2

(* A tree that is written in front of a mark.                              *)
Marked(ts, a, i, j) ==
  /\ i \in 1 .. Len(ts) + 1 /\ Stands(ts, Represent[a], i)
  /\ j = i + Len(Represent[a]) /\ Ends(Token(ts, j))

(* What the parser makes of it.                                            *)
LEMMA PartReadMark ==
  ASSUME NEW ts \in Seq(Tokens), NEW parse, Parses(ts, parse),
         NEW a \in Trees, Plain(a), Readable(ts, parse, a)
  PROVE  \A i : \A j : Marked(ts, a, i, j) => At(parse, i, 10) = Parsed(a, j)
<1>1. ASSUME NEW i, NEW j, Marked(ts, a, i, j)
      PROVE  At(parse, i, 10) = Parsed(a, j)
  <2>1. PICK l \in {10, 80} : l = 10
    OBVIOUS
  <2>2. PICK w : w = Represent[a]
    OBVIOUS
  <2>3. /\ i \in 1 .. Len(ts) + 1 /\ Stands(ts, w, i) /\ j = i + Len(w)
        /\ Stops(ts, j, l) /\ l <= Binds(a)
    BY <1>1, <2>1, <2>2, StopsAt, BindsAtLeast DEF Marked
  <2>4. At(parse, i, l) = Parsed(a, j)
    BY <2>2, <2>3, PartReadPlain
  <2>5. QED BY <2>1, <2>4
<1>2. QED BY <1>1

(* Each kind of node is found where it is written, if its parts are.       *)
LEMMA LeafReads ==
  ASSUME NEW ts \in Seq(Tokens), NEW parse, Parses(ts, parse),
         NEW e \in Trees, Plain(e), e.kind \in {"literal", "variable"},
         NEW i \in 1 .. Len(ts) + 1
  PROVE  Reads(ts, parse, e, i, Binds(e))
<1>1. PICK t : t = e.text
  OBVIOUS
<1>2. e = Node(e.kind, t, <<>>) /\ Represent[e] = <<t>>
  BY <1>1, WrittenAs, TreesAre
<1>3. SUFFICES ASSUME Stands(ts, <<t>>, i), Stops(ts, i + 1, 80)
               PROVE  At(parse, i, 80) = Parsed(e, i + 1)
  <2>1. Len(<<t>>) = 1 /\ Binds(e) = 80
    BY DEF Binds
  <2>2. QED BY <1>2, <2>1 DEF Reads, Found
<1>4. t \in Tokens /\ t \notin PrefixOperators /\ t # "("
  <2>1. t \in Literals \cup Variables
    BY <1>1, KindIs
  <2>2. QED BY <2>1, TokenAssumption DEF Tokens
<1>5. Token(ts, i) = t /\ i + 1 \in 1 .. Len(ts) + 1
  BY <1>3, <1>4, StandsOne
<1>6. At(parse, i, 80) = ParseUnit(ts, parse, i)
  BY <1>4, <1>5, AtHighest DEF ParsePrefix
<1>7. CASE e.kind = "literal"
  <2>1. t \in Literals /\ t \notin Functions \cup Variables
    BY <1>1, <1>7, KindIs, TokenAssumption
  <2>2. ParseUnit(ts, parse, i) = Parsed(Node("literal", t, <<>>), i + 1)
    BY <1>4, <1>5, <2>1 DEF ParseUnit
  <2>3. QED BY <1>2, <1>6, <1>7, <2>2
<1>8. CASE e.kind = "variable"
  <2>1. t \in Functions \cup Variables
    BY <1>1, <1>8, KindIs
  <2>2. Token(ts, i + 1) # "("
    BY <1>3 DEF Stops
  <2>3. ParseUnit(ts, parse, i) = Parsed(Node("variable", t, <<>>), i + 1)
    BY <1>4, <1>5, <2>1, <2>2 DEF ParseUnit
  <2>4. QED BY <1>2, <1>6, <1>8, <2>3
<1>9. QED BY <1>7, <1>8

(* An operator in front, with what it binds.                               *)
LEMMA UnaryReads ==
  ASSUME NEW ts \in Seq(Tokens), NEW parse, Parses(ts, parse),
         NEW e \in Trees, Plain(e), e.kind = "unary",
         Readable(ts, parse, e.args[1]), Binds(e.args[1]) = 80,
         NEW i \in 1 .. Len(ts) + 1
  PROVE  Reads(ts, parse, e, i, Binds(e))
<1>1. PICK t, a : t = e.text /\ a = e.args[1]
  OBVIOUS
<1>2. e = Node("unary", t, <<a>>) /\ Represent[e] = <<t>> \o Represent[a]
  BY <1>1, WrittenAs, TreesAre
<1>3. a \in Trees /\ Plain(a) /\ Represent[a] \in Seq(Tokens)
  BY <1>1, KindIs, PartsPlain, TextOfTree
<1>4. t \in PrefixOperators /\ t \in Tokens
  BY <1>1, KindIs DEF Tokens
<1>5. PICK w \in Seq(Tokens) : w = Represent[a]
  BY <1>3
<1>6. PICK n \in Nat : n = Len(w)
  OBVIOUS
<1>7. SUFFICES ASSUME Stands(ts, <<t>> \o w, i),
                      Stops(ts, i + Len(<<t>> \o w), 80)
               PROVE  At(parse, i, 80) = Parsed(e, i + Len(<<t>> \o w))
  <2>1. Binds(e) = 80
    BY DEF Binds
  <2>2. QED BY <1>2, <1>5, <2>1 DEF Reads, Found
<1>8. /\ Token(ts, i) = t /\ ts[i] = t /\ i + 1 \in 1 .. Len(ts) + 1
      /\ Stands(ts, w, i + 1) /\ Len(<<t>> \o w) = 1 + n
  BY <1>4, <1>6, <1>7, StandsFirst
<1>9. PICK j : j = i + 1 + n /\ i + Len(<<t>> \o w) = j
  BY <1>6, <1>8
<1>10. 80 \in Levels /\ 80 # 10
  BY DEF Levels
<1>11. At(parse, i + 1, 80) = Parsed(a, j)
  <2>1. PICK k \in 1 .. Len(ts) + 1 : k = i + 1
    BY <1>8
  <2>2. j = k + Len(w) /\ Stands(ts, w, k)
    BY <1>6, <1>8, <1>9, <2>1
  <2>3. PICK l \in {10, 80} : l = 80
    OBVIOUS
  <2>4. Stops(ts, j, l) /\ l <= Binds(a)
    BY <1>1, <1>7, <1>9, <2>3
  <2>5. Readable(ts, parse, a)
    BY <1>1
  <2>6. At(parse, k, l) = Parsed(a, j)
    BY <1>3, <1>5, <2>2, <2>4, <2>5, PartReadPlain
  <2>7. QED BY <2>1, <2>3, <2>6
<1>12. At(parse, i, 80) = ParsePrefix(ts, parse, i)
  BY AtHighest
<1>13. ~Fails(Parsed(a, j)) /\ Parsed(a, j).tree = a /\ Parsed(a, j).at = j
  BY <1>6, <1>9, ParsedIs
<1>14. ParsePrefix(ts, parse, i) = Parsed(Node("unary", t, <<a>>), j)
  BY <1>4, <1>8, <1>11, <1>13 DEF ParsePrefix
<1>15. QED BY <1>2, <1>9, <1>12, <1>14

(* What stands between parentheses, whatever it is.                        *)
LEMMA ParenthesesRead ==
  ASSUME NEW ts \in Seq(Tokens), NEW parse, Parses(ts, parse),
         NEW e \in Trees, Plain(e), e.kind = "parentheses",
         Readable(ts, parse, e.args[1]), NEW i \in 1 .. Len(ts) + 1
  PROVE  Reads(ts, parse, e, i, Binds(e))
<1>1. PICK s, a : s = "" /\ a = e.args[1]
  OBVIOUS
<1>2. e = Node("parentheses", s, <<a>>) /\ Represent[e] = Between(Represent[a])
  BY <1>1, KindIs, WrittenAs, TreesAre
<1>3. a \in Trees /\ Plain(a) /\ Represent[a] \in Seq(Tokens)
  BY <1>1, KindIs, PartsPlain, TextOfTree
<1>4. PICK w \in Seq(Tokens) : w = Represent[a]
  BY <1>3
<1>5. PICK n \in Nat : n = Len(w)
  OBVIOUS
<1>6. SUFFICES ASSUME Stands(ts, Between(w), i)
               PROVE  At(parse, i, 80) = Parsed(e, i + Len(Between(w)))
  <2>1. Binds(e) = 80
    BY DEF Binds
  <2>2. QED BY <1>2, <1>4, <2>1 DEF Reads, Found
<1>7. /\ Token(ts, i) = "(" /\ i + 1 \in 1 .. Len(ts) + 1 /\ Stands(ts, w, i + 1)
      /\ i + 1 + n \in 1 .. Len(ts) + 1 /\ Token(ts, i + 1 + n) = ")"
      /\ Len(Between(w)) = n + 2
  BY <1>5, <1>6, StandsEnclosed
<1>8. PICK j : j = i + 1 + n
  OBVIOUS
<1>9. 80 \in Levels /\ 80 # 10 /\ 10 \in Levels
  BY DEF Levels
<1>10. At(parse, i + 1, 10) = Parsed(a, j)
  <2>1. PICK k \in 1 .. Len(ts) + 1 : k = i + 1
    BY <1>7
  <2>2. j = k + Len(w) /\ Stands(ts, w, k)
    BY <1>5, <1>7, <1>8, <2>1
  <2>3. PICK l \in {10, 80} : l = 10
    OBVIOUS
  <2>4. Token(ts, j) = ")"
    BY <1>5, <1>7, <1>8
  <2>5. Stops(ts, j, l)
    <3>1. Ends(Token(ts, j))
      BY <2>4, MarksEnd
    <3>2. QED BY <2>3, <3>1, StopsAt
  <2>6. Readable(ts, parse, a) /\ l <= Binds(a)
    BY <1>1, <1>3, <2>3, BindsAtLeast
  <2>7. At(parse, k, l) = Parsed(a, j)
    BY <1>3, <1>4, <2>2, <2>5, <2>6, PartReadPlain
  <2>8. QED BY <2>1, <2>3, <2>7
<1>11. At(parse, i, 80) = ParsePrefix(ts, parse, i)
  BY AtHighest
<1>12. ParsePrefix(ts, parse, i) = ParseUnit(ts, parse, i)
  BY <1>7 DEF ParsePrefix, PrefixOperators
<1>13. ~Fails(Parsed(a, j)) /\ Parsed(a, j).tree = a /\ Parsed(a, j).at = j
  BY <1>5, <1>8, ParsedIs
<1>14. ParseUnit(ts, parse, i) = Parsed(Node("parentheses", s, <<a>>), j + 1)
  <2>1. ParseUnit(ts, parse, i) =
          Closed(ts, Parsed(a, j), ")", "parentheses", "", <<Parsed(a, j).tree>>)
    BY <1>7, <1>10 DEF ParseUnit
  <2>2. QED BY <1>1, <1>7, <1>8, <1>13, <2>1 DEF Closed
<1>15. i + Len(Between(w)) = j + 1
  BY <1>5, <1>7, <1>8
<1>16. QED BY <1>2, <1>11, <1>12, <1>14, <1>15

(* An operator between what binds as much and what binds more.             *)
LEMMA BinaryReads ==
  ASSUME NEW ts \in Seq(Tokens), NEW parse, Parses(ts, parse),
         NEW e \in Trees, Plain(e), e.kind = "binary",
         Readable(ts, parse, e.args[1]), Readable(ts, parse, e.args[2]),
         Binds(e.args[1]) >= Level(e.text), Binds(e.args[2]) > Level(e.text),
         NEW i \in 1 .. Len(ts) + 1
  PROVE  Reads(ts, parse, e, i, Binds(e))
<1>1. PICK o, a, b, l : o = e.text /\ a = e.args[1] /\ b = e.args[2] /\ l = Level(o)
  OBVIOUS
<1>2. /\ e = Node("binary", o, <<a, b>>)
      /\ Represent[e] = Represent[a] \o <<o>> \o Represent[b]
  BY <1>1, WrittenAs, TreesAre
<1>3. /\ a \in Trees /\ Plain(a) /\ Represent[a] \in Seq(Tokens)
      /\ b \in Trees /\ Plain(b) /\ Represent[b] \in Seq(Tokens)
  BY <1>1, KindIs, PartsPlain, TextOfTree
<1>4. /\ o \in Tokens /\ o # "(" /\ l \in {20, 30, 40, 50, 60, 70}
      /\ l <= Binds(a) /\ Binds(b) > l
  <2>1. o \in BinaryOperators
    BY <1>1, KindIs
  <2>2. o \in Tokens
    BY <2>1 DEF Tokens
  <2>3. Binds(a) \in Nat /\ Binds(b) \in Nat
    BY <1>3, BindsAtLeast DEF Levels
  <2>4. l \in {20, 30, 40, 50, 60, 70} /\ o # "("
    BY <1>1, <2>1, LevelsAre
  <2>5. l \in Nat
    BY <2>4
  <2>6. l <= Binds(a) /\ Binds(b) > l
    BY <1>1, <2>3, <2>5
  <2>7. QED BY <2>2, <2>4, <2>6
<1>5. l \in Levels /\ l + 10 \in Levels /\ l \notin {10, 80} /\ l # 10 /\ l + 10 # 10
  BY <1>4 DEF Levels
<1>6. l + 10 <= Binds(b)
  <2>1. PICK m \in Levels : m = Binds(b)
    BY <1>3, BindsAtLeast
  <2>2. l + 10 <= m
    BY <1>4, <2>1 DEF Levels
  <2>3. QED BY <2>1, <2>2
<1>7. PICK u \in Seq(Tokens), v \in Seq(Tokens) : u = Represent[a] /\ v = Represent[b]
  BY <1>3
<1>8. PICK m \in Nat, n \in Nat : m = Len(u) /\ n = Len(v)
  OBVIOUS
<1>9. SUFFICES ASSUME Stands(ts, u \o <<o>> \o v, i),
                      Stops(ts, i + Len(u \o <<o>> \o v), l)
               PROVE  Found(parse, e, i, i + Len(u \o <<o>> \o v), l)
  <2>1. Binds(e) = l
    BY <1>1 DEF Binds
  <2>2. QED BY <1>2, <1>7, <2>1 DEF Reads
<1>10. /\ Stands(ts, u, i) /\ Token(ts, i + m) = o /\ i + m \in 1 .. Len(ts) + 1
       /\ i + m + 1 \in 1 .. Len(ts) + 1 /\ Stands(ts, v, i + m + 1)
       /\ Len(u \o <<o>> \o v) = m + 1 + n
       /\ i + m + 1 + n \in 1 .. Len(ts) + 1
  BY <1>4, <1>8, <1>9, StandsBetween
<1>11. PICK k \in 1 .. Len(ts) + 1, j \in 1 .. Len(ts) + 1 :
         k = i + m /\ j = i + m + 1 + n /\ i + Len(u \o <<o>> \o v) = j
  BY <1>8, <1>10
<1> DEFINE more == parse[<<"rest", j, l>>]
<1>12. Found(parse, a, i, k, l)
  <2>1. Stops(ts, k, l)
    <3>1. Token(ts, k) = o /\ Level(o) <= l
      BY <1>1, <1>4, <1>10, <1>11
    <3>2. QED BY <1>4, <1>5, <3>1 DEF Stops
  <2>2. k = i + Len(Represent[a]) /\ Stands(ts, Represent[a], i)
    BY <1>7, <1>8, <1>10, <1>11
  <2>3. QED BY <1>1, <1>4, <1>5, <2>1, <2>2 DEF Readable, Reads
<1>13. At(parse, k + 1, l + 10) = Parsed(b, j)
  <2>1. k + 1 \in 1 .. Len(ts) + 1
    BY <1>10, <1>11
  <2>2. Level(Token(ts, j)) <= l /\ Token(ts, j) # "("
    BY <1>9, <1>11 DEF Stops
  <2>3. PICK q \in Nat : q = Level(Token(ts, j))
    BY OperatorLevels
  <2>4. q <= l + 10 /\ q # l + 10
    BY <1>4, <2>2, <2>3
  <2>5. Stops(ts, j, l + 10)
    BY <1>5, <2>2, <2>3, <2>4 DEF Stops
  <2>6. Level(Token(ts, j)) # l + 10
    BY <2>3, <2>4
  <2>7. PICK p \in 1 .. Len(ts) + 1, h \in Levels : p = k + 1 /\ h = l + 10
    BY <1>5, <2>1
  <2>8. /\ Readable(ts, parse, b) /\ h <= Binds(b) /\ Stops(ts, j, h)
        /\ Level(Token(ts, j)) # h
    BY <1>1, <1>6, <2>5, <2>6, <2>7
  <2>9. v = Represent[b] /\ Stands(ts, v, p) /\ j = p + Len(v)
    BY <1>7, <1>8, <1>10, <1>11, <2>7
  <2>10. At(parse, p, h) = Parsed(b, j)
    BY <1>3, <2>8, <2>9, PartReadBelow
  <2>11. QED BY <2>7, <2>10
<1>14. /\ ~Fails(Parsed(b, j)) /\ Parsed(b, j).tree = b /\ Parsed(b, j).at = j
  BY ParsedIs
<1>15. parse[<<"rest", k, l>>] =
         IF Fails(more) THEN Failed
         ELSE Parsed(<<[operator |-> o, tree |-> b]>> \o more.tree, more.at)
  <2>1. parse[<<"rest", k, l>>] = ParseRest(ts, parse, k, l)
    BY <1>5, GoalsAre
  <2>2. Token(ts, k) = o /\ Level(o) = l
    BY <1>1, <1>10, <1>11
  <2>3. QED BY <1>13, <1>14, <2>1, <2>2 DEF ParseRest
<1> HIDE DEF more
<1>16. CASE Fails(more)
  <2>1. Fails(Failed)
    BY DEF Fails, Failed, Parsed
  <2>2. At(parse, i, l) = Failed
    BY <1>5, <1>12, <1>15, <1>16, <2>1 DEF Found
  <2>3. Found(parse, e, i, j, l)
    BY <1>5, <1>16, <2>2 DEF Found, more
  <2>4. QED BY <1>11, <2>3
<1>17. CASE ~Fails(more)
  <2>1. PICK x : x = [operator |-> o, tree |-> b]
    OBVIOUS
  <2>2. x.operator = o /\ x.tree = b
    BY <2>1
  <2>3. PICK rest : rest = <<x>> \o more.tree
    OBVIOUS
  <2>4. parse[<<"rest", k, l>>] = Parsed(rest, more.at)
    BY <1>15, <1>17, <2>1, <2>3
  <2>5. Parsed(rest, more.at).tree = rest /\ Parsed(rest, more.at).at = more.at
        /\ ~Fails(Parsed(rest, more.at))
    BY <1>17 DEF Parsed, Fails
  <2>6. At(parse, i, l) = Parsed(Grouped(a, rest), more.at)
    BY <1>5, <1>12, <2>4, <2>5 DEF Found
  <2>7. \E S : more.tree \in Seq(S)
    <3>1. PICK g : g = <<"rest", j, l>>
      OBVIOUS
    <3>2. g \in Goals(ts) /\ g[1] = "rest" /\ g[2] = j
      BY <1>5, <3>1, RankIs
    <3>3. Right(ts, g, parse[g])
      BY <3>2 DEF Parses
    <3>4. RestRight(ts, j, more)
      BY <3>1, <3>2, <3>3 DEF Right, more
    <3>5. QED BY <1>17, <3>4 DEF RestRight
  <2>8. Grouped(a, rest) = Grouped(Node("binary", o, <<a, b>>), more.tree)
    <3>1. PICK S : more.tree \in Seq(S)
      BY <2>7
    <3>2. Grouped(a, <<x>> \o more.tree) =
            Grouped(Node("binary", x.operator, <<a, x.tree>>), more.tree)
      BY <3>1, GroupedMore
    <3>3. QED BY <2>2, <2>3, <3>2
  <2>9. At(parse, i, l) = Parsed(Grouped(e, more.tree), more.at)
    BY <1>2, <2>6, <2>8
  <2>10. Found(parse, e, i, j, l)
    BY <1>5, <1>17, <2>9 DEF Found, more
  <2>11. QED BY <1>11, <2>10
<1>18. QED BY <1>16, <1>17

(* A conditional, of which the first part is none.                         *)
LEMMA ConditionalReads ==
  ASSUME NEW ts \in Seq(Tokens), NEW parse, Parses(ts, parse),
         NEW e \in Trees, Plain(e), e.kind = "conditional",
         Readable(ts, parse, e.args[1]), Readable(ts, parse, e.args[2]),
         Readable(ts, parse, e.args[3]), Binds(e.args[1]) > 10,
         NEW i \in 1 .. Len(ts) + 1
  PROVE  Reads(ts, parse, e, i, Binds(e))
<1>1. PICK s, a, b, c, x, y :
        /\ s = "" /\ a = e.args[1] /\ b = e.args[2] /\ c = e.args[3]
        /\ x = "?" /\ y = ":"
  OBVIOUS
<1>2. /\ e = Node("conditional", s, <<a, b, c>>)
      /\ Represent[e] = Represent[a] \o <<x>> \o Represent[b] \o <<y>> \o Represent[c]
  BY <1>1, KindIs, WrittenAs, TreesAre
<1>3. /\ a \in Trees /\ Plain(a) /\ Represent[a] \in Seq(Tokens)
      /\ b \in Trees /\ Plain(b) /\ Represent[b] \in Seq(Tokens)
      /\ c \in Trees /\ Plain(c) /\ Represent[c] \in Seq(Tokens)
  BY <1>1, KindIs, PartsPlain, TextOfTree
<1>4. x \in Tokens /\ y \in Tokens
  BY <1>1 DEF Tokens
<1>5. PICK u \in Seq(Tokens), v \in Seq(Tokens), w \in Seq(Tokens) :
        u = Represent[a] /\ v = Represent[b] /\ w = Represent[c]
  BY <1>3
<1>6. PICK m \in Nat, n \in Nat, q \in Nat : m = Len(u) /\ n = Len(v) /\ q = Len(w)
  OBVIOUS
<1>7. PICK z \in Seq(Tokens) : z = u \o <<x>> \o v
  <2>1. <<x>> \in Seq(Tokens)
    BY <1>4
  <2>2. u \o <<x>> \in Seq(Tokens)
    BY <2>1, ConcatProperties
  <2>3. u \o <<x>> \o v \in Seq(Tokens)
    BY <2>2, ConcatProperties
  <2>4. QED BY <2>3
<1>8. SUFFICES ASSUME Stands(ts, z \o <<y>> \o w, i),
                      Stops(ts, i + Len(z \o <<y>> \o w), 10)
               PROVE  At(parse, i, 10) = Parsed(e, i + Len(z \o <<y>> \o w))
  <2>1. Binds(e) = 10
    BY DEF Binds
  <2>2. Represent[e] = z \o <<y>> \o w
    BY <1>2, <1>5, <1>7
  <2>3. QED BY <2>1, <2>2 DEF Reads, Found
<1>9. /\ Stands(ts, z, i) /\ Token(ts, i + Len(z)) = y
      /\ i + Len(z) + 1 \in 1 .. Len(ts) + 1 /\ Stands(ts, w, i + Len(z) + 1)
      /\ Len(z \o <<y>> \o w) = Len(z) + 1 + q
  BY <1>4, <1>6, <1>8, StandsBetween
<1>10. /\ Stands(ts, u, i) /\ Token(ts, i + m) = x /\ i + m \in 1 .. Len(ts) + 1
       /\ i + m + 1 \in 1 .. Len(ts) + 1 /\ Stands(ts, v, i + m + 1)
       /\ Len(z) = m + 1 + n
  <2>1. Stands(ts, u \o <<x>> \o v, i)
    BY <1>7, <1>9
  <2>2. /\ Stands(ts, u, i) /\ Token(ts, i + Len(u)) = x
        /\ i + Len(u) \in 1 .. Len(ts) + 1 /\ i + Len(u) + 1 \in 1 .. Len(ts) + 1
        /\ Stands(ts, v, i + Len(u) + 1) /\ Len(u \o <<x>> \o v) = Len(u) + 1 + Len(v)
    BY <1>4, <2>1, StandsBetween
  <2>3. Len(z) = Len(u) + 1 + Len(v)
    BY <1>7, <2>2
  <2>4. QED BY <1>6, <2>2, <2>3
<1>11. PICK k \in 1 .. Len(ts) + 1, k1 \in 1 .. Len(ts) + 1, h \in Nat,
            h1 \in 1 .. Len(ts) + 1, j \in Nat :
         /\ k = i + m /\ k1 = k + 1 /\ h = k1 + n /\ h1 = h + 1 /\ j = h1 + q
         /\ h = i + Len(z) /\ i + Len(z \o <<y>> \o w) = j
  <2>1. i + m + 1 + n = i + Len(z) /\ i + Len(z) + 1 = i + m + 1 + n + 1
        /\ i + Len(z \o <<y>> \o w) = i + m + 1 + n + 1 + q
    <3>1. PICK f, r : f = Len(z) /\ r = Len(z \o <<y>> \o w)
      OBVIOUS
    <3>2. f = m + 1 + n /\ r = f + 1 + q
      BY <1>9, <1>10, <3>1
    <3>3. f \in Nat /\ r \in Nat /\ i \in Nat
      BY <3>2
    <3>4. i + m + 1 + n = i + f
      BY <3>2, <3>3
    <3>5. i + f + 1 = i + m + 1 + n + 1
      BY <3>2, <3>3
    <3>6. i + r = i + m + 1 + n + 1 + q
      BY <3>2, <3>3
    <3>7. QED BY <3>1, <3>4, <3>5, <3>6
  <2>2. i + m + 1 + n + 1 \in 1 .. Len(ts) + 1
    BY <1>9, <2>1
  <2>3. i + m + 1 + n \in Nat /\ i + m + 1 + n + 1 + q \in Nat
    BY <1>6
  <2>4. QED BY <1>10, <2>1, <2>2, <2>3
<1>12. At(parse, i, 20) = Parsed(a, k)
  <2>1. Token(ts, k) = x
    BY <1>10, <1>11
  <2>2. x # "(" /\ Level(x) = 0
    BY <1>1, LevelsAre, Zenon
  <2>3. PICK l \in Levels : l = 20
    BY DEF Levels
  <2>4. Stops(ts, k, l) /\ Level(Token(ts, k)) # l
    BY <2>1, <2>2, <2>3 DEF Stops
  <2>5. l <= Binds(a) /\ Readable(ts, parse, a)
    <3>1. PICK g \in Levels : g = Binds(a)
      BY <1>3, BindsAtLeast
    <3>2. g > 10
      BY <1>1, <3>1
    <3>3. l <= g
      BY <2>3, <3>2 DEF Levels
    <3>4. QED BY <1>1, <3>1, <3>3
  <2>6. k = i + Len(u) /\ Stands(ts, u, i) /\ u = Represent[a] /\ a \in Trees /\ Plain(a)
    BY <1>3, <1>5, <1>6, <1>10, <1>11
  <2>7. At(parse, i, l) = Parsed(a, k)
    BY <2>4, <2>5, <2>6, PartReadBelow
  <2>8. QED BY <2>3, <2>7
<1>13. PICK l \in {10, 80} : l = 10
  OBVIOUS
<1>14. At(parse, k1, 10) = Parsed(b, h)
  <2>1. Ends(Token(ts, h))
    BY <1>1, <1>9, <1>11, MarksEnd
  <2>2. Stops(ts, h, l)
    BY <1>13, <2>1, StopsAt
  <2>3. l <= Binds(b) /\ Readable(ts, parse, b)
    BY <1>1, <1>3, <1>13, BindsAtLeast
  <2>4. h = k1 + Len(v) /\ Stands(ts, v, k1)
    BY <1>6, <1>10, <1>11
  <2>5. At(parse, k1, l) = Parsed(b, h)
    BY <1>3, <1>5, <2>2, <2>3, <2>4, PartReadPlain
  <2>6. QED BY <1>13, <2>5
<1>15. At(parse, h1, 10) = Parsed(c, j)
  <2>1. Stops(ts, j, l)
    BY <1>8, <1>11, <1>13
  <2>2. l <= Binds(c) /\ Readable(ts, parse, c)
    BY <1>1, <1>3, <1>13, BindsAtLeast
  <2>3. j = h1 + Len(w) /\ Stands(ts, w, h1)
    BY <1>6, <1>9, <1>11
  <2>4. At(parse, h1, l) = Parsed(c, j)
    BY <1>3, <1>5, <2>1, <2>2, <2>3, PartReadPlain
  <2>5. QED BY <1>13, <2>4
<1>16. /\ ~Fails(Parsed(a, k)) /\ Parsed(a, k).tree = a /\ Parsed(a, k).at = k
       /\ ~Fails(Parsed(b, h)) /\ Parsed(b, h).tree = b /\ Parsed(b, h).at = h
       /\ ~Fails(Parsed(c, j)) /\ Parsed(c, j).tree = c /\ Parsed(c, j).at = j
  <2>1. k >= 1 /\ h >= 1 /\ j >= 1
    <3>1. k >= 1 /\ k1 >= 1 /\ h1 >= 1
      OBVIOUS
    <3>2. h >= 1
      <4>1. h = k1 + n
        BY <1>11
      <4>2. QED BY <3>1, <4>1
    <3>3. j >= 1
      <4>1. j = h1 + q
        BY <1>11
      <4>2. QED BY <3>1, <4>1
    <3>4. QED BY <3>1, <3>2, <3>3
  <2>2. QED BY <1>11, <2>1 DEF Parsed, Fails
<1>17. Token(ts, k) = x /\ Token(ts, h) = y
  BY <1>9, <1>10, <1>11
<1>18. At(parse, i, 10) = ParseConditional(ts, parse, i)
  <2>1. PICK g \in Levels : g = 10
    BY DEF Levels
  <2>2. At(parse, i, g) = ParseLevel(ts, parse, i, g)
    BY GoalsAre
  <2>3. ParseLevel(ts, parse, i, g) = ParseConditional(ts, parse, i)
    BY <2>1 DEF ParseLevel
  <2>4. QED BY <2>1, <2>2, <2>3
<1>19. ParseConditional(ts, parse, i) = Parsed(Node("conditional", s, <<a, b, c>>), j)
  <2>1. PICK f, g, o : f = Parsed(a, k) /\ g = Parsed(b, h) /\ o = Parsed(c, j)
    OBVIOUS
  <2>2. /\ ~Fails(f) /\ f.tree = a /\ f.at = k /\ ~Fails(g) /\ g.tree = b /\ g.at = h
        /\ ~Fails(o) /\ o.tree = c /\ o.at = j
    BY <1>16, <2>1
  <2>3. /\ At(parse, i, 20) = f /\ At(parse, f.at + 1, 10) = g
        /\ At(parse, g.at + 1, 10) = o /\ Token(ts, f.at) = "?" /\ Token(ts, g.at) = ":"
    BY <1>1, <1>11, <1>12, <1>14, <1>15, <1>17, <2>1, <2>2
  <2>4. ParseConditional(ts, parse, i) =
          Parsed(Node("conditional", "", <<f.tree, g.tree, o.tree>>), o.at)
    BY <2>2, <2>3, Zenon DEF ParseConditional
  <2>5. QED BY <1>1, <2>2, <2>4, Zenon
<1>20. QED BY <1>2, <1>11, <1>18, <1>19

-----------------------------------------------------------------------------
(* What is written of a list.                                              *)
Listed(es) == Separated(<<",">>, Written(es))

(* Where a list is written the parser finds it.                            *)
ListReads(ts, parse, es) ==
  \A i \in 1 .. Len(ts) + 1 :
    LET j == i + Len(Listed(es)) IN
    Stands(ts, Listed(es), i) /\ Token(ts, j) = ")" =>
      parse[<<"arguments", i, 10>>] = Parsed(es, j)

(* A list that is found, and begins with no ")".                           *)
ListGood(ts, parse, es) ==
  /\ Listed(es) \in Seq(Tokens) /\ Len(Listed(es)) >= 1 /\ Listed(es)[1] # ")"
  /\ ListReads(ts, parse, es)

(* Trees that are found.                                                   *)
PartsGood(ts, parse, es) ==
  \A k \in 1 .. Len(es) : Plain(es[k]) /\ Readable(ts, parse, es[k])

(* A list of one.                                                          *)
LEMMA OneListed ==
  ASSUME NEW ts \in Seq(Tokens), NEW parse, Parses(ts, parse),
         NEW a \in Trees, Plain(a), Readable(ts, parse, a)
  PROVE  ListGood(ts, parse, <<a>>)
<1>1. Represent[a] \in Seq(Tokens) /\ Len(Represent[a]) >= 1 /\ Represent[a][1] # ")"
  BY TextOfTree
<1>2. PICK es : es = <<a>>
  OBVIOUS
<1>3. es \in Seq(Trees) /\ \A i \in DOMAIN es : Plain(es[i])
  BY <1>2
<1>4. Listed(es) = Represent[a]
  <2>1. PICK w \in Seq(Tokens) : w = Represent[a]
    BY <1>1
  <2>2. WritesAll(<<a>>, w)
    BY <2>1, WritesLast DEF Writes
  <2>3. WritesAll(es, w)
    BY <1>2, <2>2
  <2>4. Separated(<<",">>, Written(es)) = w
    BY <1>3, <2>3, Zenon DEF WritesAll
  <2>5. QED BY <2>1, <2>4, Zenon DEF Listed
<1>5. ASSUME NEW i \in 1 .. Len(ts) + 1, Stands(ts, Listed(es), i),
             NEW j, j = i + Len(Listed(es)), Token(ts, j) = ")"
      PROVE  parse[<<"arguments", i, 10>>] = Parsed(es, j)
  <2>1. PICK l \in {10, 80} : l = 10
    OBVIOUS
  <2>2. Stops(ts, j, l)
    <3>1. Ends(Token(ts, j))
      BY <1>5, MarksEnd
    <3>2. QED BY <2>1, <3>1, StopsAt
  <2>3. PICK w \in Seq(Tokens) : w = Represent[a]
    BY <1>1
  <2>4. Stands(ts, w, i) /\ j = i + Len(w) /\ l <= Binds(a)
    BY <1>4, <1>5, <2>1, <2>3, BindsAtLeast
  <2>5. At(parse, i, l) = Parsed(a, j)
    BY <2>2, <2>3, <2>4, PartReadPlain
  <2>6. parse[<<"arguments", i, 10>>] = ParseArguments(ts, parse, i)
    BY ArgumentsAre
  <2>7. ~Fails(Parsed(a, j)) /\ Parsed(a, j).tree = a /\ Parsed(a, j).at = j
    <3>1. PICK n \in Nat : n = Len(w)
      OBVIOUS
    <3>2. j \in Nat /\ j >= 1
      BY <2>4, <3>1
    <3>3. QED BY <3>2, ParsedIs
  <2>8. Token(ts, j) # ","
    BY <1>5, Zenon
  <2>9. At(parse, i, 10) = Parsed(a, j)
    BY <2>1, <2>5
  <2>10. ParseArguments(ts, parse, i) = Parsed(<<a>>, j)
    BY <2>7, <2>8, <2>9, Zenon DEF ParseArguments
  <2>11. QED BY <1>2, <2>1, <2>6, <2>10
<1>6. ListReads(ts, parse, es)
  BY <1>5 DEF ListReads
<1>7. ListGood(ts, parse, es)
  BY <1>1, <1>4, <1>6 DEF ListGood
<1>8. QED BY <1>2, <1>7

(* A list of one in front of others.                                       *)
LEMMA MoreListed ==
  ASSUME NEW ts \in Seq(Tokens), NEW parse, Parses(ts, parse),
         NEW a \in Trees, Plain(a), Readable(ts, parse, a),
         NEW m \in Seq(Trees), Len(m) >= 1, PartsGood(ts, parse, m),
         ListGood(ts, parse, m)
  PROVE  ListGood(ts, parse, <<a>> \o m)
<1>1. Represent[a] \in Seq(Tokens) /\ Len(Represent[a]) >= 1 /\ Represent[a][1] # ")"
  BY TextOfTree
<1>2. PICK es : es = <<a>> \o m
  OBVIOUS
<1>3. /\ es \in Seq(Trees \cup {a}) /\ Len(es) = Len(m) + 1
      /\ es[1] = a /\ \A k \in 1 .. Len(m) : es[k + 1] = m[k]
  BY <1>2, InFront
<1>4. es \in Seq(Trees) /\ \A k \in DOMAIN es : Plain(es[k])
  <2>1. Trees \cup {a} = Trees
    OBVIOUS
  <2>2. es \in Seq(Trees)
    BY <1>3, <2>1
  <2>3. PICK n \in Nat : n = Len(m)
    OBVIOUS
  <2>4. ASSUME NEW k \in 1 .. n + 1 PROVE Plain(es[k])
    <3>1. CASE k = 1
      BY <1>3, <3>1
    <3>2. CASE k # 1
      <4>1. PICK h \in 1 .. n : k = h + 1
        <5>1. k - 1 \in 1 .. n /\ k = (k - 1) + 1
          BY <3>2
        <5>2. QED BY <5>1
      <4>2. es[k] = m[h]
        BY <1>3, <2>3, <4>1
      <4>3. QED BY <2>3, <4>2 DEF PartsGood
    <3>3. QED BY <3>1, <3>2
  <2>5. DOMAIN es = 1 .. n + 1
    BY <1>3, <2>2, <2>3
  <2>6. QED BY <2>2, <2>4, <2>5
<1>5. PICK c \in Tokens : c = ","
  <2>1. "," \in Tokens
    BY Zenon DEF Tokens
  <2>2. QED BY <2>1, Zenon
<1>6. PICK u \in Seq(Tokens), v \in Seq(Tokens) : u = Represent[a] /\ v = Listed(m)
  BY <1>1 DEF ListGood
<1>7. Listed(es) = u \o <<c>> \o v
  <2>1. Writes(a, u)
    BY <1>6 DEF Writes
  <2>2. WritesAll(m, v)
    <3>1. Written(m) \in Seq(Seq(Tokens))
      <4>1. PICK n \in Nat : n = Len(m)
        OBVIOUS
      <4>2. \A k \in 1 .. n : m[k] \in Trees /\ Plain(m[k])
        BY <4>1 DEF PartsGood
      <4>3. \A k \in 1 .. n : Represent[m[k]] \in Seq(Tokens)
        BY <4>2, TextOfTree
      <4>4. DOMAIN m = 1 .. n
        BY <4>1
      <4>5. Written(m) = [k \in 1 .. n |-> Represent[m[k]]]
        BY <4>4 DEF Written
      <4>6. QED BY <4>3, <4>5
    <3>2. Separated(<<",">>, Written(m)) = v
      BY <1>6, Zenon DEF Listed
    <3>3. QED BY <3>1, <3>2, Zenon DEF WritesAll
  <2>3. WritesAll(<<a>> \o m, u \o <<",">> \o v)
    BY <2>1, <2>2, WritesMore
  <2>4. WritesAll(es, u \o <<",">> \o v)
    BY <1>2, <2>3, Zenon
  <2>5. Separated(<<",">>, Written(es)) = u \o <<",">> \o v
    BY <1>4, <2>4, Zenon DEF WritesAll
  <2>6. QED BY <1>5, <2>5, Zenon DEF Listed
<1>8. PICK w : w = u \o <<c>> \o v
  OBVIOUS
<1>9. w \in Seq(Tokens) /\ Len(w) >= 1 /\ w[1] # ")"
  <2>1. <<c>> \in Seq(Tokens)
    OBVIOUS
  <2>2. PICK d \in Seq(Tokens) : d = <<c>>
    BY <2>1
  <2>3. Len(u) >= 1 /\ u[1] # ")"
    BY <1>1, <1>6
  <2>4. u \o d \in Seq(Tokens) /\ Len(u \o d) >= 1 /\ (u \o d)[1] = u[1]
    BY <2>3, FirstOf
  <2>5. /\ (u \o d) \o v \in Seq(Tokens) /\ Len((u \o d) \o v) >= 1
        /\ ((u \o d) \o v)[1] = (u \o d)[1]
    BY <2>4, FirstOf
  <2>6. w = (u \o d) \o v
    BY <1>8, <2>2
  <2>7. QED BY <2>3, <2>4, <2>5, <2>6
<1>10. ASSUME NEW i \in 1 .. Len(ts) + 1, Stands(ts, u, i),
              NEW k, k = i + Len(u), Token(ts, k) = c
       PROVE  At(parse, i, 10) = Parsed(a, k)
  <2>1. Ends(Token(ts, k))
    BY <1>5, <1>10, MarksEnd
  <2>2. Marked(ts, a, i, k)
    BY <1>6, <1>10, <2>1 DEF Marked
  <2>3. \A x : \A y : Marked(ts, a, x, y) => At(parse, x, 10) = Parsed(a, y)
    BY PartReadMark
  <2>4. QED BY <2>2, <2>3, Zenon
<1>11. ASSUME NEW i \in 1 .. Len(ts) + 1, Stands(ts, w, i),
              NEW j, j = i + Len(w), Token(ts, j) = ")"
       PROVE  parse[<<"arguments", i, 10>>] = Parsed(es, j)
  <2>1. PICK p \in Nat, q \in Nat : p = Len(u) /\ q = Len(v)
    OBVIOUS
  <2>2. /\ Stands(ts, u, i) /\ Token(ts, i + p) = c /\ i + p \in 1 .. Len(ts) + 1
        /\ i + p + 1 \in 1 .. Len(ts) + 1 /\ Stands(ts, v, i + p + 1)
        /\ Len(w) = p + 1 + q
    <3>1. Stands(ts, u \o <<c>> \o v, i)
      BY <1>8, <1>11
    <3>2. /\ Stands(ts, u, i) /\ Token(ts, i + Len(u)) = c
          /\ i + Len(u) \in 1 .. Len(ts) + 1 /\ i + Len(u) + 1 \in 1 .. Len(ts) + 1
          /\ Stands(ts, v, i + Len(u) + 1) /\ Len(u \o <<c>> \o v) = Len(u) + 1 + Len(v)
      BY <3>1, StandsBetween
    <3>3. Len(w) = Len(u) + 1 + Len(v)
      BY <1>8, <3>2
    <3>4. QED BY <2>1, <3>2, <3>3
  <2>3. PICK k \in 1 .. Len(ts) + 1, h \in 1 .. Len(ts) + 1 :
          k = i + p /\ h = k + 1 /\ j = h + q
    <3>1. i \in Nat /\ j = i + (p + 1 + q)
      BY <1>11, <2>2
    <3>2. j = (i + p + 1) + q
      BY <3>1
    <3>3. QED BY <2>2, <3>2
  <2>4. At(parse, i, 10) = Parsed(a, k)
    <3>1. k = i + Len(u) /\ Token(ts, k) = c /\ Stands(ts, u, i)
      BY <2>1, <2>2, <2>3
    <3>2. QED BY <1>10, <3>1
  <2>5. parse[<<"arguments", h, 10>>] = Parsed(m, j)
    <3>1. Stands(ts, Listed(m), h) /\ j = h + Len(Listed(m))
      BY <1>6, <2>1, <2>2, <2>3
    <3>2. QED BY <1>11, <3>1 DEF ListGood, ListReads
  <2>6. parse[<<"arguments", i, 10>>] = ParseArguments(ts, parse, i)
    BY ArgumentsAre
  <2>7. PICK f, g : f = Parsed(a, k) /\ g = Parsed(m, j)
    OBVIOUS
  <2>8. /\ ~Fails(f) /\ f.tree = a /\ f.at = k
        /\ ~Fails(g) /\ g.tree = m /\ g.at = j
    <3>1. k \in Nat /\ k >= 1 /\ j \in Nat /\ j >= 1
      BY <2>1, <2>3
    <3>2. ~Fails(Parsed(a, k)) /\ Parsed(a, k).tree = a /\ Parsed(a, k).at = k
      BY <3>1 DEF Parsed, Fails
    <3>3. ~Fails(Parsed(m, j)) /\ Parsed(m, j).tree = m /\ Parsed(m, j).at = j
      BY <3>1 DEF Parsed, Fails
    <3>4. QED BY <2>7, <3>2, <3>3
  <2>9. /\ At(parse, i, 10) = f /\ Token(ts, f.at) = ","
         /\ parse[<<"arguments", f.at + 1, 10>>] = g
    BY <1>5, <2>2, <2>3, <2>4, <2>5, <2>7, <2>8
  <2>10. ParseArguments(ts, parse, i) = Parsed(<<f.tree>> \o g.tree, g.at)
    BY <2>8, <2>9, Zenon DEF ParseArguments
  <2>11. QED BY <1>2, <2>6, <2>8, <2>10, Zenon
<1>12. ListReads(ts, parse, es)
  BY <1>7, <1>8, <1>11 DEF ListReads
<1>13. ListGood(ts, parse, es)
  BY <1>7, <1>8, <1>9, <1>12 DEF ListGood
<1>14. QED BY <1>2, <1>13

(* A sequence is its first in front of the others.                         *)
LEMMA FirstAndOthers ==
  ASSUME NEW S, NEW s \in Seq(S), Len(s) >= 1
  PROVE  /\ s[1] \in S /\ Tail(s) \in Seq(S) /\ s = <<s[1]>> \o Tail(s)
         /\ Len(s) = Len(Tail(s)) + 1
         /\ \A k \in 1 .. Len(Tail(s)) : Tail(s)[k] = s[k + 1]
<1>1. s # <<>> /\ s[1] \in S
  OBVIOUS
<1>2. PICK t \in Seq(S) : /\ t = Tail(s) /\ Len(t) = Len(s) - 1
                          /\ \A k \in 1 .. Len(t) : t[k] = s[k + 1]
  BY <1>1, HeadTailProperties
<1>3. PICK x \in S : x = s[1]
  BY <1>1
<1>4. PICK n \in Nat : n = Len(t) /\ Len(s) = n + 1
  <2>1. PICK n \in Nat, m \in Nat : n = Len(t) /\ m = Len(s)
    OBVIOUS
  <2>2. m = n + 1
    BY <1>2, <2>1
  <2>3. QED BY <2>1, <2>2
<1>5. PICK u \in Seq(S) : u = <<x>> \o t
  <2>1. <<x>> \in Seq(S)
    OBVIOUS
  <2>2. QED BY <2>1, ConcatProperties
<1>6. Len(u) = n + 1 /\ u[1] = x /\ \A k \in 1 .. n : u[k + 1] = t[k]
  BY <1>4, <1>5, InFront
<1>7. \A k \in 1 .. n + 1 : u[k] = s[k]
  <2>1. ASSUME NEW k \in 1 .. n + 1, k # 1 PROVE u[k] = s[k]
    <3>1. PICK h \in 1 .. n : k = h + 1
      <4>1. k - 1 \in 1 .. n /\ k = (k - 1) + 1
        BY <2>1
      <4>2. QED BY <4>1
    <3>2. QED BY <1>2, <1>4, <1>6, <3>1
  <2>2. QED BY <1>3, <1>6, <2>1
<1>8. u = s
  BY <1>4, <1>6, <1>7, SeqEqual
<1>9. QED BY <1>1, <1>2, <1>3, <1>4, <1>5, <1>8

(* Of any list.                                                            *)
LEMMA AnyListed ==
  ASSUME NEW ts \in Seq(Tokens), NEW parse, Parses(ts, parse)
  PROVE  \A es \in Seq(Trees) :
           Len(es) >= 1 /\ PartsGood(ts, parse, es) => ListGood(ts, parse, es)
<1> DEFINE K == {n \in Nat : \A es \in Seq(Trees) :
                   Len(es) = n + 1 /\ PartsGood(ts, parse, es) => ListGood(ts, parse, es)}
<1>1. 0 \in K
  <2>1. ASSUME NEW es \in Seq(Trees), Len(es) = 0 + 1, PartsGood(ts, parse, es)
        PROVE  ListGood(ts, parse, es)
    <3>1. es = <<es[1]>> /\ es[1] \in Trees /\ 1 \in 1 .. Len(es)
      <4>1. Len(es) = 1 /\ es \in Seq(Trees)
        BY <2>1
      <4>2. QED BY <4>1
    <3>2. PICK a \in Trees : a = es[1]
      BY <3>1
    <3>3. Plain(a) /\ Readable(ts, parse, a)
      BY <2>1, <3>1, <3>2 DEF PartsGood
    <3>4. ListGood(ts, parse, <<a>>)
      BY <3>3, OneListed
    <3>5. QED BY <3>1, <3>2, <3>4
  <2>2. QED BY <2>1
<1>2. ASSUME NEW n \in Nat, n \in K PROVE n + 1 \in K
  <2>1. ASSUME NEW es \in Seq(Trees), Len(es) = (n + 1) + 1, PartsGood(ts, parse, es)
        PROVE  ListGood(ts, parse, es)
    <3>1. PICK a, m : a = es[1] /\ m = Tail(es)
      OBVIOUS
    <3>2. /\ a \in Trees /\ m \in Seq(Trees) /\ es = <<a>> \o m /\ Len(es) = Len(m) + 1
          /\ \A k \in 1 .. Len(m) : m[k] = es[k + 1]
      <4>1. Len(es) >= 1
        BY <2>1
      <4>2. QED BY <3>1, <4>1, FirstAndOthers
    <3>3. Len(m) = n + 1 /\ Len(m) >= 1
      BY <2>1, <3>2
    <3>4. Plain(a) /\ Readable(ts, parse, a)
      <4>1. 1 \in 1 .. Len(es)
        BY <2>1
      <4>2. QED BY <2>1, <3>1, <4>1 DEF PartsGood
    <3>5. PartsGood(ts, parse, m)
      <4>1. ASSUME NEW k \in 1 .. Len(m) PROVE Plain(m[k]) /\ Readable(ts, parse, m[k])
        <5>1. k + 1 \in 1 .. Len(es)
          BY <2>1, <3>3
        <5>2. QED BY <2>1, <3>2, <5>1 DEF PartsGood
      <4>2. QED BY <4>1 DEF PartsGood
    <3>6. ListGood(ts, parse, m)
      BY <1>2, <3>2, <3>3, <3>5
    <3>7. ListGood(ts, parse, <<a>> \o m)
      BY <3>2, <3>3, <3>4, <3>5, <3>6, MoreListed
    <3>8. QED BY <3>2, <3>7
  <2>2. QED BY <2>1
<1>3. \A n \in Nat : n \in K
  <2> HIDE DEF K
  <2>1. QED BY <1>1, <1>2, Every
<1>4. ASSUME NEW es \in Seq(Trees), Len(es) >= 1, PartsGood(ts, parse, es)
      PROVE  ListGood(ts, parse, es)
  <2>1. PICK n \in Nat : Len(es) = n + 1
    <3>1. Len(es) - 1 \in Nat /\ Len(es) = (Len(es) - 1) + 1
      BY <1>4
    <3>2. QED BY <3>1
  <2>2. n \in K
    BY <1>3
  <2>3. QED BY <1>4, <2>1, <2>2
<1>5. QED BY <1>4

(* What is written between the parentheses of a call: nothing, or a list.  *)
LEMMA CallListed ==
  ASSUME NEW ts \in Seq(Tokens), NEW parse, Parses(ts, parse),
         NEW es \in Seq(Trees), PartsGood(ts, parse, es)
  PROVE  /\ Listed(es) \in Seq(Tokens)
         /\ es = <<>> => Listed(es) = <<>>
         /\ es # <<>> => ListGood(ts, parse, es)
<1>1. CASE es = <<>>
  <2>1. Written(es) = <<>>
    <3>1. DOMAIN es = {}
      BY <1>1
    <3>2. Written(es) = [i \in {} |-> Represent[es[i]]]
      BY <3>1 DEF Written
    <3>3. QED BY <3>2
  <2>2. PICK c \in Tokens : c = ","
    <3>1. "," \in Tokens
      BY Zenon DEF Tokens
    <3>2. QED BY <3>1, Zenon
  <2>3. Separated(<<c>>, <<>>) = <<>>
    <3>1. <<c>> \in Seq(Tokens) /\ <<>> \in Seq(Tokens)
      OBVIOUS
    <3>2. QED BY <3>1, SeparatedFew
  <2>4. Listed(es) = <<>>
    BY <2>1, <2>2, <2>3, Zenon DEF Listed
  <2>5. <<>> \in Seq(Tokens)
    OBVIOUS
  <2>6. QED BY <1>1, <2>4, <2>5
<1>2. CASE es # <<>>
  <2>1. Len(es) >= 1
    <3>1. Len(es) # 0
      BY <1>2, EmptySeq
    <3>2. QED BY <3>1
  <2>2. ListGood(ts, parse, es)
    BY <2>1, AnyListed
  <2>3. QED BY <1>2, <2>2 DEF ListGood
<1>3. QED BY <1>1, <1>2

(* A call with its arguments.                                              *)
LEMMA FunctionReads ==
  ASSUME NEW ts \in Seq(Tokens), NEW parse, Parses(ts, parse),
         NEW e \in Trees, Plain(e), e.kind = "function",
         PartsGood(ts, parse, e.args), NEW i \in 1 .. Len(ts) + 1
  PROVE  Reads(ts, parse, e, i, Binds(e))
<1>1. PICK t, es : t = e.text /\ es = e.args
  OBVIOUS
<1>2. /\ e = Node("function", t, es) /\ es \in Seq(Trees)
      /\ t \in Functions /\ t \in Tokens
  <2>1. t \in Functions
    BY <1>1, KindIs
  <2>2. QED BY <1>1, <2>1, TreesAre DEF Tokens
<1>3. PICK w : w = Listed(es)
  OBVIOUS
<1>4. /\ w \in Seq(Tokens)
      /\ es = <<>> => w = <<>>
      /\ es # <<>> => ListGood(ts, parse, es)
  BY <1>1, <1>2, <1>3, CallListed
<1>5. PICK n \in Nat : n = Len(w)
  BY <1>4
<1>6. PICK b \in Seq(Tokens) : b = Between(w) /\ Len(b) = n + 2
  BY <1>4, <1>5, BetweenText
<1>7. Represent[e] = <<t>> \o b
  BY <1>1, <1>3, <1>6, WrittenAs, Zenon DEF Listed
<1>8. SUFFICES ASSUME Stands(ts, <<t>> \o b, i)
               PROVE  At(parse, i, 80) = Parsed(e, i + Len(<<t>> \o b))
  <2>1. Binds(e) = 80
    BY DEF Binds
  <2>2. QED BY <1>7, <2>1 DEF Reads, Found
<1>9. /\ Token(ts, i) = t /\ i + 1 \in 1 .. Len(ts) + 1
      /\ Stands(ts, b, i + 1) /\ Len(<<t>> \o b) = 1 + (n + 2)
  BY <1>2, <1>6, <1>8, StandsFirst
<1>10. PICK k \in 1 .. Len(ts) + 1 : k = i + 1
  BY <1>9
<1>11. /\ Token(ts, k) = "(" /\ k + 1 \in 1 .. Len(ts) + 1 /\ Stands(ts, w, k + 1)
       /\ k + 1 + n \in 1 .. Len(ts) + 1 /\ Token(ts, k + 1 + n) = ")"
  <2>1. Stands(ts, Between(w), k)
    BY <1>6, <1>9, <1>10
  <2>2. /\ Token(ts, k) = "(" /\ k + 1 \in 1 .. Len(ts) + 1 /\ Stands(ts, w, k + 1)
        /\ k + 1 + Len(w) \in 1 .. Len(ts) + 1 /\ Token(ts, k + 1 + Len(w)) = ")"
    BY <1>4, <2>1, StandsEnclosed
  <2>3. QED BY <1>5, <2>2
<1>12. PICK h \in 1 .. Len(ts) + 1, j \in 1 .. Len(ts) + 1 :
         /\ h = k + 1 /\ h = i + 2 /\ j = h + n /\ j = k + 1 + n
         /\ i + Len(<<t>> \o b) = j + 1
  <2>1. i + Len(<<t>> \o b) = (k + 1 + n) + 1 /\ k + 1 = i + 2
    BY <1>9, <1>10
  <2>2. QED BY <1>11, <2>1
<1>13. At(parse, i, 80) = ParseUnit(ts, parse, i)
  <2>1. t \notin PrefixOperators
    BY <1>2 DEF Functions, PrefixOperators
  <2>2. At(parse, i, 80) = ParsePrefix(ts, parse, i)
    BY AtHighest
  <2>3. QED BY <1>9, <2>1, <2>2 DEF ParsePrefix
<1>14. t # "(" /\ t \in Functions \cup Variables /\ Token(ts, i + 1) = "("
  <2>1. t # "("
    BY <1>2 DEF Functions
  <2>2. QED BY <1>2, <1>10, <1>11, <2>1
<1>15. Token(ts, j) = ")" /\ Stands(ts, w, h)
  BY <1>11, <1>12
<1>16. CASE es = <<>>
  <2>1. n = 0
    BY <1>4, <1>5, <1>16
  <2>2. j = i + 2 /\ j + 1 = i + 3
    BY <1>12, <2>1
  <2>3. Token(ts, i + 2) = ")"
    BY <1>15, <2>2
  <2>4. ParseUnit(ts, parse, i) = Parsed(Node("function", t, <<>>), i + 3)
    BY <1>9, <1>14, <2>3, Zenon DEF ParseUnit
  <2>5. QED BY <1>2, <1>12, <1>13, <1>16, <2>2, <2>4
<1>17. CASE es # <<>>
  <2>1. Len(w) >= 1 /\ w[1] # ")" /\ ListReads(ts, parse, es)
    BY <1>3, <1>4, <1>17 DEF ListGood
  <2>2. Token(ts, h) # ")"
    <3>1. 1 \in 1 .. Len(w) /\ h + 1 - 1 = h
      BY <1>5, <2>1
    <3>2. ts[h] = w[1] /\ h + Len(w) <= Len(ts) + 1
      BY <1>15, <3>1 DEF Stands
    <3>3. h \in DOMAIN ts
      <4>1. PICK N \in Nat : N = Len(ts)
        OBVIOUS
      <4>2. h \in 1 .. N
        BY <1>5, <2>1, <3>2, <4>1
      <4>3. QED BY <4>1, <4>2
    <3>4. QED BY <2>1, <3>2, <3>3 DEF Token
  <2>3. parse[<<"arguments", h, 10>>] = Parsed(es, j)
    <3>1. Stands(ts, Listed(es), h) /\ j = h + Len(Listed(es))
      BY <1>3, <1>5, <1>12, <1>15
    <3>2. QED BY <1>15, <2>1, <3>1 DEF ListReads
  <2>4. PICK g : g = Parsed(es, j)
    OBVIOUS
  <2>5. ~Fails(g) /\ g.tree = es /\ g.at = j
    <3>1. j \in Nat /\ j >= 1
      OBVIOUS
    <3>2. QED BY <2>4, <3>1 DEF Parsed, Fails
  <2>6. Token(ts, i + 2) # ")" /\ parse[<<"arguments", i + 2, 10>>] = g
    BY <1>12, <2>2, <2>3, <2>4
  <2>7. ParseUnit(ts, parse, i) = Closed(ts, g, ")", "function", t, g.tree)
    BY <1>9, <1>14, <2>6, Zenon DEF ParseUnit
  <2>8. Closed(ts, g, ")", "function", t, g.tree) = Parsed(Node("function", t, es), j + 1)
    BY <1>15, <2>5 DEF Closed
  <2>9. QED BY <1>2, <1>12, <1>13, <2>7, <2>8
<1>18. QED BY <1>16, <1>17

-----------------------------------------------------------------------------
(* The nodes of a tree: itself and those of its parts.                     *)
LEMMA NodesAre ==
  ASSUME NEW e \in Trees
  PROVE  \A d : d \in Nodes[e] <=> d = e \/ \E i \in DOMAIN e.args : d \in Nodes[e.args[i]]
<1>1. PICK ns : ns = OfParts(Nodes, e)
  OBVIOUS
<1>2. DOMAIN ns = DOMAIN e.args /\ \A i \in DOMAIN e.args : ns[i] = Nodes[e.args[i]]
  BY <1>1 DEF OfParts
<1>3. Nodes[e] = {e} \cup UNION {ns[i] : i \in DOMAIN ns}
  BY <1>1, NodesIs DEF NodesOf
<1>4. QED BY <1>2, <1>3

(* A node whose parts bind as it needs them to when they stand without     *)
(* parentheses.                                                            *)
Fits(d) ==
  /\ d.kind = "unary" => Binds(d.args[1]) = 80
  /\ d.kind = "binary" => /\ Binds(d.args[1]) >= Level(d.text)
                          /\ Binds(d.args[2]) > Level(d.text)
  /\ d.kind = "conditional" => Binds(d.args[1]) > 10

Fitting(e) == \A d \in Nodes[e] : Fits(d)

(* The parser finds such a tree wherever it is written.                    *)
LEMMA FittingReadable ==
  ASSUME NEW ts \in Seq(Tokens), NEW parse, Parses(ts, parse)
  PROVE  \A e \in Trees : Plain(e) /\ Fitting(e) => Readable(ts, parse, e)
<1> DEFINE S == {e \in Trees : Plain(e) /\ Fitting(e) => Readable(ts, parse, e)}
<1>1. ASSUME NEW e \in Trees, \A i \in DOMAIN e.args : e.args[i] \in S,
             Plain(e), Fitting(e)
      PROVE  Readable(ts, parse, e)
  <2>1. Fits(e) /\ \A i \in DOMAIN e.args : Fitting(e.args[i])
    BY <1>1, NodesAre DEF Fitting
  <2>2. \A i \in DOMAIN e.args : Plain(e.args[i]) /\ Readable(ts, parse, e.args[i])
    BY <1>1, <2>1, PartsPlain
  <2>3. ASSUME NEW i \in 1 .. Len(ts) + 1 PROVE Reads(ts, parse, e, i, Binds(e))
    <3>1. CASE e.kind \in {"literal", "variable"}
      BY <1>1, <3>1, LeafReads
    <3>2. CASE e.kind = "unary"
      <4>1. Readable(ts, parse, e.args[1]) /\ Binds(e.args[1]) = 80
        BY <2>1, <2>2, <3>2, KindIs DEF Fits
      <4>2. QED BY <1>1, <3>2, <4>1, UnaryReads
    <3>3. CASE e.kind = "parentheses"
      <4>1. Readable(ts, parse, e.args[1])
        BY <2>2, <3>3, KindIs
      <4>2. QED BY <1>1, <3>3, <4>1, ParenthesesRead
    <3>4. CASE e.kind = "binary"
      <4>1. Readable(ts, parse, e.args[1]) /\ Readable(ts, parse, e.args[2])
        BY <2>2, <3>4, KindIs
      <4>2. Binds(e.args[1]) >= Level(e.text) /\ Binds(e.args[2]) > Level(e.text)
        BY <2>1, <3>4 DEF Fits
      <4>3. QED BY <1>1, <3>4, <4>1, <4>2, BinaryReads
    <3>5. CASE e.kind = "conditional"
      <4>1. /\ Readable(ts, parse, e.args[1]) /\ Readable(ts, parse, e.args[2])
            /\ Readable(ts, parse, e.args[3])
        BY <2>2, <3>5, KindIs
      <4>2. Binds(e.args[1]) > 10
        BY <2>1, <3>5 DEF Fits
      <4>3. QED BY <1>1, <3>5, <4>1, <4>2, ConditionalReads
    <3>6. CASE e.kind = "function"
      <4>1. PartsGood(ts, parse, e.args)
        <5>1. DOMAIN e.args = 1 .. Len(e.args)
          BY TreesAre
        <5>2. QED BY <2>2, <5>1 DEF PartsGood
      <4>2. QED BY <1>1, <3>6, <4>1, FunctionReads
    <3>7. QED BY <3>1, <3>2, <3>3, <3>4, <3>5, <3>6, KindIs
  <2>4. QED BY <1>1, <2>3, ReadsBelow
<1>2. Trees \subseteq S
  <2>1. \A e \in Trees : (\A i \in DOMAIN e.args : e.args[i] \in S) => e \in S
    BY <1>1
  <2> HIDE DEF S
  <2>2. QED BY <2>1, TreeInduction
<1>3. QED BY <1>2

(* Written out it is parsed as what it is.                                 *)
LEMMA FittingRestored ==
  ASSUME NEW e \in Trees, Plain(e), Fitting(e)
  PROVE  Restorable(e)
<1>1. PICK ts \in Seq(Tokens) : ts = Represent[e]
  BY TextOfTree
<1>2. PICK parse : /\ Parses(ts, parse)
                   /\ LET p == At(parse, 1, 10)
                      IN Parse(ts) = IF p.at = Len(ts) + 1 THEN p.tree ELSE NoTree
  BY ParseIs
<1>3. PICK n \in Nat : n = Len(ts)
  OBVIOUS
<1>4. PICK j : j = n + 1
  OBVIOUS
<1>5. Marked(ts, e, 1, j)
  <2>1. 1 \in 1 .. Len(ts) + 1 /\ j = 1 + Len(ts)
    BY <1>3, <1>4
  <2>2. Stands(ts, ts, 1)
    <3>1. \A k \in 1 .. n : 1 + k - 1 = k
      OBVIOUS
    <3>2. 1 + n <= n + 1
      OBVIOUS
    <3>3. QED BY <1>3, <3>1, <3>2 DEF Stands
  <2>3. Token(ts, j) = "end"
    <3>1. j \notin DOMAIN ts
      BY <1>3, <1>4
    <3>2. QED BY <3>1 DEF Token
  <2>4. Ends(Token(ts, j))
    BY <2>3, MarksEnd
  <2>5. QED BY <1>1, <2>1, <2>2, <2>4 DEF Marked
<1>6. At(parse, 1, 10) = Parsed(e, j)
  <2>1. Readable(ts, parse, e)
    BY <1>2, FittingReadable
  <2>2. Parses(ts, parse)
    BY <1>2
  <2>3. \A x : \A y : Marked(ts, e, x, y) => At(parse, x, 10) = Parsed(e, y)
    BY <2>1, <2>2, PartReadMark
  <2>4. QED BY <1>5, <2>3, Zenon
<1>7. Parse(ts) = e
  <2>1. Parsed(e, j).tree = e /\ Parsed(e, j).at = j
    BY DEF Parsed
  <2>2. QED BY <1>2, <1>3, <1>4, <1>6, <2>1
<1>8. QED BY <1>1, <1>7 DEF Restorable

-----------------------------------------------------------------------------
(* What fits if it is a tree.                                              *)
Sound(e) == e \in Trees => Fitting(e)

(* A tree fits if its parts do, and if it fits itself.                     *)
LEMMA FittingIs ==
  ASSUME NEW e \in Trees
  PROVE  Fitting(e) <=> Fits(e) /\ \A i \in DOMAIN e.args : Fitting(e.args[i])
BY NodesAre DEF Fitting

(* A node of parts that fit.                                               *)
LEMMA NodeSound ==
  ASSUME NEW k, NEW t, NEW args, Fits(Node(k, t, args)),
         \A i \in DOMAIN args : Sound(args[i])
  PROVE  Sound(Node(k, t, args))
<1>1. PICK e : e = Node(k, t, args)
  OBVIOUS
<1>2. e.kind = k /\ e.args = args
  BY <1>1 DEF Node
<1>3. ASSUME e \in Trees PROVE Fitting(e)
  <2>1. \A i \in DOMAIN args : args[i] \in Trees
    BY <1>2, <1>3, TreesAre
  <2>2. \A i \in DOMAIN e.args : Fitting(e.args[i])
    BY <1>2, <2>1 DEF Sound
  <2>3. QED BY <1>1, <1>3, <2>2, FittingIs
<1>4. QED BY <1>1, <1>3 DEF Sound

(* What nodes bind.                                                        *)
LEMMA NodeBinds ==
  /\ \A e : Binds(e) \in {0, 10, 20, 30, 40, 50, 60, 70, 80}
  /\ \A k, t, args : /\ k \notin {"binary", "conditional"} => Binds(Node(k, t, args)) = 80
                     /\ k = "binary" => Binds(Node(k, t, args)) = Level(t)
<1>1. ASSUME NEW e PROVE Binds(e) \in {0, 10, 20, 30, 40, 50, 60, 70, 80}
  <2>1. Level(e.text) \in {0, 20, 30, 40, 50, 60, 70}
    BY OperatorLevels
  <2>2. QED BY <2>1 DEF Binds
<1>2. QED BY <1>1 DEF Binds, Node

(* A node whose parts may bind as they do.                                 *)
LEMMA CallSound ==
  ASSUME NEW k, k \notin {"unary", "binary", "conditional"}, NEW t, NEW args,
         \A i \in DOMAIN args : Sound(args[i])
  PROVE  Sound(Node(k, t, args)) /\ Binds(Node(k, t, args)) = 80
<1>1. Fits(Node(k, t, args))
  <2>1. Node(k, t, args).kind = k
    BY DEF Node
  <2>2. QED BY <2>1 DEF Fits
<1>2. QED BY <1>1, NodeSound, NodeBinds

(* A node with no parts.                                                   *)
LEMMA LeafSound ==
  ASSUME NEW k, k \notin {"unary", "binary", "conditional"}, NEW t
  PROVE  Sound(Node(k, t, <<>>)) /\ Binds(Node(k, t, <<>>)) = 80
<1>1. PICK s : s = <<>>
  OBVIOUS
<1>2. DOMAIN s = {}
  BY <1>1
<1>3. Sound(Node(k, t, s)) /\ Binds(Node(k, t, s)) = 80
  BY <1>2, CallSound
<1>4. QED BY <1>1, <1>3

(* A node with one part.                                                   *)
LEMMA OneSound ==
  ASSUME NEW k, k \notin {"binary", "conditional"}, NEW t, NEW a, Sound(a),
         k = "unary" => Binds(a) = 80
  PROVE  Sound(Node(k, t, <<a>>)) /\ Binds(Node(k, t, <<a>>)) = 80
<1>1. PICK s : s = <<a>>
  OBVIOUS
<1>2. DOMAIN s = {1} /\ s[1] = a
  BY <1>1
<1>3. Fits(Node(k, t, s))
  <2>1. Node(k, t, s).kind = k /\ Node(k, t, s).args = s
    BY DEF Node
  <2>2. QED BY <1>2, <2>1 DEF Fits
<1>4. Sound(Node(k, t, s))
  BY <1>2, <1>3, NodeSound
<1>5. QED BY <1>1, <1>4, NodeBinds

(* A binary node.                                                          *)
LEMMA TwoSound ==
  ASSUME NEW t, NEW a, Sound(a), Binds(a) >= Level(t),
         NEW b, Sound(b), Binds(b) > Level(t)
  PROVE  Sound(Node("binary", t, <<a, b>>)) /\ Binds(Node("binary", t, <<a, b>>)) = Level(t)
<1>1. PICK s : s = <<a, b>>
  OBVIOUS
<1>2. DOMAIN s = {1, 2} /\ s[1] = a /\ s[2] = b
  BY <1>1
<1>3. PICK d : d = Node("binary", t, s)
  OBVIOUS
<1>4. d.kind = "binary" /\ d.text = t /\ d.args = s
  BY <1>3 DEF Node
<1>5. Fits(d)
  BY <1>2, <1>4 DEF Fits
<1>6. \A i \in DOMAIN s : Sound(s[i])
  BY <1>2
<1>7. Sound(d)
  BY <1>3, <1>5, <1>6, NodeSound
<1>8. Binds(d) = Level(t)
  BY <1>4 DEF Binds
<1>9. QED BY <1>1, <1>3, <1>7, <1>8

(* A conditional.                                                          *)
LEMMA ThreeSound ==
  ASSUME NEW t, NEW a, Sound(a), Binds(a) > 10, NEW b, Sound(b), NEW c, Sound(c)
  PROVE  Sound(Node("conditional", t, <<a, b, c>>))
<1>1. PICK s : s = <<a, b, c>>
  OBVIOUS
<1>2. DOMAIN s = {1, 2, 3} /\ s[1] = a /\ s[2] = b /\ s[3] = c
  BY <1>1
<1>3. PICK d : d = Node("conditional", t, s)
  OBVIOUS
<1>4. d.kind = "conditional" /\ d.args = s
  BY <1>3 DEF Node
<1>5. Fits(d)
  BY <1>2, <1>4 DEF Fits
<1>6. \A i \in DOMAIN s : Sound(s[i])
  BY <1>2
<1>7. QED BY <1>1, <1>3, <1>5, <1>6, NodeSound

(* What the parser says of a goal fits, and binds as the level does.       *)
LevelSound(p, l) == Sound(p.tree) /\ Binds(p.tree) >= l

RestSound(p, l) ==
  ~Fails(p) => \A e : Sound(e) /\ Binds(e) >= l =>
                        Sound(Grouped(e, p.tree)) /\ Binds(Grouped(e, p.tree)) >= l

ArgumentsSound(p) == ~Fails(p) => \A k \in DOMAIN p.tree : Sound(p.tree[k])

(* Of the goals behind i.                                                  *)
SoundBehind(ts, parse, i) ==
  \A j \in i + 1 .. Len(ts) + 1 : \A m \in Levels :
    /\ LevelSound(At(parse, j, m), m) /\ RestSound(parse[<<"rest", j, m>>], m)
    /\ ArgumentsSound(parse[<<"arguments", j, m>>])

(* Where the parser fails there is no tree.                                *)
LEMMA FailedSound ==
  /\ Fails(Failed) /\ \A l \in Levels : LevelSound(Failed, l)
<1>1. Fails(Failed) /\ Failed.tree = NoTree /\ NoTree.kind = "none"
  BY DEF Failed, Parsed, Fails, NoTree, Node
<1>2. NoTree \notin Trees
  <2>1. "none" \notin DOMAIN Texts
    BY DEF Texts
  <2>2. QED BY <1>1, <2>1, TreesAre
<1>3. Binds(NoTree) = 80
  BY <1>1 DEF Binds
<1>4. \A l \in Levels : 80 >= l
  BY DEF Levels
<1>5. QED BY <1>1, <1>2, <1>3, <1>4 DEF LevelSound, Sound

(* How far the parser goes.                                                *)
LEMMA Passed ==
  ASSUME NEW ts \in Seq(Tokens), NEW parse, Parses(ts, parse),
         NEW i \in 1 .. Len(ts) + 1, NEW l \in Levels
  PROVE  /\ ~Fails(At(parse, i, l)) => At(parse, i, l).at \in i + 1 .. Len(ts) + 1
         /\ ~Fails(parse[<<"rest", i, l>>]) =>
              \E S : parse[<<"rest", i, l>>].tree \in Seq(S)
         /\ ~Fails(parse[<<"arguments", i, l>>]) =>
              \E S : parse[<<"arguments", i, l>>].tree \in Seq(S)
<1>1. PICK a, b, c : a = <<"level", i, l>> /\ b = <<"rest", i, l>> /\ c = <<"arguments", i, l>>
  OBVIOUS
<1>2. a \in Goals(ts) /\ b \in Goals(ts) /\ c \in Goals(ts)
  BY <1>1, RankIs
<1>3. Right(ts, a, parse[a]) /\ Right(ts, b, parse[b]) /\ Right(ts, c, parse[c])
  BY <1>2 DEF Parses
<1>4. /\ a[1] = "level" /\ b[1] = "rest" /\ c[1] = "arguments"
      /\ a[2] = i /\ b[2] = i /\ c[2] = i
  BY <1>1
<1>5. LevelRight(ts, i, parse[a]) /\ RestRight(ts, i, parse[b]) /\ ArgumentsRight(ts, i, parse[c])
  BY <1>3, <1>4 DEF Right
<1>6. PICK p : p = parse[a]
  OBVIOUS
<1>7. ~Fails(p) => p.at \in i + 1 .. Len(ts) + 1
  <2>1. p.at \in 0 .. Len(ts) + 1 /\ (~Fails(p) => p.at > i)
    BY <1>5, <1>6 DEF LevelRight
  <2>2. QED BY <2>1
<1>8. ~Fails(parse[b]) => \E S : parse[b].tree \in Seq(S)
  BY <1>5, Zenon DEF RestRight
<1>9. ~Fails(parse[c]) => \E S : parse[c].tree \in Seq(S)
  BY <1>5, Zenon DEF ArgumentsRight
<1>10. QED BY <1>1, <1>6, <1>7, <1>8, <1>9, Zenon DEF At

(* What is closed.                                                         *)
LEMMA ClosedSound ==
  ASSUME NEW ts, NEW p, NEW t, NEW k, NEW s, NEW args,
         ~Fails(p) => Sound(Node(k, s, args)), k \notin {"binary", "conditional"}
  PROVE  LevelSound(Closed(ts, p, t, k, s, args), 80)
<1>1. PICK d : d = Node(k, s, args)
  OBVIOUS
<1>2. Parsed(d, p.at + 1).tree = d /\ Binds(d) = 80
  BY <1>1, NodeBinds DEF Parsed
<1>3. ~Fails(p) => LevelSound(Parsed(d, p.at + 1), 80)
  BY <1>1, <1>2 DEF LevelSound
<1>4. Closed(ts, p, t, k, s, args) \in {Parsed(d, p.at + 1), Failed}
      /\ (Fails(p) => Closed(ts, p, t, k, s, args) = Failed)
  BY <1>1 DEF Closed
<1>5. 80 \in Levels
  BY DEF Levels
<1>6. QED BY <1>3, <1>4, <1>5, FailedSound

(* What was parsed.                                                        *)
LEMMA ParsedSound ==
  ASSUME NEW e, NEW j, Sound(e), NEW l, Binds(e) >= l
  PROVE  LevelSound(Parsed(e, j), l)
BY DEF LevelSound, Parsed

(* A unit.                                                                 *)
LEMMA UnitSound ==
  ASSUME NEW ts \in Seq(Tokens), NEW parse, Parses(ts, parse),
         NEW i \in 1 .. Len(ts) + 1, SoundBehind(ts, parse, i)
  PROVE  LevelSound(ParseUnit(ts, parse, i), 80)
<1>1. PICK t : t = Token(ts, i)
  OBVIOUS
<1>2. t # "end" => i + 1 \in i + 1 .. Len(ts) + 1 /\ i + 1 \in 1 .. Len(ts) + 1
  <2>1. t # "end" => i + 1 \in 1 .. Len(ts) + 1
    BY <1>1, TokenIs
  <2>2. QED BY <2>1
<1>3. 10 \in Levels /\ 80 \in Levels
  BY DEF Levels
<1>4. CASE t = "("
  <2>1. PICK p : p = At(parse, i + 1, 10)
    OBVIOUS
  <2>2. t # "end"
    BY <1>4
  <2>3. LevelSound(p, 10)
    BY <1>2, <1>3, <2>1, <2>2 DEF SoundBehind
  <2>4. Sound(Node("parentheses", "", <<p.tree>>))
    <3>1. Sound(p.tree)
      BY <2>3 DEF LevelSound
    <3>2. PICK k : k = "parentheses" /\ k \notin {"unary", "binary", "conditional"}
      OBVIOUS
    <3>3. PICK u : u = ""
      OBVIOUS
    <3>4. Sound(Node(k, u, <<p.tree>>))
      BY <3>1, <3>2, OneSound
    <3>5. QED BY <3>2, <3>3, <3>4
  <2>5. ParseUnit(ts, parse, i) = Closed(ts, p, ")", "parentheses", "", <<p.tree>>)
    BY <1>1, <1>4, <2>1 DEF ParseUnit
  <2>6. QED BY <2>4, <2>5, ClosedSound
<1>5. CASE t # "(" /\ t \in Functions \cup Variables /\ Token(ts, i + 1) = "("
  <2>1. t # "end"
    BY <1>5, TokenAssumption DEF Functions
  <2>2. PICK h \in 1 .. Len(ts) + 1 : h = i + 1
    BY <1>2, <2>1
  <2>3. i + 2 \in i + 1 .. Len(ts) + 1
    <3>1. h + 1 \in 1 .. Len(ts) + 1
      BY <1>5, <2>2, TokenIs
    <3>2. QED BY <2>2, <3>1
  <2>4. CASE Token(ts, i + 2) = ")"
    <3>1. ParseUnit(ts, parse, i) = Parsed(Node("function", t, <<>>), i + 3)
      BY <1>1, <1>5, <2>4, Zenon DEF ParseUnit
    <3>2. Sound(Node("function", t, <<>>)) /\ Binds(Node("function", t, <<>>)) >= 80
      <4>1. PICK k : k = "function" /\ k \notin {"unary", "binary", "conditional"}
        OBVIOUS
      <4>2. Sound(Node(k, t, <<>>)) /\ Binds(Node(k, t, <<>>)) = 80
        BY <4>1, LeafSound
      <4>3. QED BY <4>1, <4>2
    <3>3. QED BY <3>1, <3>2, ParsedSound
  <2>5. CASE Token(ts, i + 2) # ")"
    <3>1. PICK p : p = parse[<<"arguments", i + 2, 10>>]
      OBVIOUS
    <3>2. ArgumentsSound(p)
      BY <1>3, <2>3, <3>1 DEF SoundBehind
    <3>3. ~Fails(p) => Sound(Node("function", t, p.tree))
      <4>1. PICK k : k = "function" /\ k \notin {"unary", "binary", "conditional"}
        OBVIOUS
      <4>2. ~Fails(p) => Sound(Node(k, t, p.tree))
        BY <3>2, <4>1, CallSound DEF ArgumentsSound
      <4>3. QED BY <4>1, <4>2
    <3>4. ParseUnit(ts, parse, i) = Closed(ts, p, ")", "function", t, p.tree)
      BY <1>1, <1>5, <2>5, <3>1, Zenon DEF ParseUnit
    <3>5. QED BY <3>3, <3>4, ClosedSound
  <2>6. QED BY <2>4, <2>5
<1>6. CASE ~(t = "(") /\ ~(t \in Functions \cup Variables /\ Token(ts, i + 1) = "(")
  <2>1. PICK v, u : v = Node("variable", t, <<>>) /\ u = Node("literal", t, <<>>)
    OBVIOUS
  <2>2. Sound(v) /\ Binds(v) >= 80 /\ Sound(u) /\ Binds(u) >= 80
    <3>1. PICK k, h : /\ k = "variable" /\ k \notin {"unary", "binary", "conditional"}
                      /\ h = "literal" /\ h \notin {"unary", "binary", "conditional"}
      OBVIOUS
    <3>2. /\ Sound(Node(k, t, <<>>)) /\ Binds(Node(k, t, <<>>)) = 80
          /\ Sound(Node(h, t, <<>>)) /\ Binds(Node(h, t, <<>>)) = 80
      BY <3>1, LeafSound
    <3>3. QED BY <2>1, <3>1, <3>2
  <2>3. ParseUnit(ts, parse, i) \in {Parsed(v, i + 1), Parsed(u, i + 1), Failed}
    BY <1>1, <1>6, <2>1 DEF ParseUnit
  <2>4. QED BY <1>3, <2>2, <2>3, ParsedSound, FailedSound
<1>7. QED BY <1>4, <1>5, <1>6

(* What stands behind an operator in front.                                *)
LEMMA PrefixSound ==
  ASSUME NEW ts \in Seq(Tokens), NEW parse, Parses(ts, parse),
         NEW i \in 1 .. Len(ts) + 1, SoundBehind(ts, parse, i)
  PROVE  LevelSound(ParsePrefix(ts, parse, i), 80)
<1>1. CASE Token(ts, i) \in PrefixOperators
  <2>1. Token(ts, i) # "end"
    BY <1>1 DEF PrefixOperators
  <2>2. i + 1 \in i + 1 .. Len(ts) + 1
    <3>1. i + 1 \in 1 .. Len(ts) + 1
      BY <2>1, TokenIs
    <3>2. QED BY <3>1
  <2>3. PICK p : p = At(parse, i + 1, 80)
    OBVIOUS
  <2>4. LevelSound(p, 80)
    <3>1. PICK l \in Levels : l = 80
      BY DEF Levels
    <3>2. LevelSound(At(parse, i + 1, l), l)
      BY <2>2 DEF SoundBehind
    <3>3. QED BY <2>3, <3>1, <3>2
  <2>5. PICK d : d = Node("unary", ts[i], <<p.tree>>)
    OBVIOUS
  <2>6. Sound(d) /\ Binds(d) >= 80
    <3>1. Sound(p.tree) /\ Binds(p.tree) >= 80
      BY <2>4 DEF LevelSound
    <3>2. Binds(p.tree) = 80
      BY <3>1, NodeBinds
    <3>3. PICK k : k = "unary" /\ k \notin {"binary", "conditional"}
      OBVIOUS
    <3>4. Sound(Node(k, ts[i], <<p.tree>>)) /\ Binds(Node(k, ts[i], <<p.tree>>)) = 80
      BY <3>1, <3>2, <3>3, OneSound
    <3>5. QED BY <2>5, <3>3, <3>4
  <2>7. ParsePrefix(ts, parse, i) \in {Parsed(d, p.at), Failed}
    BY <1>1, <2>3, <2>5 DEF ParsePrefix
  <2>8. 80 \in Levels
    BY DEF Levels
  <2>9. QED BY <2>6, <2>7, <2>8, ParsedSound, FailedSound
<1>2. CASE Token(ts, i) \notin PrefixOperators
  <2>1. ParsePrefix(ts, parse, i) = ParseUnit(ts, parse, i)
    BY <1>2 DEF ParsePrefix
  <2>2. QED BY <2>1, UnitSound
<1>3. QED BY <1>1, <1>2

(* A conditional, or what might have been its first part.                  *)
LEMMA ConditionalSound ==
  ASSUME NEW ts \in Seq(Tokens), NEW parse, Parses(ts, parse),
         NEW i \in 1 .. Len(ts) + 1, SoundBehind(ts, parse, i),
         LevelSound(At(parse, i, 20), 20)
  PROVE  LevelSound(ParseConditional(ts, parse, i), 10)
<1>1. PICK c, t, f : /\ c = At(parse, i, 20) /\ t = At(parse, c.at + 1, 10)
                     /\ f = At(parse, t.at + 1, 10)
  OBVIOUS
<1>2. Sound(c.tree) /\ Binds(c.tree) > 10
  <2>1. Sound(c.tree) /\ Binds(c.tree) >= 20
    BY <1>1 DEF LevelSound
  <2>2. QED BY <2>1, NodeBinds
<1>3. PICK l \in Levels : l = 10
  BY DEF Levels
<1>4. CASE Fails(c) \/ Token(ts, c.at) # "?"
  <2>1. ParseConditional(ts, parse, i) = c
    BY <1>1, <1>4 DEF ParseConditional
  <2>2. Binds(c.tree) >= 10
    BY <1>2, NodeBinds
  <2>3. QED BY <1>2, <2>1, <2>2 DEF LevelSound
<1>5. CASE ~Fails(c) /\ Token(ts, c.at) = "?" /\ (Fails(t) \/ Token(ts, t.at) # ":")
  <2>1. ParseConditional(ts, parse, i) = Failed
    BY <1>1, <1>5 DEF ParseConditional
  <2>2. QED BY <1>3, <2>1, FailedSound
<1>6. CASE ~Fails(c) /\ Token(ts, c.at) = "?" /\ ~Fails(t) /\ Token(ts, t.at) = ":"
  <2>1. c.at \in i + 1 .. Len(ts) + 1
    <3>1. PICK m \in Levels : m = 20
      BY DEF Levels
    <3>2. ~Fails(At(parse, i, m)) => At(parse, i, m).at \in i + 1 .. Len(ts) + 1
      BY Passed
    <3>3. QED BY <1>1, <1>6, <3>1, <3>2
  <2>2. PICK j \in 1 .. Len(ts) + 1 : j = c.at + 1 /\ j \in i + 1 .. Len(ts) + 1
    <3>1. c.at \in 1 .. Len(ts) + 1 /\ "?" # "end"
      BY <2>1
    <3>2. c.at + 1 \in 1 .. Len(ts) + 1
      BY <1>6, <3>1, TokenIs
    <3>3. c.at + 1 \in i + 1 .. Len(ts) + 1
      BY <2>1, <3>2
    <3>4. QED BY <3>2, <3>3
  <2>3. t = At(parse, j, l) /\ LevelSound(t, l)
    BY <1>1, <1>3, <2>2 DEF SoundBehind
  <2>4. t.at \in j + 1 .. Len(ts) + 1
    BY <1>6, <2>3, Passed
  <2>5. t.at + 1 \in i + 1 .. Len(ts) + 1
    <3>1. t.at \in 1 .. Len(ts) + 1 /\ ":" # "end"
      BY <2>4
    <3>2. t.at + 1 \in 1 .. Len(ts) + 1
      BY <1>6, <3>1, TokenIs
    <3>3. QED BY <2>2, <2>4, <3>2
  <2>6. LevelSound(f, l)
    BY <1>1, <1>3, <2>5 DEF SoundBehind
  <2>7. PICK d : d = Node("conditional", "", <<c.tree, t.tree, f.tree>>)
    OBVIOUS
  <2>8. Sound(d)
    <3>1. Sound(t.tree) /\ Sound(f.tree)
      BY <2>3, <2>6 DEF LevelSound
    <3>2. QED BY <1>2, <2>7, <3>1, ThreeSound
  <2>9. ParseConditional(ts, parse, i) \in {Parsed(d, f.at), Failed}
    BY <1>1, <1>6, <2>7 DEF ParseConditional
  <2>10. LevelSound(Parsed(d, f.at), 10)
    <3>1. Binds(d) = 10
      BY <2>7 DEF Binds, Node
    <3>2. QED BY <2>8, <3>1, ParsedSound
  <2>11. QED BY <1>3, <2>9, <2>10, FailedSound
<1>7. QED BY <1>4, <1>5, <1>6

(* The arguments of a call.                                                *)
LEMMA ArgumentListSound ==
  ASSUME NEW ts \in Seq(Tokens), NEW parse, Parses(ts, parse),
         NEW i \in 1 .. Len(ts) + 1, SoundBehind(ts, parse, i),
         LevelSound(At(parse, i, 10), 10)
  PROVE  ArgumentsSound(ParseArguments(ts, parse, i))
<1>1. PICK p, more : p = At(parse, i, 10) /\ more = parse[<<"arguments", p.at + 1, 10>>]
  OBVIOUS
<1>2. PICK l \in Levels : l = 10
  BY DEF Levels
<1>3. Sound(p.tree)
  BY <1>1 DEF LevelSound
<1>4. PICK c : c = ","
  OBVIOUS
<1>5. CASE Fails(p) \/ (Token(ts, p.at) = c /\ Fails(more))
  <2>1. ParseArguments(ts, parse, i) = Failed
    BY <1>1, <1>4, <1>5, Zenon DEF ParseArguments
  <2>2. QED BY <2>1, FailedSound DEF ArgumentsSound
<1>6. CASE ~Fails(p) /\ Token(ts, p.at) # c
  <2>1. ParseArguments(ts, parse, i) = Parsed(<<p.tree>>, p.at)
    BY <1>1, <1>4, <1>6, Zenon DEF ParseArguments
  <2>2. PICK s : s = <<p.tree>>
    OBVIOUS
  <2>3. DOMAIN s = {1} /\ s[1] = p.tree
    BY <2>2
  <2>4. Parsed(s, p.at).tree = s
    BY DEF Parsed
  <2>5. QED BY <1>3, <2>1, <2>2, <2>3, <2>4 DEF ArgumentsSound
<1>7. CASE ~Fails(p) /\ Token(ts, p.at) = c /\ ~Fails(more)
  <2>1. p.at \in i + 1 .. Len(ts) + 1
    <3>1. ~Fails(At(parse, i, l)) => At(parse, i, l).at \in i + 1 .. Len(ts) + 1
      BY Passed
    <3>2. QED BY <1>1, <1>2, <1>7, <3>1
  <2>2. PICK j \in 1 .. Len(ts) + 1 : j = p.at + 1 /\ j \in i + 1 .. Len(ts) + 1
    <3>1. p.at \in 1 .. Len(ts) + 1
      BY <2>1
    <3>2. c # "end"
      BY <1>4, Zenon
    <3>3. p.at + 1 \in 1 .. Len(ts) + 1
      BY <1>7, <3>1, <3>2, TokenIs
    <3>4. p.at + 1 \in i + 1 .. Len(ts) + 1
      BY <2>1, <3>3
    <3>5. QED BY <3>3, <3>4
  <2>3. more = parse[<<"arguments", j, l>>] /\ ArgumentsSound(more)
    BY <1>1, <1>2, <2>2 DEF SoundBehind
  <2>4. PICK S : more.tree \in Seq(S)
    BY <1>7, <2>3, Passed
  <2>5. PICK m \in Seq(S) : m = more.tree
    BY <2>4
  <2>6. PICK x, s : x = p.tree /\ s = <<x>> \o m
    OBVIOUS
  <2>7. /\ s \in Seq(S \cup {x}) /\ Len(s) = Len(m) + 1 /\ s[1] = x
        /\ \A k \in 1 .. Len(m) : s[k + 1] = m[k]
    BY <2>6, InFront
  <2>8. ASSUME NEW k \in DOMAIN s PROVE Sound(s[k])
    <3>1. PICK n \in Nat : n = Len(m)
      OBVIOUS
    <3>2. k \in 1 .. n + 1
      BY <2>7, <3>1
    <3>3. CASE k = 1
      BY <1>3, <2>6, <2>7, <3>3
    <3>4. CASE k # 1
      <4>1. PICK h \in 1 .. n : k = h + 1
        <5>1. k - 1 \in 1 .. n /\ k = (k - 1) + 1
          BY <3>2, <3>4
        <5>2. QED BY <5>1
      <4>2. s[k] = m[h] /\ h \in DOMAIN m
        BY <2>7, <3>1, <4>1
      <4>3. QED BY <1>7, <2>3, <2>5, <4>2 DEF ArgumentsSound
    <3>5. QED BY <3>3, <3>4
  <2>9. ParseArguments(ts, parse, i) = Parsed(s, more.at)
    BY <1>1, <1>4, <1>7, <2>5, <2>6, Zenon DEF ParseArguments
  <2>10. Parsed(s, more.at).tree = s
    BY DEF Parsed
  <2>11. QED BY <2>8, <2>9, <2>10 DEF ArgumentsSound
<1>8. QED BY <1>5, <1>6, <1>7

(* The operators of a level that follow.                                   *)
LEMMA RestIsSound ==
  ASSUME NEW ts \in Seq(Tokens), NEW parse, Parses(ts, parse),
         NEW i \in 1 .. Len(ts) + 1, SoundBehind(ts, parse, i), NEW l \in Levels
  PROVE  RestSound(ParseRest(ts, parse, i, l), l)
<1>1. PICK o, r, more : /\ o = Token(ts, i) /\ r = At(parse, i + 1, l + 10)
                        /\ more = parse[<<"rest", r.at, l>>]
  OBVIOUS
<1>2. CASE Level(o) # l
  <2>1. ParseRest(ts, parse, i, l) = Parsed(<<>>, i)
    BY <1>1, <1>2 DEF ParseRest
  <2>2. PICK s : s = <<>>
    OBVIOUS
  <2>3. \A e : Grouped(e, s) = e
    BY <2>2, GroupedNone
  <2>4. Parsed(s, i).tree = s
    BY DEF Parsed
  <2>5. RestSound(Parsed(s, i), l)
    BY <2>3, <2>4 DEF RestSound
  <2>6. QED BY <2>1, <2>2, <2>5
<1>3. CASE Level(o) = l /\ (Fails(r) \/ Fails(more))
  <2>1. ParseRest(ts, parse, i, l) = Failed
    BY <1>1, <1>3 DEF ParseRest
  <2>2. QED BY <2>1, FailedSound DEF RestSound
<1>4. CASE Level(o) = l /\ ~Fails(r) /\ ~Fails(more)
  <2>1. o # "end" /\ l + 10 \in Levels
    BY <1>4, OperatorLevels
  <2>2. PICK j \in 1 .. Len(ts) + 1, m \in Levels :
          j = i + 1 /\ m = l + 10 /\ j \in i + 1 .. Len(ts) + 1
    <3>1. i + 1 \in 1 .. Len(ts) + 1
      BY <1>1, <2>1, TokenIs
    <3>2. i + 1 \in i + 1 .. Len(ts) + 1
      BY <3>1
    <3>3. QED BY <2>1, <3>1, <3>2
  <2>3. r = At(parse, j, m) /\ LevelSound(r, m)
    BY <1>1, <2>2 DEF SoundBehind
  <2>4. Sound(r.tree) /\ Binds(r.tree) > l
    <3>1. Sound(r.tree) /\ Binds(r.tree) >= m
      BY <2>3 DEF LevelSound
    <3>2. l \in Nat /\ m = l + 10
      BY <2>2 DEF Levels
    <3>3. QED BY <3>1, <3>2, NodeBinds
  <2>5. PICK h \in 1 .. Len(ts) + 1 : h = r.at /\ h \in i + 1 .. Len(ts) + 1
    <3>1. r.at \in j + 1 .. Len(ts) + 1
      BY <1>4, <2>3, Passed
    <3>2. r.at \in i + 1 .. Len(ts) + 1 /\ r.at \in 1 .. Len(ts) + 1
      BY <2>2, <3>1
    <3>3. QED BY <3>2
  <2>6. more = parse[<<"rest", h, l>>] /\ RestSound(more, l)
    BY <1>1, <2>5 DEF SoundBehind
  <2>7. PICK S : more.tree \in Seq(S)
    BY <1>4, <2>6, Passed
  <2>8. PICK x : x = [operator |-> o, tree |-> r.tree]
    OBVIOUS
  <2>9. x.operator = o /\ x.tree = r.tree
    BY <2>8
  <2>10. PICK s : s = <<x>> \o more.tree
    OBVIOUS
  <2>11. ParseRest(ts, parse, i, l) = Parsed(s, more.at)
    BY <1>1, <1>4, <2>8, <2>10 DEF ParseRest
  <2>12. ASSUME NEW e, Sound(e), Binds(e) >= l
         PROVE  Sound(Grouped(e, s)) /\ Binds(Grouped(e, s)) >= l
    <3>1. PICK d : d = Node("binary", o, <<e, r.tree>>)
      OBVIOUS
    <3>2. Grouped(e, s) = Grouped(d, more.tree)
      <4>1. Grouped(e, <<x>> \o more.tree) =
              Grouped(Node("binary", x.operator, <<e, x.tree>>), more.tree)
        BY <2>7, GroupedMore
      <4>2. QED BY <2>9, <2>10, <3>1, <4>1
    <3>3. Sound(d) /\ Binds(d) = l
      BY <1>4, <2>4, <2>12, <3>1, TwoSound
    <3>4. Binds(d) >= l
      BY <3>3 DEF Levels
    <3>5. QED BY <1>4, <2>6, <3>2, <3>3, <3>4 DEF RestSound
  <2>13. Parsed(s, more.at).tree = s
    BY DEF Parsed
  <2>14. QED BY <2>11, <2>12, <2>13 DEF RestSound
<1>5. QED BY <1>2, <1>3, <1>4

(* The operators of a level, grouped.                                      *)
LEMMA InfixSound ==
  ASSUME NEW ts \in Seq(Tokens), NEW parse, Parses(ts, parse),
         NEW i \in 1 .. Len(ts) + 1, SoundBehind(ts, parse, i),
         NEW l \in Levels, NEW m \in Levels, m = l + 10, LevelSound(At(parse, i, m), m)
  PROVE  LevelSound(ParseInfix(ts, parse, i, l), l)
<1>1. PICK p, rest : p = At(parse, i, m) /\ rest = parse[<<"rest", p.at, l>>]
  OBVIOUS
<1>2. CASE Fails(p) \/ Fails(rest)
  <2>1. ParseInfix(ts, parse, i, l) = Failed
    BY <1>1, <1>2 DEF ParseInfix
  <2>2. QED BY <2>1, FailedSound
<1>3. CASE ~Fails(p) /\ ~Fails(rest)
  <2>1. p.at \in i + 1 .. Len(ts) + 1
    BY <1>1, <1>3, Passed
  <2>2. RestSound(rest, l)
    BY <1>1, <2>1 DEF SoundBehind
  <2>3. Sound(p.tree) /\ Binds(p.tree) >= l
    <3>1. Sound(p.tree) /\ Binds(p.tree) >= m
      BY <1>1 DEF LevelSound
    <3>2. l \in Nat /\ m = l + 10
      BY DEF Levels
    <3>3. QED BY <3>1, <3>2, NodeBinds
  <2>4. PICK e : e = Grouped(p.tree, rest.tree)
    OBVIOUS
  <2>5. Sound(e) /\ Binds(e) >= l
    BY <1>3, <2>2, <2>3, <2>4 DEF RestSound
  <2>6. ParseInfix(ts, parse, i, l) = Parsed(e, rest.at)
    BY <1>1, <1>3, <2>4 DEF ParseInfix
  <2>7. QED BY <2>5, <2>6, ParsedSound
<1>4. QED BY <1>2, <1>3

(* What the parser says of a goal.                                         *)
GoalSound(g, p) ==
  /\ g[1] = "level" => LevelSound(p, g[3])
  /\ g[1] = "rest" => RestSound(p, g[3])
  /\ g[1] = "arguments" => ArgumentsSound(p)

(* Of a goal, if of those of a lower rank.                                 *)
LEMMA NextSound ==
  ASSUME NEW ts \in Seq(Tokens), NEW parse, Parses(ts, parse), NEW g \in Goals(ts),
         \A d \in Goals(ts) : Rank(ts, d) < Rank(ts, g) => GoalSound(d, parse[d])
  PROVE  GoalSound(g, parse[g])
<1>1. PICK k \in {"level", "rest", "arguments"}, i \in 1 .. Len(ts) + 1, l \in Levels :
        g = <<k, i, l>>
  BY GoalIs
<1>2. PICK N \in Nat : N = Len(ts)
  OBVIOUS
<1>3. Rank(ts, g) \in Nat /\ g[1] = k /\ g[2] = i /\ g[3] = l
  BY <1>1, GoalIs
<1>4. l \in {10, 20, 30, 40, 50, 60, 70, 80} /\ i \in 1 .. N + 1
  BY <1>2 DEF Levels
<1>5. PICK n \in Nat : n = Rank(ts, g) /\ n >= 100 * ((N + 1) - i)
  BY <1>2, <1>3, GoalIs
<1>6. ASSUME NEW j \in i + 1 .. N + 1, NEW m \in Levels
      PROVE  /\ LevelSound(At(parse, j, m), m) /\ RestSound(parse[<<"rest", j, m>>], m)
             /\ ArgumentsSound(parse[<<"arguments", j, m>>])
  <2>1. j \in 1 .. Len(ts) + 1
    BY <1>2
  <2>2. PICK a, b, c : /\ a = <<"level", j, m>> /\ b = <<"rest", j, m>>
                       /\ c = <<"arguments", j, m>>
    OBVIOUS
  <2>3. /\ a \in Goals(ts) /\ b \in Goals(ts) /\ c \in Goals(ts)
        /\ Rank(ts, a) = 100 * ((N + 1) - j) + (80 - m)
        /\ Rank(ts, b) = 100 * ((N + 1) - j) /\ Rank(ts, c) = 100 * ((N + 1) - j) + 80
    BY <1>2, <2>1, <2>2, RankIs
  <2>4. m \in {10, 20, 30, 40, 50, 60, 70, 80} /\ n >= 100 * ((N + 1) - i)
    BY <1>5 DEF Levels
  <2>5. Rank(ts, a) < n /\ Rank(ts, b) < n /\ Rank(ts, c) < n
    BY <2>3, <2>4
  <2>6. GoalSound(a, parse[a]) /\ GoalSound(b, parse[b]) /\ GoalSound(c, parse[c])
    BY <1>5, <2>3, <2>5
  <2>7. /\ a[1] = "level" /\ b[1] = "rest" /\ c[1] = "arguments"
        /\ a[3] = m /\ b[3] = m
    BY <2>2
  <2>8. LevelSound(parse[a], m) /\ RestSound(parse[b], m) /\ ArgumentsSound(parse[c])
    BY <2>6, <2>7 DEF GoalSound
  <2>9. QED BY <2>2, <2>8 DEF At
<1>7. SoundBehind(ts, parse, i)
  BY <1>2, <1>6 DEF SoundBehind
<1>8. ASSUME NEW m \in Levels, 100 * ((N + 1) - i) + (80 - m) < n
      PROVE  LevelSound(At(parse, i, m), m)
  <2>1. PICK d : d = <<"level", i, m>>
    OBVIOUS
  <2>2. d \in Goals(ts) /\ Rank(ts, d) < Rank(ts, g)
    BY <1>2, <1>5, <1>8, <2>1, RankIs
  <2>3. GoalSound(d, parse[d]) /\ d[1] = "level" /\ d[3] = m
    BY <2>1, <2>2
  <2>4. QED BY <2>1, <2>3 DEF GoalSound, At
<1>9. /\ At(parse, i, l) = ParseLevel(ts, parse, i, l)
      /\ parse[<<"rest", i, l>>] = ParseRest(ts, parse, i, l)
      /\ parse[<<"arguments", i, l>>] = ParseArguments(ts, parse, i)
  BY GoalsAre
<1>10. CASE k = "rest"
  <2>1. RestSound(parse[<<"rest", i, l>>], l)
    BY <1>7, <1>9, RestIsSound
  <2>2. g = <<"rest", i, l>> /\ g[1] = "rest" /\ g[3] = l
    BY <1>1, <1>10
  <2>3. QED BY <2>1, <2>2 DEF GoalSound
<1>11. CASE k = "arguments"
  <2>1. n = 100 * ((N + 1) - i) + 80
    BY <1>1, <1>2, <1>5, <1>11, RankIs
  <2>2. 10 \in Levels /\ 100 * ((N + 1) - i) + (80 - 10) < n
    BY <1>4, <2>1 DEF Levels
  <2>3. LevelSound(At(parse, i, 10), 10)
    BY <1>8, <2>2
  <2>4. ArgumentsSound(parse[<<"arguments", i, l>>])
    BY <1>7, <1>9, <2>3, ArgumentListSound
  <2>5. g = <<"arguments", i, l>> /\ g[1] = "arguments"
    BY <1>1, <1>11
  <2>6. QED BY <2>4, <2>5 DEF GoalSound
<1>12. CASE k = "level"
  <2>1. n = 100 * ((N + 1) - i) + (80 - l)
    BY <1>1, <1>2, <1>5, <1>12, RankIs
  <2>2. LevelSound(ParseLevel(ts, parse, i, l), l)
    <3>1. CASE l = 10
      <4>1. 20 \in Levels /\ 100 * ((N + 1) - i) + (80 - 20) < n
        BY <1>4, <2>1, <3>1 DEF Levels
      <4>2. LevelSound(At(parse, i, 20), 20)
        BY <1>8, <4>1
      <4>3. LevelSound(ParseConditional(ts, parse, i), 10)
        BY <1>7, <4>2, ConditionalSound
      <4>4. QED BY <3>1, <4>3 DEF ParseLevel
    <3>2. CASE l = 80
      <4>1. LevelSound(ParsePrefix(ts, parse, i), 80)
        BY <1>7, PrefixSound
      <4>2. QED BY <3>2, <4>1 DEF ParseLevel
    <3>3. CASE l # 10 /\ l # 80
      <4>1. PICK m \in Levels : m = l + 10
        BY <1>4, <3>3 DEF Levels
      <4>2. 100 * ((N + 1) - i) + (80 - m) < n
        BY <1>4, <2>1, <4>1
      <4>3. LevelSound(At(parse, i, m), m)
        BY <1>8, <4>2
      <4>4. LevelSound(ParseInfix(ts, parse, i, l), l)
        BY <1>7, <4>1, <4>3, InfixSound
      <4>5. QED BY <3>3, <4>4 DEF ParseLevel
    <3>4. QED BY <3>1, <3>2, <3>3
  <2>3. g = <<"level", i, l>> /\ g[1] = "level" /\ g[3] = l
    BY <1>1, <1>12
  <2>4. LevelSound(parse[g], l)
    BY <1>9, <2>2, <2>3 DEF At
  <2>5. g[1] # "rest" /\ g[1] # "arguments"
    BY <2>3
  <2>6. QED BY <2>3, <2>4, <2>5 DEF GoalSound
<1>13. QED BY <1>10, <1>11, <1>12

(* The tree of a text fits.                                                *)
LEMMA ParseSound ==
  ASSUME NEW ts \in Seq(Tokens)
  PROVE  Sound(Parse(ts))
<1>1. PICK parse : /\ Parses(ts, parse)
                   /\ LET p == At(parse, 1, 10)
                      IN Parse(ts) = IF p.at = Len(ts) + 1 THEN p.tree ELSE NoTree
  BY ParseIs
<1> DEFINE Below(n) == \A g \in Goals(ts) : Rank(ts, g) < n => GoalSound(g, parse[g])
           K == {n \in Nat : Below(n)}
<1>2. \A g \in Goals(ts) : Rank(ts, g) \in Nat /\ Rank(ts, g) < 100 * (Len(ts) + 1)
  BY GoalIs
<1>3. 0 \in K
  BY <1>2
<1>4. ASSUME NEW n \in Nat, n \in K PROVE n + 1 \in K
  <2>1. ASSUME NEW g \in Goals(ts), Rank(ts, g) < n + 1 PROVE GoalSound(g, parse[g])
    <3>1. \A d \in Goals(ts) : Rank(ts, d) < Rank(ts, g) => GoalSound(d, parse[d])
      <4>1. ASSUME NEW d \in Goals(ts), Rank(ts, d) < Rank(ts, g)
            PROVE  GoalSound(d, parse[d])
        <5>1. Rank(ts, d) < n
          BY <1>2, <2>1, <4>1
        <5>2. QED BY <1>4, <5>1
      <4>2. QED BY <4>1
    <3>2. QED BY <1>1, <3>1, NextSound
  <2>2. QED BY <2>1
<1>5. PICK M \in Nat : M = 100 * (Len(ts) + 1)
  OBVIOUS
<1>6. M \in K
  <2> HIDE DEF K
  <2>1. QED BY <1>3, <1>4, <1>5, Every
<1>7. LevelSound(At(parse, 1, 10), 10)
  <2>1. PICK g : g = <<"level", 1, 10>>
    OBVIOUS
  <2>2. 1 \in 1 .. Len(ts) + 1 /\ 10 \in Levels
    BY DEF Levels
  <2>3. g \in Goals(ts)
    BY <2>1, <2>2, RankIs
  <2>4. GoalSound(g, parse[g])
    BY <1>2, <1>5, <1>6, <2>3
  <2>5. g[1] = "level" /\ g[3] = 10
    BY <2>1
  <2>6. QED BY <2>1, <2>4, <2>5 DEF GoalSound, At
<1>8. Sound(NoTree)
  <2>1. LevelSound(Failed, 10) /\ Failed.tree = NoTree
    BY FailedSound DEF Failed, Parsed, Levels
  <2>2. QED BY <2>1 DEF LevelSound
<1>9. QED BY <1>1, <1>7, <1>8 DEF LevelSound

-----------------------------------------------------------------------------
(* Where a part may be a conditional although no parentheses stand around  *)
(* it.                                                                     *)
Admits(kind, i) ==
  kind \in {"parentheses", "function"} \/ (kind = "conditional" /\ i # 1)

Guards(d) ==
  \A i \in DOMAIN d.args : d.args[i].kind = "conditional" => Admits(d.kind, i)

Guarded(e) == \A d \in Nodes[e] : Guards(d)

(* A tree is guarded if its parts are, and if it guards them.              *)
LEMMA GuardedIs ==
  ASSUME NEW e \in Trees
  PROVE  Guarded(e) <=> Guards(e) /\ \A i \in DOMAIN e.args : Guarded(e.args[i])
BY NodesAre DEF Guarded

(* The nodes of a tree are trees.                                          *)
LEMMA NodesAreTrees ==
  \A e \in Trees : \A d \in Nodes[e] : d \in Trees
<1> DEFINE S == {e \in Trees : \A d \in Nodes[e] : d \in Trees}
<1>1. \A e \in Trees : (\A i \in DOMAIN e.args : e.args[i] \in S) => e \in S
  BY NodesAre
<1>2. Trees \subseteq S
  <2> HIDE DEF S
  <2>1. QED BY <1>1, TreeInduction
<1>3. QED BY <1>2

(* A tree that fits is guarded.                                            *)
LEMMA FittingGuarded ==
  ASSUME NEW e \in Trees, Fitting(e)
  PROVE  Guarded(e)
<1>1. ASSUME NEW d \in Nodes[e], NEW i \in DOMAIN d.args, d.args[i].kind = "conditional"
      PROVE  Admits(d.kind, i)
  <2>1. d \in Trees /\ Fits(d)
    BY NodesAreTrees DEF Fitting
  <2>2. Binds(d.args[i]) = 10
    BY <1>1 DEF Binds
  <2>3. CASE d.kind = "unary"
    <3>1. i = 1
      BY <2>1, <2>3, KindIs
    <3>2. QED BY <2>1, <2>2, <2>3, <3>1 DEF Fits
  <2>4. CASE d.kind = "binary"
    <3>1. i = 1 \/ i = 2
      BY <2>1, <2>4, KindIs
    <3>2. Level(d.text) \in {20, 30, 40, 50, 60, 70}
      BY <2>1, <2>4, KindIs, LevelsAre
    <3>3. 10 >= Level(d.text)
      BY <2>1, <2>2, <2>4, <3>1, <3>2 DEF Fits
    <3>4. QED BY <3>2, <3>3
  <2>5. CASE d.kind = "conditional"
    <3>1. i # 1
      BY <2>1, <2>2, <2>5 DEF Fits
    <3>2. QED BY <2>5, <3>1 DEF Admits
  <2>6. CASE d.kind \in {"parentheses", "function"}
    BY <2>6 DEF Admits
  <2>7. CASE d.kind \in {"literal", "variable"}
    <3>1. Len(d.args) = 0
      <4>1. Counts["literal"] = {0} /\ Counts["variable"] = {0}
        BY DEF Counts
      <4>2. QED BY <2>1, <2>7, <4>1, TreesAre
    <3>2. DOMAIN d.args = 1 .. 0
      BY <2>1, <3>1, TreesAre
    <3>3. QED BY <3>2
  <2>8. QED BY <2>1, <2>3, <2>4, <2>5, <2>6, <2>7, KindIs
<1>2. QED BY <1>1 DEF Guarded, Guards

-----------------------------------------------------------------------------
(* A tree without conditionals, as the ExpressionExtractor leaves it.      *)
Free(e) == \A d \in Nodes[e] : d.kind # "conditional"

(* Its parts have none.                                                    *)
LEMMA FreeIs ==
  ASSUME NEW e \in Trees
  PROVE  Free(e) <=> e.kind # "conditional" /\ \A i \in DOMAIN e.args : Free(e.args[i])
BY NodesAre DEF Free

(* There is nothing to guard then.                                         *)
LEMMA FreeGuarded ==
  ASSUME NEW e \in Trees, Free(e)
  PROVE  Guarded(e)
<1> DEFINE S == {d \in Trees : Free(d) => Guarded(d)}
<1>1. ASSUME NEW d \in Trees, \A i \in DOMAIN d.args : d.args[i] \in S, Free(d)
      PROVE  Guarded(d)
  <2>1. \A i \in DOMAIN d.args : d.args[i] \in Trees /\ Free(d.args[i]) /\ Guarded(d.args[i])
    BY <1>1, FreeIs
  <2>2. \A i \in DOMAIN d.args : d.args[i].kind # "conditional"
    BY <2>1, FreeIs
  <2>3. QED BY <2>1, <2>2, GuardedIs DEF Guards
<1>2. \A d \in Trees : (\A i \in DOMAIN d.args : d.args[i] \in S) => d \in S
  BY <1>1
<1>3. Trees \subseteq S
  <2> HIDE DEF S
  <2>1. QED BY <1>2, TreeInduction
<1>4. QED BY <1>3

(* What is extracted has no conditionals.                                  *)
LEMMA ExtractFrees ==
  \A e \in Trees : Extractable[e] => Free(Extract[e])
<1> DEFINE S == {e \in Trees : Extractable[e] => Free(Extract[e])}
<1>1. ASSUME NEW e \in Trees, \A i \in DOMAIN e.args : e.args[i] \in S, Extractable[e]
      PROVE  Free(Extract[e])
  <2>1. PICK es, ok : es = OfParts(Extract, e) /\ ok = OfParts(Extractable, e)
    OBVIOUS
  <2>2. /\ DOMAIN es = DOMAIN e.args
        /\ \A i \in DOMAIN e.args : es[i] = Extract[e.args[i]] /\ ok[i] = Extractable[e.args[i]]
    BY <2>1 DEF OfParts
  <2>3. Extract[e] = ExtractOf(e, es) /\ ExtractableOf(e, ok) /\ Extract[e] \in Trees
    BY <1>1, <2>1, ExtractIs, ExtractableIs, ExtractKeeps
  <2>4. \A i \in DOMAIN e.args : ok[i] => Free(es[i])
    BY <1>1, <2>2
  <2>5. CASE e.kind = "conditional"
    <3>1. Chosen(e) \in DOMAIN e.args
      BY <2>5, KindIs DEF Chosen
    <3>2. ok[Chosen(e)] /\ Extract[e] = es[Chosen(e)]
      BY <2>3, <2>5 DEF ExtractableOf, ExtractOf
    <3>3. QED BY <2>4, <3>1, <3>2
  <2>6. CASE e.kind # "conditional"
    <3>1. /\ e.kind = "function" => e.text # "sum"
          /\ \A i \in DOMAIN e.args : Free(es[i])
      BY <2>3, <2>4, <2>6 DEF ExtractableOf
    <3>2. CASE e.kind = "parentheses"
      <4>1. 1 \in DOMAIN e.args
        BY <3>2, KindIs
      <4>2. Extract[e] = es[1]
        BY <2>3, <3>2 DEF ExtractOf
      <4>3. QED BY <3>1, <4>1, <4>2
    <3>3. CASE e.kind = "function"
      <4>1. PICK vs : vs = [i \in DOMAIN e.args |-> Value[es[i]]]
        OBVIOUS
      <4>2. PICK p : p = Picked(e.text, vs)
        OBVIOUS
      <4>3. Extract[e] = IF p = 0 THEN Node("literal", "NaN", <<>>) ELSE es[p]
        BY <2>3, <3>3, <4>1, <4>2 DEF ExtractOf
      <4>4. p \in 0 .. Len(e.args)
        <5>1. PICK n \in Nat : n = Len(e.args) /\ DOMAIN e.args = 1 .. n
          BY TreesAre
        <5>2. Len(vs) = n
          BY <4>1, <5>1
        <5>3. e.text \in Functions \ {"sum"}
          BY <3>1, <3>3, KindIs
        <5>4. Picked(e.text, vs) \in 0 .. Len(vs)
          BY <5>2, <5>3, Picks
        <5>5. QED BY <4>2, <5>1, <5>2, <5>4
      <4>5. CASE p = 0
        <5>1. PICK l : l = Extract[e] /\ l = Node("literal", "NaN", <<>>)
          BY <4>3, <4>5
        <5>2. l \in Trees /\ l.kind = "literal" /\ DOMAIN l.args = {}
          BY <2>3, <5>1 DEF Node
        <5>3. Free(l)
          BY <5>2, FreeIs
        <5>4. QED BY <5>1, <5>3
      <4>6. CASE p # 0
        <5>1. p \in DOMAIN e.args
          BY <4>4, <4>6, TreesAre
        <5>2. QED BY <3>1, <4>3, <4>6, <5>1
      <4>7. QED BY <4>5, <4>6
    <3>4. CASE e.kind \notin {"parentheses", "function"}
      <4>1. PICK d : d = Extract[e] /\ d = [e EXCEPT !.args = es]
        BY <2>3, <2>6, <3>4 DEF ExtractOf
      <4>2. d = Node(e.kind, e.text, es)
        BY <4>1, TreesAre, OtherParts
      <4>3. d.kind = e.kind /\ d.args = es /\ d \in Trees
        BY <2>3, <4>1, <4>2 DEF Node
      <4>4. Free(d)
        BY <2>2, <2>6, <3>1, <4>3, FreeIs
      <4>5. QED BY <4>1, <4>4
    <3>5. QED BY <3>2, <3>3, <3>4
  <2>7. QED BY <2>5, <2>6
<1>2. \A e \in Trees : (\A i \in DOMAIN e.args : e.args[i] \in S) => e \in S
  BY <1>1
<1>3. Trees \subseteq S
  <2> HIDE DEF S
  <2>1. QED BY <1>2, TreeInduction
<1>4. QED BY <1>3

(* A binary node whose parts bind as it needs them to, as the              *)
(* ParenthesesAdder sees it.                                               *)
Orders(d) ==
  d.kind = "binary" => /\ Priority(d.args[1]) >= Level(d.text)
                       /\ Priority(d.args[2]) > Level(d.text)

Ordered(e) == \A d \in Nodes[e] : Orders(d)

(* A tree is ordered if its parts are.                                     *)
LEMMA OrderedIs ==
  ASSUME NEW e \in Trees
  PROVE  Ordered(e) <=> Orders(e) /\ \A i \in DOMAIN e.args : Ordered(e.args[i])
BY NodesAre DEF Ordered

(* Parentheses take nothing from that.                                     *)
LEMMA ParenthesesOrdered ==
  ASSUME NEW x, NEW y \in Trees, y = x \/ y = Parenthesized(x)
  PROVE  /\ x \in Trees
         /\ Guarded(x) /\ Ordered(x) => Guarded(y) /\ Ordered(y)
<1>1. CASE y = x
  BY <1>1
<1>2. CASE y = Parenthesized(x)
  <2>1. y.kind = "parentheses" /\ y.args = <<x>>
    BY <1>2 DEF Parenthesized, Node
  <2>2. DOMAIN y.args = {1} /\ y.args[1] = x
    BY <2>1
  <2>3. x \in Trees
    BY <2>2, TreesAre
  <2>4. Guards(y) /\ Orders(y)
    BY <2>1 DEF Guards, Admits, Orders
  <2>5. QED BY <2>2, <2>3, <2>4, GuardedIs, OrderedIs
<1>3. QED BY <1>1, <1>2

(* With parentheses added a guarded tree is guarded and ordered.           *)
LEMMA AddOrders ==
  \A e \in Trees : Guarded(e) /\ AddParentheses[e] \in Trees =>
    Guarded(AddParentheses[e]) /\ Ordered(AddParentheses[e])
<1> DEFINE S == {e \in Trees : Guarded(e) /\ AddParentheses[e] \in Trees =>
                   Guarded(AddParentheses[e]) /\ Ordered(AddParentheses[e])}
<1>1. ASSUME NEW e \in Trees
      PROVE  /\ AddParentheses[e].kind = e.kind /\ AddParentheses[e].text = e.text
             /\ AddParentheses[e].args =
                  IF e.kind # "binary" THEN OfParts(AddParentheses, e)
                  ELSE <<IF CompareLeft(e) THEN Parenthesized(OfParts(AddParentheses, e)[1])
                         ELSE OfParts(AddParentheses, e)[1],
                         IF CompareRight(e) THEN Parenthesized(OfParts(AddParentheses, e)[2])
                         ELSE OfParts(AddParentheses, e)[2]>>
  <2>1. PICK es : es = OfParts(AddParentheses, e)
    OBVIOUS
  <2>2. PICK as : as = IF e.kind # "binary" THEN es
                       ELSE <<IF CompareLeft(e) THEN Parenthesized(es[1]) ELSE es[1],
                              IF CompareRight(e) THEN Parenthesized(es[2]) ELSE es[2]>>
    OBVIOUS
  <2>3. AddParentheses[e] = AddOf(e, es)
    BY <2>1, AddParenthesesIs
  <2>4. AddParentheses[e] = [e EXCEPT !.args = as]
    BY <2>2, <2>3 DEF AddOf
  <2>5. AddParentheses[e] = Node(e.kind, e.text, as)
    BY <2>4, TreesAre, OtherParts
  <2>6. /\ AddParentheses[e].kind = e.kind /\ AddParentheses[e].text = e.text
        /\ AddParentheses[e].args = as
    BY <2>5 DEF Node
  <2>7. QED BY <2>1, <2>2, <2>6
<1>2. ASSUME NEW e \in Trees, \A i \in DOMAIN e.args : e.args[i] \in S,
             Guarded(e), AddParentheses[e] \in Trees
      PROVE  Guarded(AddParentheses[e]) /\ Ordered(AddParentheses[e])
  <2>1. PICK es, d, as : es = OfParts(AddParentheses, e) /\ d = AddParentheses[e]
                         /\ as = d.args
    OBVIOUS
  <2>2. /\ DOMAIN es = DOMAIN e.args
        /\ \A i \in DOMAIN e.args : es[i] = AddParentheses[e.args[i]]
    BY <2>1 DEF OfParts
  <2>3. /\ d.kind = e.kind /\ d.text = e.text /\ d \in Trees
        /\ as = IF e.kind # "binary" THEN es
                ELSE <<IF CompareLeft(e) THEN Parenthesized(es[1]) ELSE es[1],
                       IF CompareRight(e) THEN Parenthesized(es[2]) ELSE es[2]>>
    BY <1>1, <1>2, <2>1
  <2>4. Guards(e) /\ \A i \in DOMAIN e.args : e.args[i] \in Trees /\ Guarded(e.args[i])
    BY <1>2, GuardedIs
  <2>5. e.kind = "binary" =>
          /\ DOMAIN e.args = {1, 2}
          /\ as[1] = IF CompareLeft(e) THEN Parenthesized(es[1]) ELSE es[1]
          /\ as[2] = IF CompareRight(e) THEN Parenthesized(es[2]) ELSE es[2]
          /\ DOMAIN as = {1, 2}
    <3>1. PICK x, y : /\ x = IF CompareLeft(e) THEN Parenthesized(es[1]) ELSE es[1]
                      /\ y = IF CompareRight(e) THEN Parenthesized(es[2]) ELSE es[2]
      OBVIOUS
    <3>2. e.kind = "binary" => as = <<x, y>>
      BY <2>3, <3>1
    <3>3. e.kind = "binary" => as[1] = x /\ as[2] = y /\ DOMAIN as = {1, 2}
      <4>1. PICK s : s = <<x, y>>
        OBVIOUS
      <4>2. s[1] = x /\ s[2] = y /\ DOMAIN s = {1, 2}
        BY <4>1
      <4>3. QED BY <3>2, <4>1, <4>2, Zenon
    <3>4. QED BY <3>1, <3>3, KindIs
  <2>6. DOMAIN as = DOMAIN e.args
        /\ \A i \in DOMAIN e.args : as[i] = es[i] \/ as[i] = Parenthesized(es[i])
    BY <2>2, <2>3, <2>5
  <2>7. ASSUME NEW i \in DOMAIN e.args
        PROVE  Guarded(as[i]) /\ Ordered(as[i])
    <3>1. as[i] \in Trees
      BY <2>1, <2>3, <2>6, TreesAre
    <3>2. es[i] \in Trees /\ (Guarded(es[i]) /\ Ordered(es[i]) => Guarded(as[i]) /\ Ordered(as[i]))
      BY <2>6, <3>1, ParenthesesOrdered
    <3>3. Guarded(es[i]) /\ Ordered(es[i])
      BY <1>2, <2>2, <2>4, <3>2
    <3>4. QED BY <3>2, <3>3
  <2>8. ASSUME NEW i \in DOMAIN e.args
        PROVE  /\ es[i].kind = e.args[i].kind /\ es[i].text = e.args[i].text
               /\ Priority(es[i]) = Priority(e.args[i])
               /\ Parenthesized(es[i]).kind = "parentheses" /\ Priority(Parenthesized(es[i])) = 80
    <3>1. es[i].kind = e.args[i].kind /\ es[i].text = e.args[i].text
      BY <1>1, <2>2, <2>4
    <3>2. Parenthesized(es[i]).kind = "parentheses"
      BY DEF Parenthesized, Node
    <3>3. QED BY <3>1, <3>2 DEF Priority
  <2>9. Guards(d)
    <3>1. ASSUME NEW i \in DOMAIN e.args, as[i].kind = "conditional"
          PROVE  Admits(e.kind, i)
      <4>1. e.args[i].kind = "conditional"
        BY <2>6, <2>8, <3>1
      <4>2. QED BY <2>4, <4>1 DEF Guards
    <3>2. QED BY <2>1, <2>3, <2>6, <3>1 DEF Guards
  <2>10. Orders(d)
    <3>1. SUFFICES ASSUME e.kind = "binary"
                   PROVE  Priority(as[1]) >= Level(e.text) /\ Priority(as[2]) > Level(e.text)
      BY <2>1, <2>3 DEF Orders
    <3>2. 1 \in DOMAIN e.args /\ 2 \in DOMAIN e.args
      BY <2>5, <3>1
    <3>3. PICK l, x, y : l = Level(e.text) /\ x = Priority(e.args[1]) /\ y = Priority(e.args[2])
      OBVIOUS
    <3>4. l \in 0 .. 70 /\ x \in Nat /\ y \in Nat
      <4>1. \A o : Level(o) \in 0 .. 70
        <5>1. \A o : Level(o) \in {0, 20, 30, 40, 50, 60, 70}
          BY OperatorLevels
        <5>2. QED BY <5>1
      <4>2. QED BY <3>3, <4>1 DEF Priority
    <3>5. Priority(e) = l
      BY <3>1, <3>3 DEF Priority
    <3>6. Priority(as[1]) >= l
      <4>1. CASE CompareLeft(e)
        <5>1. Priority(as[1]) = 80
          BY <2>5, <2>8, <3>1, <3>2, <4>1
        <5>2. QED BY <3>4, <5>1
      <4>2. CASE ~CompareLeft(e)
        <5>1. Priority(as[1]) = x /\ ~(l > x)
          BY <2>5, <2>8, <3>1, <3>2, <3>3, <3>5, <4>2 DEF CompareLeft
        <5>2. QED BY <3>4, <5>1
      <4>3. QED BY <4>1, <4>2
    <3>7. Priority(as[2]) > l
      <4>1. CASE CompareRight(e)
        <5>1. Priority(as[2]) = 80
          BY <2>5, <2>8, <3>1, <3>2, <4>1
        <5>2. QED BY <3>4, <5>1
      <4>2. CASE ~CompareRight(e)
        <5>1. Priority(as[2]) = y /\ ~(l >= y)
          BY <2>5, <2>8, <3>1, <3>2, <3>3, <3>5, <4>2 DEF CompareRight
        <5>2. QED BY <3>4, <5>1
      <4>3. QED BY <4>1, <4>2
    <3>8. QED BY <3>3, <3>6, <3>7
  <2>11. \A i \in DOMAIN d.args : Guarded(d.args[i]) /\ Ordered(d.args[i])
    BY <2>1, <2>6, <2>7
  <2>12. Guarded(d) /\ Ordered(d)
    BY <2>3, <2>9, <2>10, <2>11, GuardedIs, OrderedIs
  <2>13. QED BY <2>1, <2>12
<1>3. \A e \in Trees : (\A i \in DOMAIN e.args : e.args[i] \in S) => e \in S
  BY <1>2
<1>4. Trees \subseteq S
  <2> HIDE DEF S
  <2>1. QED BY <1>3, TreeInduction
<1>5. QED BY <1>4

-----------------------------------------------------------------------------
(* What is guarded and ordered, and exposes no operator, fits.             *)
LEMMA OrderedFits ==
  ASSUME NEW e \in Trees, Guarded(e), Ordered(e), ~Exposed(e)
  PROVE  Fitting(e)
<1>1. ASSUME NEW d \in Nodes[e] PROVE Fits(d)
  <2>1. d \in Trees /\ Guards(d) /\ Orders(d)
    BY NodesAreTrees DEF Guarded, Ordered
  <2>2. d.kind = "unary" => d.args[1].kind # "binary"
    BY DEF Exposed
  <2>3. \A i \in DOMAIN d.args : d.args[i].kind = "conditional" => Admits(d.kind, i)
    BY <2>1 DEF Guards
  <2>4. /\ d.kind \in {"unary", "binary", "conditional"} => d.args[1].kind # "conditional"
        /\ d.kind = "binary" => d.args[2].kind # "conditional"
    BY <2>1, <2>3, KindIs DEF Admits
  <2>5. CASE d.kind = "unary"
    <3>1. Binds(d.args[1]) = 80
      BY <2>2, <2>4, <2>5 DEF Binds
    <3>2. QED BY <2>5, <3>1 DEF Fits
  <2>6. CASE d.kind = "binary"
    <3>1. Binds(d.args[1]) = Priority(d.args[1]) /\ Binds(d.args[2]) = Priority(d.args[2])
      BY <2>4, <2>6 DEF Binds, Priority
    <3>2. Priority(d.args[1]) >= Level(d.text) /\ Priority(d.args[2]) > Level(d.text)
      BY <2>1, <2>6 DEF Orders
    <3>3. QED BY <2>6, <3>1, <3>2 DEF Fits
  <2>7. CASE d.kind = "conditional"
    <3>1. d.args[1] \in Trees
      BY <2>1, <2>7, KindIs, TreesAre
    <3>2. PICK b \in Levels : b = Binds(d.args[1]) /\ 20 <= b
      BY <2>4, <2>7, <3>1, BindsAtLeast
    <3>3. b > 10
      BY <3>2 DEF Levels
    <3>4. QED BY <2>7, <3>2, <3>3 DEF Fits
  <2>8. CASE d.kind \notin {"unary", "binary", "conditional"}
    BY <2>8 DEF Fits
  <2>9. QED BY <2>5, <2>6, <2>7, <2>8
<1>2. QED BY <1>1 DEF Fitting

(* From the parser on the tree is guarded, and with parentheses added      *)
(* ordered.                                                                *)
GuardedAlways ==
  /\ stage \in {"parsed", "extracted", "added"} => Guarded(tree)
  /\ stage = "added" => Ordered(tree)

(* With the parentheses that the ParenthesesAdder puts around operands, a  *)
(* tree is written as a text that the ExpressionParser makes the same tree *)
(* of, whatever was parsed and extracted before: no pair is missing.       *)
THEOREM ParenthesesSufficeCorrect == Spec => []ParenthesesSuffice
<1>1. Init => GuardedAlways
  BY DEF Init, GuardedAlways
<1>2. GuardedAlways /\ Treed /\ Treed' /\ Represented /\ [Next]_vars => GuardedAlways'
  <2> SUFFICES ASSUME GuardedAlways, Treed, Treed', Represented, [Next]_vars
               PROVE  GuardedAlways'
    OBVIOUS
  <2>1. ASSUME NEW ts \in Longer(source), Write(ts) PROVE GuardedAlways'
    BY <2>1 DEF Write, GuardedAlways
  <2>2. CASE ParseText
    <3>1. stage' = "parsed" /\ tree' = Parse(source) /\ tree' \in Trees
      BY <2>2 DEF ParseText
    <3>2. Guarded(tree')
      BY <3>1, ParseSound, FittingGuarded DEF Represented, Sound
    <3>3. (Guarded(tree))'
      BY <3>2 DEF Guarded, Guards, Admits
    <3>4. QED BY <3>1, <3>3 DEF GuardedAlways
  <2>3. CASE ExtractTree
    <3>1. /\ stage' = "extracted" /\ tree' = Extract[tree] /\ Extractable[tree]
          /\ tree \in Trees
      BY <2>3 DEF ExtractTree, Treed
    <3>2. Guarded(tree')
      BY <3>1, ExtractKeeps, ExtractFrees, FreeGuarded
    <3>3. (Guarded(tree))'
      BY <3>2 DEF Guarded, Guards, Admits
    <3>4. QED BY <3>1, <3>3 DEF GuardedAlways
  <2>4. CASE ExtractThrows
    BY <2>4 DEF ExtractThrows, GuardedAlways
  <2>5. CASE AddToTree
    <3>1. /\ stage' = "added" /\ tree' = AddParentheses[tree] /\ tree' \in Trees
          /\ tree \in Trees /\ Guarded(tree)
      BY <2>5 DEF AddToTree, Treed, GuardedAlways
    <3>2. Guarded(tree') /\ Ordered(tree')
      BY <3>1, AddOrders
    <3>3. (Guarded(tree))' /\ (Ordered(tree))'
      BY <3>2 DEF Guarded, Guards, Admits, Ordered, Orders
    <3>4. QED BY <3>1, <3>3 DEF GuardedAlways
  <2>6. CASE UNCHANGED vars
    BY <2>6 DEF vars, GuardedAlways, Guarded, Guards, Admits, Ordered, Orders
  <2>7. QED BY <2>1, <2>2, <2>3, <2>4, <2>5, <2>6 DEF Next
<1>3. GuardedAlways /\ Treed => ParenthesesSuffice
  <2> SUFFICES ASSUME GuardedAlways, Treed, stage = "added", Plain(tree), ~Exposed(tree)
               PROVE  Restorable(tree)
    BY DEF ParenthesesSuffice
  <2>1. tree \in Trees /\ Guarded(tree) /\ Ordered(tree)
    BY DEF GuardedAlways, Treed
  <2>2. Fitting(tree)
    BY <2>1, OrderedFits
  <2>3. QED BY <2>1, <2>2, FittingRestored
<1>4. QED BY <1>1, <1>2, <1>3, TreedCorrect, RepresentedCorrect, PTL DEF Spec

(* An infinity or NaN swallows a number, and zero changes nothing.         *)
LEMMA AddInfinite ==
  ASSUME NEW x \in Doubles, NEW y \in Doubles, x[2] = 0, y[2] # 0
  PROVE  Add(x, y) = x /\ Add(y, x) = x
<1>1. PICK a, b, d : a = x[1] /\ b = y[1] /\ d = y[2]
  OBVIOUS
<1>2. x = <<a, 0>> /\ y = <<b, d>> /\ a \in {-1, 0, 1} /\ b \in Int /\ d \in Nat /\ d > 0
  BY <1>1, DoubleIs
<1>3. a * d + b * 0 = a * d /\ b * 0 + a * d = a * d /\ 0 * d = 0 /\ d * 0 = 0
  BY <1>2
<1>4. a * d \in Int
  BY <1>2
<1>5. (a = 1 => a * d > 0) /\ (a = -1 => a * d < 0) /\ (a = 0 => a * d = 0)
  BY <1>2
<1>6. Quotient(a * d, 0) = <<a, 0>>
  BY <1>2, <1>4, <1>5 DEF Quotient
<1>7. Add(x, y) = Quotient(a * d + b * 0, 0 * d) /\ Add(y, x) = Quotient(b * 0 + a * d, d * 0)
  BY <1>2 DEF Add
<1>8. QED BY <1>2, <1>3, <1>6, <1>7

(* Numbers are added as fractions.                                         *)
LEMMA AddFinite ==
  ASSUME NEW x \in Doubles, NEW y \in Doubles, x[2] # 0, y[2] # 0
  PROVE  /\ Add(x, y) = <<x[1] * y[2] + y[1] * x[2], x[2] * y[2]>>
         /\ x[2] * y[2] # 0
<1>1. PICK a, b, c, d : a = x[1] /\ c = x[2] /\ b = y[1] /\ d = y[2]
  OBVIOUS
<1>2. a \in Int /\ b \in Int /\ c \in Nat /\ d \in Nat /\ c > 0 /\ d > 0
  BY <1>1, DoubleIs
<1>3. c * d \in Nat /\ c * d # 0
  BY <1>2
<1>4. Add(x, y) = Quotient(a * d + b * c, c * d)
  BY <1>1, <1>2 DEF Add
<1>5. QED BY <1>1, <1>3, <1>4 DEF Quotient

(* Nothing is lost when zero is added.                                     *)
LEMMA AddZero ==
  ASSUME NEW x \in Doubles
  PROVE  Add(<<0, 1>>, x) = x
<1>1. <<0, 1>> \in Doubles
  BY DEF Doubles
<1>2. CASE x[2] = 0
  BY <1>1, <1>2, AddInfinite
<1>3. CASE x[2] # 0
  <2>1. PICK z \in Doubles : z = <<0, 1>> /\ z[1] = 0 /\ z[2] = 1
    BY <1>1
  <2>2. Add(z, x) = <<z[1] * x[2] + x[1] * z[2], z[2] * x[2]>>
    BY <1>3, <2>1, AddFinite
  <2>3. z[1] * x[2] + x[1] * z[2] = x[1] /\ z[2] * x[2] = x[2]
    BY <2>1, DoubleIs
  <2>4. QED BY <2>1, <2>2, <2>3, DoubleIs
<1>4. QED BY <1>2, <1>3

(* Three numbers.                                                          *)
LEMMA AddThree ==
  ASSUME NEW a \in Int, NEW b \in Int, NEW c \in Int,
         NEW p \in Nat, NEW q \in Nat, NEW r \in Nat
  PROVE  /\ (a * q + b * p) * r + c * (p * q) = a * (q * r) + (b * r + c * q) * p
         /\ (p * q) * r = p * (q * r)
<1>1. (a * q + b * p) * r = a * (q * r) + (b * r) * p
  OBVIOUS
<1>2. c * (p * q) = (c * q) * p
  OBVIOUS
<1>3. (b * r + c * q) * p = (b * r) * p + (c * q) * p
  OBVIOUS
<1>4. (p * q) * r = p * (q * r)
  OBVIOUS
<1>5. QED BY <1>1, <1>2, <1>3, <1>4

(* Sums may be grouped in either way, with infinities and NaN as well.     *)
LEMMA AddAssociative ==
  ASSUME NEW x \in Doubles, NEW y \in Doubles, NEW z \in Doubles
  PROVE  Add(Add(x, y), z) = Add(x, Add(y, z))
<1>1. Add(x, y) \in Doubles /\ Add(y, z) \in Doubles
  BY OperatorsGive
<1>2. \A u \in Doubles : \A v \in Doubles :
        u[2] = 0 /\ v[2] # 0 => Add(u, v) = u /\ Add(v, u) = u
  BY AddInfinite
<1>3. \A u \in Doubles : \A v \in Doubles :
        u[2] # 0 /\ v[2] # 0 => Add(u, v)[2] # 0
  BY AddFinite
<1>4. \A u \in Doubles : \A v \in Doubles :
        u[2] = 0 /\ v[2] = 0 => Add(u, v) = (IF u = v THEN u ELSE NaN) /\ Add(u, v)[2] = 0
  BY DEF Add, NaN
<1>5. CASE x[2] # 0 /\ y[2] # 0 /\ z[2] # 0
  <2>1. PICK a, b, c, p, q, r : /\ a = x[1] /\ b = y[1] /\ c = z[1]
                                /\ p = x[2] /\ q = y[2] /\ r = z[2]
    OBVIOUS
  <2>2. /\ a \in Int /\ b \in Int /\ c \in Int /\ p \in Nat /\ q \in Nat /\ r \in Nat
    BY <2>1, DoubleIs
  <2>3. Add(x, y) = <<a * q + b * p, p * q>> /\ p * q # 0
    BY <1>5, <2>1, AddFinite
  <2>4. Add(y, z) = <<b * r + c * q, q * r>> /\ q * r # 0
    BY <1>5, <2>1, AddFinite
  <2>5. PICK u \in Doubles : u = Add(x, y) /\ u[1] = a * q + b * p /\ u[2] = p * q
    BY <1>1, <2>3
  <2>6. PICK v \in Doubles : v = Add(y, z) /\ v[1] = b * r + c * q /\ v[2] = q * r
    BY <1>1, <2>4
  <2>7. Add(u, z) = <<u[1] * r + c * u[2], u[2] * r>>
    BY <1>5, <2>1, <2>3, <2>5, AddFinite
  <2>8. Add(x, v) = <<a * v[2] + v[1] * p, p * v[2]>>
    BY <1>5, <2>1, <2>4, <2>6, AddFinite
  <2>9. u[1] * r + c * u[2] = a * v[2] + v[1] * p /\ u[2] * r = p * v[2]
    BY <2>2, <2>5, <2>6, AddThree
  <2>10. QED BY <2>5, <2>6, <2>7, <2>8, <2>9
<1>6. CASE x[2] = 0 /\ y[2] # 0 /\ z[2] # 0
  BY <1>1, <1>2, <1>3, <1>6
<1>7. CASE x[2] # 0 /\ y[2] = 0 /\ z[2] # 0
  BY <1>1, <1>2, <1>7
<1>8. CASE x[2] # 0 /\ y[2] # 0 /\ z[2] = 0
  BY <1>1, <1>2, <1>3, <1>8
<1>9. CASE x[2] = 0 /\ y[2] = 0 /\ z[2] # 0
  BY <1>1, <1>2, <1>4, <1>9
<1>10. CASE x[2] = 0 /\ y[2] # 0 /\ z[2] = 0
  BY <1>1, <1>2, <1>10
<1>11. CASE x[2] # 0 /\ y[2] = 0 /\ z[2] = 0
  BY <1>1, <1>2, <1>4, <1>11
<1>12. CASE x[2] = 0 /\ y[2] = 0 /\ z[2] = 0
  <2>1. NaN \in Doubles /\ NaN[2] = 0
    BY DEF NaN, Doubles
  <2>2. Add(x, y) = IF x = y THEN x ELSE NaN
    BY <1>4, <1>12
  <2>3. Add(y, z) = IF y = z THEN y ELSE NaN
    BY <1>4, <1>12
  <2>4. \A u \in Doubles : \A v \in Doubles :
          u[2] = 0 /\ v[2] = 0 => Add(u, v) = IF u = v THEN u ELSE NaN
    BY <1>4
  <2>5. QED BY <1>12, <2>1, <2>2, <2>3, <2>4
<1>13. QED BY <1>5, <1>6, <1>7, <1>8, <1>9, <1>10, <1>11, <1>12

(* The negative of a negative.                                             *)
LEMMA TwiceNegative ==
  ASSUME NEW x \in Doubles
  PROVE  Negative(Negative(x)) = x
<1>1. PICK a \in Int, b \in Nat : x = <<a, b>>
  BY DEF Doubles
<1>2. Negative(x) = <<-a, b>>
  BY <1>1 DEF Negative
<1>3. Negative(<<-a, b>>) = <<-(-a), b>> /\ -(-a) = a
  BY <1>1 DEF Negative
<1>4. QED BY <1>1, <1>2, <1>3

(* What is added to a sum or a difference is added to its first part.      *)
LEMMA AddedInside ==
  ASSUME NEW x \in Doubles, NEW y \in Doubles, NEW z \in Doubles,
         NEW o \in BinaryOperators, Level(o) = 60
  PROVE  Binary(o, Add(x, y), z) = Add(x, Binary(o, y, z))
<1>1. o \in {"+", "-"}
  BY DEF Level, BinaryOperators
<1>2. Negative(z) \in Doubles
  BY OperatorsGive
<1>3. /\ Add(Add(x, y), z) = Add(x, Add(y, z))
      /\ Add(Add(x, y), Negative(z)) = Add(x, Add(y, Negative(z)))
  BY <1>2, AddAssociative
<1>4. \A u, v : Binary(o, u, v) = Calculator(o, u, v)
  BY DEF Binary
<1>5. CASE o = "+"
  <2>1. \A u, v : Calculator(o, u, v) = Add(u, v)
    BY <1>5 DEF Calculator
  <2>2. QED BY <1>3, <1>4, <2>1
<1>6. CASE o = "-"
  <2>1. \A u, v : Calculator(o, u, v) = Add(u, Negative(v))
    BY <1>6 DEF Calculator
  <2>2. QED BY <1>3, <1>4, <2>1
<1>7. QED BY <1>1, <1>5, <1>6

(* The plus adds.                                                          *)
LEMMA PlusAdds ==
  /\ "+" \in BinaryOperators /\ Level("+") = 60
  /\ \A x, y : Binary("+", x, y) = Add(x, y)
<1>1. "+" \in BinaryOperators /\ Level("+") = 60
  BY DEF BinaryOperators, Level
<1>2. \A x, y : Calculator("+", x, y) = Add(x, y)
  BY DEF Calculator
<1>3. \A x, y : Binary("+", x, y) = Calculator("+", x, y)
  BY <1>1 DEF Binary
<1>4. QED BY <1>1, <1>2, <1>3

(* Expand of a tree is made of Expand of its parts.                        *)
LEMMA ExpandIs ==
  \A e \in Trees : Expand[e] = ExpandOf(e, OfParts(Expand, e))
<1> DEFINE Is(f, n) == f = [e \in TreesTo[n] |-> ExpandOf(e, OfParts(f, e))]
           S == {n \in Nat : n <= MaxHeight => \E f : Is(f, n)}
<1>1. 0 \in S
  <2> DEFINE f == [e \in {} |-> 0]
  <2>1. Is(f, 0)
    BY TreesToAre
  <2>2. QED BY <2>1
<1>2. ASSUME NEW n \in Nat, n \in S PROVE n + 1 \in S
  <2>1. SUFFICES ASSUME n + 1 <= MaxHeight PROVE \E g : Is(g, n + 1)
    OBVIOUS
  <2>2. PICK f : Is(f, n)
    BY <1>2, <2>1, LanguageAssumption
  <2> DEFINE g == [e \in TreesTo[n + 1] |-> ExpandOf(e, OfParts(f, e))]
  <2>3. \A e \in TreesTo[n] : g[e] = f[e]
    BY <2>1, <2>2, TreesGrow
  <2>4. ASSUME NEW e \in TreesTo[n + 1] PROVE OfParts(f, e) = OfParts(g, e)
    <3>1. \A i \in DOMAIN e.args : e.args[i] \in TreesTo[n]
      BY <2>1, TreesToAre, MadeOf
    <3> HIDE DEF g
    <3>2. \A i \in DOMAIN e.args : f[e.args[i]] = g[e.args[i]]
      BY <2>3, <3>1
    <3>3. QED BY <3>2 DEF OfParts
  <2>5. g = [e \in TreesTo[n + 1] |-> g[e]]
    OBVIOUS
  <2>6. \A e \in TreesTo[n + 1] : g[e] = ExpandOf(e, OfParts(f, e))
    OBVIOUS
  <2> HIDE DEF g
  <2>7. \A e \in TreesTo[n + 1] : g[e] = ExpandOf(e, OfParts(g, e))
    BY <2>4, <2>6
  <2>8. Is(g, n + 1)
    BY <2>5, <2>7
  <2>9. QED BY <2>8
<1>3. \A n \in Nat : n \in S
  <2> HIDE DEF S
  <2>1. QED BY <1>1, <1>2, Every
<1>4. \E f : Is(f, MaxHeight)
  BY <1>3, LanguageAssumption
<1>5. Expand = [e \in Trees |-> ExpandOf(e, OfParts(Expand, e))]
  <2>1. \E f : f = [e \in Trees |-> ExpandOf(e, OfParts(f, e))]
    BY <1>4 DEF Trees
  <2>2. QED BY <2>1 DEF Expand
<1>6. QED BY <1>5

(* A tree up to a height is one up to any greater height.                  *)
LEMMA TreesHigher ==
  ASSUME NEW m \in Nat, NEW n \in Nat, m <= n, n <= MaxHeight
  PROVE  TreesTo[m] \subseteq TreesTo[n]
<1> DEFINE S == {k \in Nat : m + k <= MaxHeight => TreesTo[m] \subseteq TreesTo[m + k]}
<1>1. 0 \in S
  OBVIOUS
<1>2. ASSUME NEW k \in Nat, k \in S PROVE k + 1 \in S
  <2>1. SUFFICES ASSUME m + (k + 1) <= MaxHeight PROVE TreesTo[m] \subseteq TreesTo[m + (k + 1)]
    OBVIOUS
  <2>2. m + k \in Nat /\ (m + k) + 1 = m + (k + 1) /\ m + k <= MaxHeight
    BY <2>1, LanguageAssumption
  <2>3. TreesTo[m] \subseteq TreesTo[m + k]
    BY <1>2, <2>2
  <2>4. TreesTo[m + k] \subseteq TreesTo[(m + k) + 1]
    BY <2>1, <2>2, TreesGrow
  <2>5. QED BY <2>2, <2>3, <2>4
<1>3. \A k \in Nat : k \in S
  <2> HIDE DEF S
  <2>1. QED BY <1>1, <1>2, Every
<1>4. n - m \in Nat /\ m + (n - m) = n
  OBVIOUS
<1>5. QED BY <1>3, <1>4

(* A node over trees of a height is a tree of one more.                    *)
LEMMA NodeMade ==
  ASSUME NEW n \in Nat, n + 1 <= MaxHeight, NEW k \in DOMAIN Texts, NEW t \in Texts[k],
         NEW args \in Seq(TreesTo[n]), Len(args) \in Counts[k]
  PROVE  Node(k, t, args) \in TreesTo[n + 1] /\ Node(k, t, args) \in Trees
<1>1. PICK e : e = Node(k, t, args)
  OBVIOUS
<1>2. e.kind = k /\ e.text = t /\ e.args = args
  BY <1>1 DEF Node
<1>3. e \in Made(TreesTo[n])
  BY <1>1, <1>2, MadeOf
<1>4. e \in TreesTo[n + 1]
  BY <1>3, TreesToAre
<1>5. n + 1 \in Nat
  OBVIOUS
<1>6. TreesTo[n + 1] \subseteq Trees
  BY <1>5, TreesToIn
<1>7. QED BY <1>1, <1>4, <1>6

(* The parts of a tree up to a height.                                     *)
LEMMA PartsLower ==
  ASSUME NEW n \in Nat, n <= MaxHeight, NEW e \in TreesTo[n]
  PROVE  /\ n - 1 \in Nat /\ (n - 1) + 1 = n /\ n >= 1 /\ n - 1 <= MaxHeight /\ e \in Trees
         /\ \A i \in DOMAIN e.args : e.args[i] \in TreesTo[n - 1]
<1>1. n # 0
  BY TreesToAre
<1>2. n - 1 \in Nat /\ (n - 1) + 1 = n /\ n >= 1 /\ n - 1 <= MaxHeight
  BY <1>1, LanguageAssumption
<1>3. TreesTo[n] = Made(TreesTo[n - 1])
  BY <1>2, TreesToAre
<1>4. e.args \in Seq(TreesTo[n - 1])
  BY <1>3, MadeOf
<1>5. \A i \in DOMAIN e.args : e.args[i] \in TreesTo[n - 1]
  BY <1>4
<1>6. TreesTo[n] \subseteq Trees
  BY TreesToIn
<1>7. QED BY <1>2, <1>5, <1>6

(* A tree of plain parts is plain, but for its own literal.                *)
LEMMA PlainIs ==
  ASSUME NEW e \in Trees
  PROVE  Plain(e) <=> /\ e.kind = "literal" => Shown[e.text] = <<e.text>>
                      /\ \A i \in DOMAIN e.args : Plain(e.args[i])
<1>1. PICK k : k = "literal"
  OBVIOUS
<1>2. \A d \in Trees : Plain(d) <=> \A c \in Nodes[d] : c.kind = k => Shown[c.text] = <<c.text>>
  BY <1>1 DEF Plain
<1>3. \A d : d \in Nodes[e] <=> d = e \/ \E i \in DOMAIN e.args : d \in Nodes[e.args[i]]
  BY NodesAre
<1>4. \A i \in DOMAIN e.args : e.args[i] \in Trees
  BY TreesAre
<1>5. QED BY <1>1, <1>2, <1>3, <1>4

-----------------------------------------------------------------------------
(* A tree up to height n, that is written w, has value v, binds at least   *)
(* as b, and is parsed from w.                                             *)
Expresses(x, n, w, v, b) ==
  /\ n \in Nat /\ n <= MaxHeight /\ x \in TreesTo[n]
  /\ Represent[x] = w /\ Value[x] = v
  /\ Plain(x) /\ Fitting(x) /\ Binds(x) >= b

(* What follows from that.                                                 *)
LEMMA Expressed ==
  ASSUME NEW x, NEW n, NEW w, NEW v, NEW b, Expresses(x, n, w, v, b)
  PROVE  /\ x \in Trees /\ n \in Nat /\ n >= 1 /\ w \in Seq(Tokens) /\ Len(w) >= 1
         /\ v \in Doubles
<1>1. n \in Nat /\ n <= MaxHeight /\ x \in TreesTo[n] /\ Plain(x)
  BY DEF Expresses
<1>2. x \in Trees /\ n >= 1
  BY <1>1, PartsLower
<1>3. Represent[x] \in Seq(Tokens) /\ Len(Represent[x]) >= 1
  BY <1>1, <1>2, TextOfTree
<1>4. Value[x] \in Doubles
  BY <1>2, ValuesGive
<1>5. QED BY <1>1, <1>2, <1>3, <1>4 DEF Expresses

(* A greater height and a lower level will do.                             *)
LEMMA ExpressesMore ==
  ASSUME NEW x, NEW n, NEW w, NEW v, NEW b, Expresses(x, n, w, v, b),
         NEW m \in Nat, n <= m, m <= MaxHeight, NEW c, Binds(x) >= c
  PROVE  Expresses(x, m, w, v, c)
<1>1. n \in Nat /\ x \in TreesTo[n]
  BY DEF Expresses
<1>2. x \in TreesTo[m]
  BY <1>1, TreesHigher
<1>3. QED BY <1>2 DEF Expresses

(* What a node may be made of.                                             *)
Ready(n, k, t, args) ==
  /\ n \in Nat /\ n + 1 <= MaxHeight /\ k \in DOMAIN Texts /\ t \in Texts[k]
  /\ args \in Seq(TreesTo[n]) /\ Len(args) \in Counts[k]
  /\ \A i \in DOMAIN args : Plain(args[i]) /\ Fitting(args[i])
  /\ k = "literal" => Shown[t] = <<t>>

(* A node of such parts.                                                   *)
LEMMA NodeExpresses ==
  ASSUME NEW n, NEW k, NEW t, NEW args, Ready(n, k, t, args),
         NEW e, e = Node(k, t, args), Fits(e), NEW b, Binds(e) >= b
  PROVE  /\ Expresses(e, n + 1, Represent[e], Value[e], b)
         /\ e \in Trees /\ Plain(e) /\ e.kind = k /\ e.text = t /\ e.args = args
         /\ Value[e] = ValueOf(e, OfParts(Value, e))
<1>1. e \in TreesTo[n + 1] /\ e \in Trees
  BY NodeMade DEF Ready
<1>2. e.kind = k /\ e.text = t /\ e.args = args
  BY DEF Node
<1>3. Plain(e)
  BY <1>1, <1>2, PlainIs DEF Ready
<1>4. Fitting(e)
  BY <1>1, <1>2, FittingIs DEF Ready
<1>5. Value[e] = ValueOf(e, OfParts(Value, e))
  BY <1>1, ValueIs
<1>6. n + 1 \in Nat /\ n + 1 <= MaxHeight
  BY DEF Ready
<1>7. QED BY <1>1, <1>2, <1>3, <1>4, <1>5, <1>6 DEF Expresses

(* A literal that is written as it is read.                                *)
LEMMA LiteralExpresses ==
  ASSUME NEW l \in Literals, Shown[l] = <<l>>, NEW n \in Nat, n >= 1, n <= MaxHeight
  PROVE  Expresses(Node("literal", l, <<>>), n, <<l>>, Amount[l], 80)
<1>1. PICK k : k = "literal" /\ k \notin {"unary", "binary", "conditional"}
  OBVIOUS
<1>2. PICK e, args : args = <<>> /\ e = Node(k, l, args)
  OBVIOUS
<1>3. args \in Seq(TreesTo[0]) /\ Len(args) = 0 /\ DOMAIN args = {}
  BY <1>2
<1>4. k \in DOMAIN Texts /\ l \in Texts[k] /\ Len(args) \in Counts[k]
  BY <1>1, <1>3 DEF Texts, Counts
<1>5. e.kind = k
  BY <1>2 DEF Node
<1>6. Fits(e) /\ Binds(e) = 80
  BY <1>1, <1>5 DEF Fits, Binds
<1>7. 0 \in Nat /\ 0 + 1 = 1 /\ 1 <= MaxHeight /\ 80 >= 80 /\ 1 \in Nat
  BY LanguageAssumption
<1>8. /\ Expresses(e, 0 + 1, Represent[e], Value[e], 80) /\ e \in Trees /\ Plain(e)
      /\ e.kind = k /\ e.text = l /\ Value[e] = ValueOf(e, OfParts(Value, e))
  <2>1. /\ (k = "literal" => Shown[l] = <<l>>) /\ Binds(e) >= 80 /\ 0 + 1 <= MaxHeight
        /\ \A i \in DOMAIN args : Plain(args[i]) /\ Fitting(args[i])
    BY <1>3, <1>6, <1>7
  <2>2. 0 \in Nat
    OBVIOUS
  <2>3. e = Node(k, l, args)
    BY <1>2
  <2>4. Ready(0, k, l, args)
    BY <1>3, <1>4, <2>1, <2>2 DEF Ready
  <2>5. /\ Expresses(e, 0 + 1, Represent[e], Value[e], 80) /\ e \in Trees /\ Plain(e)
        /\ e.kind = k /\ e.text = l /\ Value[e] = ValueOf(e, OfParts(Value, e))
    BY <1>6, <2>1, <2>3, <2>4, NodeExpresses
  <2>6. QED BY <2>5
<1>9. Represent[e] = <<l>>
  BY <1>1, <1>8, WrittenAs
<1>10. Value[e] = Amount[l]
  BY <1>1, <1>8 DEF ValueOf
<1>11. Expresses(e, 1, <<l>>, Amount[l], 80)
  BY <1>7, <1>8, <1>9, <1>10
<1>12. Expresses(e, n, <<l>>, Amount[l], 80)
  BY <1>6, <1>7, <1>11, ExpressesMore
<1>13. QED BY <1>1, <1>2, <1>12

(* A prefix operator before a tree of the highest level.                   *)
LEMMA UnaryExpresses ==
  ASSUME NEW o \in PrefixOperators, NEW a, NEW n, NEW w, NEW v,
         Expresses(a, n, w, v, 80), n + 1 <= MaxHeight
  PROVE  Expresses(Node("unary", o, <<a>>), n + 1, <<o>> \o w, Unary(o, v), 80)
<1>1. PICK k : k = "unary" /\ k \notin {"literal", "binary", "conditional"}
  OBVIOUS
<1>2. PICK e, args : args = <<a>> /\ e = Node(k, o, args)
  OBVIOUS
<1>3. /\ n \in Nat /\ a \in TreesTo[n] /\ Represent[a] = w /\ Value[a] = v
      /\ Plain(a) /\ Fitting(a) /\ Binds(a) >= 80
  BY DEF Expresses
<1>4. args \in Seq(TreesTo[n]) /\ Len(args) = 1 /\ DOMAIN args = {1} /\ args[1] = a
  <2>1. PICK T : T = TreesTo[n]
    OBVIOUS
  <2>2. a \in T
    BY <1>3, <2>1
  <2>3. <<a>> \in Seq(T) /\ Len(<<a>>) = 1 /\ DOMAIN <<a>> = {1} /\ <<a>>[1] = a
    BY <2>2
  <2>4. QED BY <1>2, <2>1, <2>3
<1>5. k \in DOMAIN Texts /\ o \in Texts[k] /\ Len(args) \in Counts[k]
  BY <1>1, <1>4 DEF Texts, Counts
<1>6. e.kind = k /\ e.args = args
  BY <1>2 DEF Node
<1>7. Binds(a) = 80
  <2>1. Binds(a) \in {0, 10, 20, 30, 40, 50, 60, 70, 80}
    BY NodeBinds
  <2>2. QED BY <1>3, <2>1
<1>8. Fits(e) /\ Binds(e) = 80
  BY <1>1, <1>4, <1>6, <1>7 DEF Fits, Binds
<1>9. /\ Expresses(e, n + 1, Represent[e], Value[e], 80) /\ e \in Trees /\ Plain(e)
      /\ e.text = o /\ Value[e] = ValueOf(e, OfParts(Value, e))
  <2>1. \A i \in DOMAIN args : Plain(args[i]) /\ Fitting(args[i])
    BY <1>3, <1>4
  <2>2. Binds(e) >= 80
    BY <1>8
  <2>3. k = "literal" => Shown[o] = <<o>>
    BY <1>1
  <2>4. e = Node(k, o, args) /\ n \in Nat
    BY <1>2, <1>3
  <2>5. Ready(n, k, o, args)
    BY <1>4, <1>5, <2>1, <2>3, <2>4 DEF Ready
  <2>6. QED BY <1>8, <2>2, <2>4, <2>5, NodeExpresses
<1>10. Represent[e] = <<o>> \o w
  BY <1>1, <1>3, <1>4, <1>6, <1>9, WrittenAs
<1>11. OfParts(Value, e)[1] = v
  BY <1>3, <1>4, <1>6 DEF OfParts
<1>12. Value[e] = Unary(o, v)
  BY <1>1, <1>6, <1>9, <1>11 DEF ValueOf
<1>13. QED BY <1>1, <1>2, <1>9, <1>10, <1>12

(* Parentheses around a tree.                                              *)
LEMMA ParenthesesExpress ==
  ASSUME NEW a, NEW n, NEW w, NEW v, NEW b, Expresses(a, n, w, v, b), n + 1 <= MaxHeight
  PROVE  Expresses(Parenthesized(a), n + 1, Between(w), v, 80)
<1>1. PICK k : k = "parentheses" /\ k \notin {"literal", "unary", "binary", "conditional"}
  OBVIOUS
<1>2. PICK s : s = ""
  OBVIOUS
<1>3. PICK e, args : args = <<a>> /\ e = Node(k, s, args)
  OBVIOUS
<1>4. /\ n \in Nat /\ a \in TreesTo[n] /\ Represent[a] = w /\ Value[a] = v
      /\ Plain(a) /\ Fitting(a)
  BY DEF Expresses
<1>5. args \in Seq(TreesTo[n]) /\ Len(args) = 1 /\ DOMAIN args = {1} /\ args[1] = a
  <2>1. PICK T : T = TreesTo[n]
    OBVIOUS
  <2>2. a \in T
    BY <1>4, <2>1
  <2>3. <<a>> \in Seq(T) /\ Len(<<a>>) = 1 /\ DOMAIN <<a>> = {1} /\ <<a>>[1] = a
    BY <2>2
  <2>4. QED BY <1>3, <2>1, <2>3
<1>6. k \in DOMAIN Texts /\ s \in Texts[k] /\ Len(args) \in Counts[k]
  BY <1>1, <1>2, <1>5 DEF Texts, Counts
<1>7. e.kind = k /\ e.args = args
  BY <1>3 DEF Node
<1>8. Fits(e) /\ Binds(e) = 80
  BY <1>1, <1>7 DEF Fits, Binds
<1>9. /\ Expresses(e, n + 1, Represent[e], Value[e], 80) /\ e \in Trees /\ Plain(e)
      /\ Value[e] = ValueOf(e, OfParts(Value, e))
  <2>1. \A i \in DOMAIN args : Plain(args[i]) /\ Fitting(args[i])
    BY <1>4, <1>5
  <2>2. Binds(e) >= 80
    BY <1>8
  <2>3. k = "literal" => Shown[s] = <<s>>
    BY <1>1
  <2>4. e = Node(k, s, args) /\ n \in Nat
    BY <1>3, <1>4
  <2>5. Ready(n, k, s, args)
    BY <1>5, <1>6, <2>1, <2>3, <2>4 DEF Ready
  <2>6. QED BY <1>8, <2>2, <2>4, <2>5, NodeExpresses
<1>10. Represent[e] = Between(w)
  BY <1>1, <1>4, <1>5, <1>7, <1>9, WrittenAs
<1>11. OfParts(Value, e)[1] = v
  BY <1>4, <1>5, <1>7 DEF OfParts
<1>12. Value[e] = v
  BY <1>1, <1>7, <1>9, <1>11 DEF ValueOf
<1>13. Parenthesized(a) = e
  BY <1>1, <1>2, <1>3 DEF Parenthesized
<1>14. QED BY <1>9, <1>10, <1>12, <1>13

(* An operator between two trees that bind as it needs them to.            *)
LEMMA BinaryExpresses ==
  ASSUME NEW o \in BinaryOperators, NEW a, NEW n, NEW w, NEW v, Expresses(a, n, w, v, Level(o)),
         NEW c, NEW u, NEW x, Expresses(c, n, u, x, Level(o) + 10), n + 1 <= MaxHeight
  PROVE  Expresses(Node("binary", o, <<a, c>>), n + 1, w \o <<o>> \o u, Binary(o, v, x), Level(o))
<1>1. PICK k : k = "binary" /\ k \notin {"literal", "unary", "conditional"}
  OBVIOUS
<1>2. PICK e, args : args = <<a, c>> /\ e = Node(k, o, args)
  OBVIOUS
<1>3. /\ n \in Nat /\ a \in TreesTo[n] /\ Represent[a] = w /\ Value[a] = v
      /\ Plain(a) /\ Fitting(a) /\ Binds(a) >= Level(o)
      /\ c \in TreesTo[n] /\ Represent[c] = u /\ Value[c] = x
      /\ Plain(c) /\ Fitting(c) /\ Binds(c) >= Level(o) + 10
  BY DEF Expresses
<1>4. args \in Seq(TreesTo[n]) /\ Len(args) = 2 /\ DOMAIN args = {1, 2} /\ args[1] = a /\ args[2] = c
  <2>1. PICK T : T = TreesTo[n]
    OBVIOUS
  <2>2. a \in T /\ c \in T
    BY <1>3, <2>1
  <2>3. /\ <<a, c>> \in Seq(T) /\ Len(<<a, c>>) = 2 /\ DOMAIN <<a, c>> = {1, 2}
        /\ <<a, c>>[1] = a /\ <<a, c>>[2] = c
    BY <2>2
  <2>4. QED BY <1>2, <2>1, <2>3
<1>5. k \in DOMAIN Texts /\ o \in Texts[k] /\ Len(args) \in Counts[k]
  BY <1>1, <1>4 DEF Texts, Counts
<1>6. e.kind = k /\ e.args = args /\ e.text = o
  BY <1>2 DEF Node
<1>7. Level(o) \in Nat /\ Binds(a) \in Nat /\ Binds(c) \in Nat
  <2>1. Binds(a) \in {0, 10, 20, 30, 40, 50, 60, 70, 80} /\ Binds(c) \in {0, 10, 20, 30, 40, 50, 60, 70, 80}
    BY NodeBinds
  <2>2. Level(o) \in {20, 30, 40, 50, 60, 70}
    BY LevelsAre
  <2>3. QED BY <2>1, <2>2
<1>8. Binds(c) > Level(o)
  BY <1>3, <1>7
<1>9. Fits(e) /\ Binds(e) = Level(o)
  BY <1>1, <1>3, <1>4, <1>6, <1>8 DEF Fits, Binds
<1>10. /\ Expresses(e, n + 1, Represent[e], Value[e], Level(o)) /\ e \in Trees /\ Plain(e)
       /\ Value[e] = ValueOf(e, OfParts(Value, e))
  <2>1. \A i \in DOMAIN args : Plain(args[i]) /\ Fitting(args[i])
    BY <1>3, <1>4
  <2>2. Binds(e) >= Level(o)
    BY <1>7, <1>9
  <2>3. k = "literal" => Shown[o] = <<o>>
    BY <1>1
  <2>4. e = Node(k, o, args) /\ n \in Nat
    BY <1>2, <1>3
  <2>5. Ready(n, k, o, args)
    BY <1>4, <1>5, <2>1, <2>3, <2>4 DEF Ready
  <2>6. QED BY <1>9, <2>2, <2>4, <2>5, NodeExpresses
<1>11. Represent[e] = w \o <<o>> \o u
  BY <1>1, <1>3, <1>4, <1>6, <1>10, WrittenAs
<1>12. OfParts(Value, e)[1] = v /\ OfParts(Value, e)[2] = x
  BY <1>3, <1>4, <1>6 DEF OfParts
<1>13. Value[e] = Binary(o, v, x)
  BY <1>1, <1>6, <1>10, <1>12 DEF ValueOf
<1>14. QED BY <1>1, <1>2, <1>10, <1>11, <1>13

(* Five sequences.                                                         *)
RegroupsFive(a, b, c, d, e) == (a \o b \o c) \o d \o e = a \o b \o (c \o d \o e)

(* Five sequences may be grouped in either way.                            *)
LEMMA RegroupedFive ==
  ASSUME NEW T, NEW a \in Seq(T), NEW b \in Seq(T), NEW c \in Seq(T), NEW d \in Seq(T),
         NEW e \in Seq(T)
  PROVE  RegroupsFive(a, b, c, d, e)
<1>1. a \o b \in Seq(T)
  OBVIOUS
<1>2. Regroups(a \o b, c, d, e)
  BY <1>1, Regrouped
<1>3. QED BY <1>2 DEF Regroups, RegroupsFive

(* Levels are tens.                                                        *)
LEMMA NextLevel ==
  ASSUME NEW e
  PROVE  /\ Binds(e) \in Nat
         /\ \A l \in {20, 30, 40, 50, 60, 70} : Binds(e) > l => Binds(e) >= l + 10
<1>1. Binds(e) \in {0, 10, 20, 30, 40, 50, 60, 70, 80}
  BY NodeBinds
<1>2. QED BY <1>1

(* A binary tree up to height n, that is written u and has value x, splits *)
(* into such parts.                                                        *)
Splits(c, n, u, x) ==
  \E p, q, r, s, y, z :
    /\ p = c.args[1] /\ 1 \in DOMAIN c.args /\ p \in Trees
    /\ c.text \in BinaryOperators
    /\ Expresses(p, n - 1, r, y, Level(c.text))
    /\ Expresses(q, n - 1, s, z, Level(c.text) + 10)
    /\ u = r \o <<c.text>> \o s /\ x = Binary(c.text, y, z)

(* Every one does.                                                         *)
LEMMA BinaryParts ==
  ASSUME NEW c, NEW n, NEW u, NEW x, NEW b, Expresses(c, n, u, x, b), c.kind = "binary"
  PROVE  Splits(c, n, u, x)
<1>1. PICK k : k = "binary"
  OBVIOUS
<1>2. PICK p, q, o : p = c.args[1] /\ q = c.args[2] /\ o = c.text
  OBVIOUS
<1>3. /\ n \in Nat /\ n <= MaxHeight /\ c \in TreesTo[n] /\ Represent[c] = u /\ Value[c] = x
      /\ Plain(c) /\ Fitting(c)
  BY DEF Expresses
<1>4. /\ n - 1 \in Nat /\ n >= 1 /\ n - 1 <= MaxHeight /\ c \in Trees
      /\ \A i \in DOMAIN c.args : c.args[i] \in TreesTo[n - 1]
  BY <1>3, PartsLower
<1>5. o \in BinaryOperators /\ DOMAIN c.args = {1, 2}
  BY <1>2, <1>4, KindIs
<1>6. p \in TreesTo[n - 1] /\ q \in TreesTo[n - 1]
  BY <1>2, <1>4, <1>5
<1>7. Plain(p) /\ Plain(q) /\ p \in Trees /\ q \in Trees
  BY <1>2, <1>3, <1>4, <1>5, PartsPlain
<1>8. Fits(c) /\ Fitting(p) /\ Fitting(q)
  BY <1>2, <1>3, <1>4, <1>5, FittingIs
<1>9. Binds(p) >= Level(o) /\ Binds(q) > Level(o)
  BY <1>2, <1>8 DEF Fits
<1>10. Binds(q) >= Level(o) + 10
  <2>1. Level(o) \in {20, 30, 40, 50, 60, 70}
    BY <1>5, LevelsAre
  <2>2. QED BY <1>9, <2>1, NextLevel
<1>11. u = Represent[p] \o <<o>> \o Represent[q]
  BY <1>2, <1>3, <1>4, WrittenAs
<1>12. x = Binary(o, Value[p], Value[q])
  <2>1. Value[c] = ValueOf(c, OfParts(Value, c))
    BY <1>4, ValueIs
  <2>2. OfParts(Value, c)[1] = Value[p] /\ OfParts(Value, c)[2] = Value[q]
    BY <1>2, <1>5 DEF OfParts
  <2>3. QED BY <1>2, <1>3, <2>1, <2>2 DEF ValueOf
<1>13. Expresses(p, n - 1, Represent[p], Value[p], Level(o))
  BY <1>4, <1>6, <1>7, <1>8, <1>9 DEF Expresses
<1>14. Expresses(q, n - 1, Represent[q], Value[q], Level(o) + 10)
  BY <1>4, <1>6, <1>7, <1>8, <1>10 DEF Expresses
<1>15. QED BY <1>2, <1>5, <1>7, <1>11, <1>12, <1>13, <1>14 DEF Splits

(* An operator between two expressions.                                    *)
LEMMA BinaryExpressed ==
  ASSUME NEW o \in BinaryOperators, NEW a, NEW n, NEW w, NEW v, Expresses(a, n, w, v, Level(o)),
         NEW c, NEW u, NEW x, Expresses(c, n, u, x, Level(o) + 10), n + 1 <= MaxHeight
  PROVE  \E e : Expresses(e, n + 1, w \o <<o>> \o u, Binary(o, v, x), Level(o))
BY BinaryExpresses

(* An expression of which an operator takes its part is one that binds     *)
(* more than the plus, or a sum or a difference.                           *)
LEMMA AboveSum ==
  ASSUME NEW c \in Trees, Binds(c) >= 60, ~(c.kind = "binary" /\ Level(c.text) = 60)
  PROVE  Binds(c) >= 70
<1>1. CASE c.kind = "binary"
  <2>1. Binds(c) = Level(c.text)
    BY <1>1 DEF Binds
  <2>2. Binds(c) # 60
    BY <1>1, <2>1
  <2>3. 60 \in {20, 30, 40, 50, 60, 70} /\ Binds(c) > 60
    BY <2>2, NextLevel
  <2>4. QED BY <2>3, NextLevel
<1>2. CASE c.kind = "conditional"
  <2>1. Binds(c) = 10
    BY <1>2 DEF Binds
  <2>2. QED BY <2>1
<1>3. CASE c.kind \notin {"binary", "conditional"}
  <2>1. Binds(c) = 80
    BY <1>3 DEF Binds
  <2>2. QED BY <2>1
<1>4. QED BY <1>1, <1>2, <1>3

(* The texts of two expressions, with a plus between them, are one of      *)
(* their sum, although the second is not grouped any more.                 *)
LEMMA JoinExpresses ==
  ASSUME NEW a, NEW m, NEW w, NEW v, Expresses(a, m, w, v, 60)
  PROVE  \A c \in Trees : \A n, u, x :
           Expresses(c, n, u, x, 60) /\ m + n <= MaxHeight =>
             \E d : Expresses(d, m + n, w \o <<"+">> \o u, Add(v, x), 60)
<1> DEFINE P(c) == \A n, u, x :
              Expresses(c, n, u, x, 60) /\ m + n <= MaxHeight =>
                \E d : Expresses(d, m + n, w \o <<"+">> \o u, Add(v, x), 60)
           S == {c \in Trees : P(c)}
<1>1. PICK plus : plus = "+"
  OBVIOUS
<1>2. plus \in BinaryOperators /\ Level(plus) = 60 /\ \A y, z : Binary(plus, y, z) = Add(y, z)
  BY <1>1, PlusAdds
<1>3. m \in Nat /\ m >= 1 /\ w \in Seq(Tokens) /\ v \in Doubles
  BY Expressed
<1>4. ASSUME NEW c \in Trees, \A i \in DOMAIN c.args : c.args[i] \in S,
             NEW n, NEW u, NEW x, Expresses(c, n, u, x, 60), m + n <= MaxHeight
      PROVE  \E d : Expresses(d, m + n, w \o <<plus>> \o u, Add(v, x), 60)
  <2>1. n \in Nat /\ n >= 1 /\ u \in Seq(Tokens) /\ x \in Doubles
    BY <1>4, Expressed
  <2>2. PICK h \in Nat : /\ h = m + (n - 1) /\ h + 1 = m + n /\ m <= h /\ n <= h
                         /\ h <= MaxHeight /\ n - 1 <= h /\ h + 1 <= MaxHeight
    <3>1. PICK i \in Nat, j \in Nat, k \in Nat : /\ i = m /\ j = n /\ k = MaxHeight
                                                 /\ i >= 1 /\ j >= 1 /\ i + j <= k
      BY <1>3, <1>4, <2>1, LanguageAssumption
    <3>2. PICK h : h = i + (j - 1)
      OBVIOUS
    <3>3. /\ h \in Nat /\ h + 1 = i + j /\ i <= h /\ j <= h
          /\ h <= k /\ j - 1 <= h /\ h + 1 <= k
      BY <3>1, <3>2
    <3>4. QED BY <3>1, <3>2, <3>3
  <2>3. CASE c.kind = "binary" /\ Level(c.text) = 60
    <3>1. PICK o : o = c.text
      OBVIOUS
    <3>2. PICK p, q, r, s, y, z :
            /\ p = c.args[1] /\ 1 \in DOMAIN c.args /\ p \in Trees /\ o \in BinaryOperators
            /\ Expresses(p, n - 1, r, y, Level(o)) /\ Expresses(q, n - 1, s, z, Level(o) + 10)
            /\ u = r \o <<o>> \o s /\ x = Binary(o, y, z)
      <4>1. Splits(c, n, u, x)
        BY <1>4, <2>3, BinaryParts
      <4>2. QED BY <3>1, <4>1 DEF Splits
    <3>3. Level(o) = 60 /\ Level(o) + 10 = 70
      BY <2>3, <3>1
    <3>4. Expresses(p, n - 1, r, y, 60) /\ Expresses(q, n - 1, s, z, 70)
      BY <3>2, <3>3
    <3>5. r \in Seq(Tokens) /\ s \in Seq(Tokens) /\ y \in Doubles /\ z \in Doubles
      BY <3>4, Expressed
    <3>6. P(p)
      BY <1>4, <3>2
    <3>7. PICK d : Expresses(d, h, w \o <<plus>> \o r, Add(v, y), 60)
      <4>1. m + (n - 1) = h /\ m + (n - 1) <= MaxHeight
        BY <2>2
      <4>2. \E d : Expresses(d, m + (n - 1), w \o <<"+">> \o r, Add(v, y), 60)
        BY <3>4, <3>6, <4>1
      <4>3. QED BY <1>1, <4>1, <4>2
    <3>8. Expresses(q, h, s, z, 70)
      <4>1. Binds(q) >= 70
        BY <3>4 DEF Expresses
      <4>2. \A i \in Nat : \A l : n - 1 <= i /\ i <= MaxHeight /\ Binds(q) >= l =>
              Expresses(q, i, s, z, l)
        BY <3>4, ExpressesMore
      <4>3. QED BY <2>2, <4>1, <4>2
    <3>9. \E e : Expresses(e, h + 1, (w \o <<plus>> \o r) \o <<o>> \o s, Binary(o, Add(v, y), z), 60)
      <4>1. Expresses(d, h, w \o <<plus>> \o r, Add(v, y), Level(o))
        BY <3>7, <3>3
      <4>2. Expresses(q, h, s, z, Level(o) + 10)
        BY <3>8, <3>3
      <4>3. \E e : Expresses(e, h + 1, (w \o <<plus>> \o r) \o <<o>> \o s,
                            Binary(o, Add(v, y), z), Level(o))
        BY <2>2, <3>2, <4>1, <4>2, BinaryExpressed
      <4>4. QED BY <3>3, <4>3
    <3>10. (w \o <<plus>> \o r) \o <<o>> \o s = w \o <<plus>> \o u
      <4>1. plus \in Tokens /\ o \in Tokens
        BY <1>2, <3>2 DEF Tokens
      <4>2. <<plus>> \in Seq(Tokens) /\ <<o>> \in Seq(Tokens)
        BY <4>1
      <4>3. RegroupsFive(w, <<plus>>, r, <<o>>, s)
        BY <1>3, <3>5, <4>2, RegroupedFive
      <4>4. QED BY <3>2, <4>3 DEF RegroupsFive
    <3>11. Binary(o, Add(v, y), z) = Add(v, x)
      BY <1>3, <3>2, <3>3, <3>5, AddedInside
    <3>12. QED BY <2>2, <3>9, <3>10, <3>11
  <2>4. CASE ~(c.kind = "binary" /\ Level(c.text) = 60)
    <3>1. Binds(a) >= 60 /\ Binds(c) >= 60
      BY <1>4 DEF Expresses
    <3>2. Binds(c) >= 70
      BY <2>4, <3>1, AboveSum
    <3>3. Expresses(a, h, w, v, 60) /\ Expresses(c, h, u, x, 70)
      <4>1. \A i \in Nat : \A l : m <= i /\ i <= MaxHeight /\ Binds(a) >= l =>
              Expresses(a, i, w, v, l)
        BY ExpressesMore
      <4>2. \A i \in Nat : \A l : n <= i /\ i <= MaxHeight /\ Binds(c) >= l =>
              Expresses(c, i, u, x, l)
        BY <1>4, ExpressesMore
      <4>3. QED BY <2>2, <3>1, <3>2, <4>1, <4>2
    <3>4. Level(plus) = 60 /\ Level(plus) + 10 = 70
      BY <1>2
    <3>5. \E e : Expresses(e, h + 1, w \o <<plus>> \o u, Binary(plus, v, x), 60)
      <4>1. Expresses(a, h, w, v, Level(plus)) /\ Expresses(c, h, u, x, Level(plus) + 10)
        BY <3>3, <3>4
      <4>2. \E e : Expresses(e, h + 1, w \o <<plus>> \o u, Binary(plus, v, x), Level(plus))
        BY <1>2, <2>2, <4>1, BinaryExpressed
      <4>3. QED BY <3>4, <4>2
    <3>6. QED BY <1>2, <2>2, <3>5
  <2>5. QED BY <2>3, <2>4
<1>5. Trees \subseteq S
  <2>1. \A c \in Trees : (\A i \in DOMAIN c.args : c.args[i] \in S) => P(c)
    BY <1>1, <1>4
  <2>2. \A c \in Trees : (\A i \in DOMAIN c.args : c.args[i] \in S) => c \in S
    BY <2>1
  <2> HIDE DEF S
  <2>3. QED BY <2>2, TreeInduction
<1>6. QED BY <1>5

(* A text between two others.                                              *)
LEMMA LengthBetween ==
  ASSUME NEW T, NEW u \in Seq(T), NEW t \in T, NEW v \in Seq(T)
  PROVE  /\ Len(u \o <<t>> \o v) = Len(u) + 1 + Len(v) /\ Len(u) \in Nat /\ Len(v) \in Nat
         /\ u \o <<t>> \o v \in Seq(T)
<1>1. <<t>> \in Seq(T) /\ Len(<<t>>) = 1
  OBVIOUS
<1>2. u \o <<t>> \in Seq(T) /\ Len(u \o <<t>>) = Len(u) + 1
  BY <1>1, ConcatProperties
<1>3. QED BY <1>2, ConcatProperties

(* What is written of a list, with one token for a separator.              *)
Lists(f, t, tss) ==
  /\ Separated(<<t>>, tss) = f[Len(tss)]
  /\ \A i \in 1 .. Len(tss) : f[i] \in Seq(Tokens) /\ Len(f[i]) \in Nat
  /\ f[1] = tss[1]
  /\ \A i \in 1 .. Len(tss) - 1 :
       f[i + 1] = f[i] \o <<t>> \o tss[i + 1] /\ Len(f[i + 1]) = Len(f[i]) + 1 + Len(tss[i + 1])

(* It grows with every member.                                             *)
LEMMA ListsIs ==
  ASSUME NEW t \in Tokens, NEW tss \in Seq(Seq(Tokens)), Len(tss) >= 1
  PROVE  \E f : Lists(f, t, tss)
<1>1. PICK N \in Nat : N = Len(tss) /\ N >= 1
  OBVIOUS
<1>2. \A i \in 1 .. N : tss[i] \in Seq(Tokens)
  BY <1>1
<1>3. <<t>> \in Seq(Tokens)
  OBVIOUS
<1>4. PICK f : /\ Separates(f, <<t>>, tss) /\ Separated(<<t>>, tss) = f[N]
               /\ \A i \in 0 .. N : f[i] \in Seq(Tokens)
  BY <1>1, <1>3, SeparatedIs
<1>5. \A i \in 1 .. N : f[i] \in Seq(Tokens) /\ Len(f[i]) \in Nat
  BY <1>4
<1>6. f = [i \in 0 .. N |-> IF i = 0 THEN <<>>
                            ELSE IF i = 1 THEN tss[1] ELSE f[i - 1] \o <<t>> \o tss[i]]
  BY <1>1, <1>4 DEF Separates
<1>7. f[1] = tss[1]
  BY <1>1, <1>6
<1>8. ASSUME NEW i \in 1 .. N - 1
      PROVE  /\ f[i + 1] = f[i] \o <<t>> \o tss[i + 1]
             /\ Len(f[i + 1]) = Len(f[i]) + 1 + Len(tss[i + 1])
  <2>1. /\ i + 1 \in 0 .. N /\ i + 1 # 0 /\ i + 1 # 1 /\ (i + 1) - 1 = i
        /\ i \in 1 .. N /\ i + 1 \in 1 .. N
    BY <1>1
  <2>2. f[i + 1] = f[i] \o <<t>> \o tss[i + 1]
    BY <1>6, <2>1
  <2>3. f[i] \in Seq(Tokens) /\ tss[i + 1] \in Seq(Tokens)
    BY <1>2, <1>5, <2>1
  <2>4. QED BY <2>2, <2>3, LengthBetween
<1>9. QED BY <1>1, <1>4, <1>5, <1>7, <1>8 DEF Lists

(* A member is not longer than the list.                                   *)
LEMMA MemberShorter ==
  ASSUME NEW t \in Tokens, NEW tss \in Seq(Seq(Tokens))
  PROVE  \A i \in 1 .. Len(tss) : Len(tss[i]) <= Len(Separated(<<t>>, tss))
<1>1. SUFFICES ASSUME NEW i \in 1 .. Len(tss) PROVE Len(tss[i]) <= Len(Separated(<<t>>, tss))
  OBVIOUS
<1>2. PICK N \in Nat : N = Len(tss) /\ N >= 1 /\ i \in 1 .. N
  OBVIOUS
<1>3. \A j \in 1 .. N : Len(tss[j]) \in Nat
  BY <1>2
<1>4. PICK f : Lists(f, t, tss)
  BY <1>2, ListsIs
<1> DEFINE P(k) == k + 1 <= N => \A j \in 1 .. k + 1 : Len(tss[j]) <= Len(f[k + 1])
           K == {k \in Nat : P(k)}
<1>5. 0 \in K
  <2>1. Len(tss[1]) <= Len(f[1])
    BY <1>2, <1>3, <1>4 DEF Lists
  <2>2. \A j \in 1 .. 0 + 1 : j = 1
    OBVIOUS
  <2>3. QED BY <2>1, <2>2
<1>6. ASSUME NEW k \in Nat, k \in K PROVE k + 1 \in K
  <2>1. SUFFICES ASSUME (k + 1) + 1 <= N, NEW j \in 1 .. (k + 1) + 1
                 PROVE  Len(tss[j]) <= Len(f[(k + 1) + 1])
    OBVIOUS
  <2>2. /\ k + 1 \in 1 .. N - 1 /\ k + 1 <= N /\ k + 1 \in 1 .. N /\ (k + 1) + 1 \in 1 .. N
        /\ j \in 1 .. N /\ (j \in 1 .. k + 1 \/ j = (k + 1) + 1)
    BY <1>2, <2>1
  <2>3. Len(f[(k + 1) + 1]) = Len(f[k + 1]) + 1 + Len(tss[(k + 1) + 1]) /\ Len(f[k + 1]) \in Nat
    BY <1>2, <1>4, <2>2 DEF Lists
  <2>4. Len(tss[j]) \in Nat /\ Len(tss[(k + 1) + 1]) \in Nat
    BY <1>3, <2>2
  <2>5. j \in 1 .. k + 1 => Len(tss[j]) <= Len(f[k + 1])
    BY <1>6, <2>2
  <2>6. PICK p, q, r : p = Len(f[k + 1]) /\ q = Len(tss[(k + 1) + 1]) /\ r = Len(tss[j])
    OBVIOUS
  <2>7. p \in Nat /\ q \in Nat /\ r \in Nat /\ (r <= p \/ r = q)
    BY <2>2, <2>3, <2>4, <2>5, <2>6
  <2>8. r <= p + 1 + q
    BY <2>7
  <2>9. QED BY <2>3, <2>6, <2>8
<1>7. \A k \in Nat : k \in K
  <2> HIDE DEF K
  <2>1. QED BY <1>5, <1>6, Every
<1>8. N - 1 \in Nat /\ (N - 1) + 1 = N
  BY <1>2
<1>9. P(N - 1)
  BY <1>7, <1>8
<1>10. Len(tss[i]) <= Len(f[N])
  BY <1>2, <1>8, <1>9
<1>11. QED BY <1>2, <1>4, <1>10 DEF Lists

(* Expressions written one after the other, with pluses between them, are  *)
(* one of their sum.                                                       *)
LEMMA SumExpresses ==
  ASSUME NEW t \in Tokens, NEW ls \in Seq(Seq(Tokens)), NEW us \in Seq(Seq(Tokens)),
         NEW xs \in Seq(Doubles), Len(ls) >= 1, Len(us) = Len(ls), Len(xs) = Len(ls),
         \A i \in 1 .. Len(ls) : \E a : Expresses(a, Len(ls[i]) + 1, us[i], xs[i], 60),
         Len(Separated(<<t>>, ls)) < MaxHeight
  PROVE  \E d : Expresses(d, Len(Separated(<<t>>, ls)) + 1, Separated(<<"+">>, us), SumOf(xs), 60)
<1>1. PICK plus \in Tokens : plus = "+"
  BY PlusAdds DEF Tokens
<1>2. PICK N \in Nat : N = Len(ls) /\ N >= 1
  OBVIOUS
<1>3. PICK f : Lists(f, t, ls)
  BY ListsIs
<1>4. PICK g : Lists(g, plus, us)
  BY ListsIs
<1>5. PICK h \in [0 .. N -> Doubles] : /\ h[0] = <<0, 1>> /\ SumOf(xs) = h[N]
                                       /\ \A n \in 1 .. N : h[n] = Add(h[n - 1], xs[n])
  <2>1. \E h \in [0 .. Len(xs) -> Doubles] :
           /\ h[0] = <<0, 1>> /\ SumOf(xs) = h[Len(xs)]
           /\ \A n \in 1 .. Len(xs) : h[n] = Add(h[n - 1], xs[n])
    BY SumIs
  <2>2. QED BY <1>2, <2>1
<1>6. \A i \in 1 .. N : \E a : Expresses(a, Len(ls[i]) + 1, us[i], xs[i], 60)
  BY <1>2
<1>7. \A i \in 1 .. N : ls[i] \in Seq(Tokens) /\ Len(ls[i]) \in Nat /\ xs[i] \in Doubles
  BY <1>2
<1> DEFINE P(k) == k + 1 <= N /\ Len(f[k + 1]) < MaxHeight =>
                     \E d : Expresses(d, Len(f[k + 1]) + 1, g[k + 1], h[k + 1], 60)
           K == {k \in Nat : P(k)}
<1>8. 0 \in K
  <2>1. f[1] = ls[1] /\ g[1] = us[1]
    BY <1>3, <1>4 DEF Lists
  <2>2. 1 \in 1 .. N /\ 1 - 1 = 0 /\ 0 + 1 = 1
    BY <1>2
  <2>3. h[1] = xs[1]
    <3>1. h[1] = Add(h[0], xs[1])
      BY <1>5, <2>2
    <3>2. QED BY <1>5, <1>7, <2>2, <3>1, AddZero
  <2>4. \E d : Expresses(d, Len(f[1]) + 1, g[1], h[1], 60)
    BY <1>6, <2>1, <2>2, <2>3
  <2>5. QED BY <2>2, <2>4
<1>9. ASSUME NEW k \in Nat, P(k), (k + 1) + 1 <= N, Len(f[(k + 1) + 1]) < MaxHeight
      PROVE  \E d : Expresses(d, Len(f[(k + 1) + 1]) + 1, g[(k + 1) + 1], h[(k + 1) + 1], 60)
  <2>1. PICK i, j : i = k + 1 /\ j = (k + 1) + 1
    OBVIOUS
  <2>2. i \in 1 .. N - 1 /\ i \in 1 .. N /\ j \in 1 .. N /\ j = i + 1 /\ j - 1 = i /\ i <= N
    BY <1>2, <1>9, <2>1
  <2>3. f[j] = f[i] \o <<t>> \o ls[j] /\ Len(f[j]) = Len(f[i]) + 1 + Len(ls[j]) /\ Len(f[i]) \in Nat
    BY <1>2, <1>3, <2>2 DEF Lists
  <2>4. g[j] = g[i] \o <<plus>> \o us[j]
    BY <1>2, <1>4, <2>2 DEF Lists
  <2>5. h[j] = Add(h[i], xs[j])
    BY <1>5, <2>2
  <2>6. PICK m \in Nat, n \in Nat : m = Len(f[i]) /\ n = Len(ls[j])
    BY <1>7, <2>2, <2>3
  <2>7. Len(f[j]) = m + 1 + n /\ Len(f[j]) < MaxHeight
    BY <1>9, <2>1, <2>3, <2>6
  <2>8. m < MaxHeight /\ (m + 1) + (n + 1) = Len(f[j]) + 1 /\ (m + 1) + (n + 1) <= MaxHeight
    BY <2>7, LanguageAssumption
  <2>9. PICK a : Expresses(a, m + 1, g[i], h[i], 60)
    BY <1>9, <2>1, <2>2, <2>6, <2>8
  <2>10. PICK c : Expresses(c, n + 1, us[j], xs[j], 60)
    BY <1>6, <2>2, <2>6
  <2>11. c \in Trees
    BY <2>10, Expressed
  <2>12. \A y \in Trees : \A l, u, x :
           Expresses(y, l, u, x, 60) /\ (m + 1) + l <= MaxHeight =>
             \E d : Expresses(d, (m + 1) + l, g[i] \o <<"+">> \o u, Add(h[i], x), 60)
    BY <2>9, JoinExpresses
  <2>13. \E d : Expresses(d, (m + 1) + (n + 1), g[i] \o <<"+">> \o us[j], Add(h[i], xs[j]), 60)
    <3>1. PICK b, u, x : b = n + 1 /\ u = us[j] /\ x = xs[j] /\ Expresses(c, b, u, x, 60)
      BY <2>10
    <3>2. (m + 1) + b <= MaxHeight
      BY <2>8, <3>1
    <3>3. \E d : Expresses(d, (m + 1) + b, g[i] \o <<"+">> \o u, Add(h[i], x), 60)
      BY <2>11, <2>12, <3>1, <3>2
    <3>4. QED BY <3>1, <3>3
  <2>14. PICK d, l : l = (m + 1) + (n + 1) /\ Expresses(d, l, g[i] \o <<"+">> \o us[j], Add(h[i], xs[j]), 60)
    BY <2>13
  <2>15. l = Len(f[j]) + 1
    BY <2>8, <2>14
  <2>16. g[j] = g[i] \o <<"+">> \o us[j]
    BY <1>1, <2>4
  <2>17. Expresses(d, Len(f[j]) + 1, g[j], h[j], 60)
    BY <2>5, <2>14, <2>15, <2>16, Zenon
  <2>18. QED BY <2>1, <2>17, Zenon
<1>10. \A k \in Nat : k \in K
  <2>1. ASSUME NEW k \in Nat, k \in K PROVE k + 1 \in K
    <3>1. P(k)
      BY <2>1
    <3>2. ASSUME (k + 1) + 1 <= N, Len(f[(k + 1) + 1]) < MaxHeight
          PROVE  \E d : Expresses(d, Len(f[(k + 1) + 1]) + 1, g[(k + 1) + 1], h[(k + 1) + 1], 60)
      <4> HIDE DEF P
      <4>1. QED BY <1>9, <3>1, <3>2
    <3>3. P(k + 1) /\ k + 1 \in Nat
      BY <3>2
    <3> HIDE DEF P
    <3>4. QED BY <3>3
  <2> HIDE DEF K
  <2>2. QED BY <1>8, <2>1, Every
<1>11. N - 1 \in Nat /\ (N - 1) + 1 = N /\ N <= N
  BY <1>2
<1>12. P(N - 1)
  BY <1>10, <1>11
<1>13. Separated(<<t>>, ls) = f[N] /\ Separated(<<plus>>, us) = g[N]
  BY <1>2, <1>3, <1>4 DEF Lists
<1>14. \E d : Expresses(d, Len(f[N]) + 1, g[N], h[N], 60)
  BY <1>11, <1>12, <1>13
<1>15. QED BY <1>1, <1>5, <1>13, <1>14

-----------------------------------------------------------------------------
(* A tree that the property is about, written with fewer tokens than trees *)
(* may be high.                                                            *)
Expandable(e) ==
  /\ Plain(e) /\ Fitting(e) /\ Settled(e) /\ Summable(e)
  /\ Len(Represent[e]) < MaxHeight

(* Its expanded text is an expression of its value, that binds no less,    *)
(* and is at most one higher than the text of the tree is long.            *)
Expanded(e) ==
  \E x : Expresses(x, Len(Represent[e]) + 1, Expand[e], Value[e], Binds(e))

(* A part and its whole.                                                   *)
LEMMA NodesWithin ==
  ASSUME NEW e \in Trees, NEW i \in DOMAIN e.args
  PROVE  Nodes[e.args[i]] \subseteq Nodes[e]
BY NodesAre

(* Conditions on the nodes hold of the parts of a tree.                    *)
LEMMA ConditionsWithin ==
  ASSUME NEW e \in Trees, Settled(e), Summable(e), NEW i \in DOMAIN e.args
  PROVE  Settled(e.args[i]) /\ Summable(e.args[i])
<1>1. PICK a : a = e.args[i]
  OBVIOUS
<1>2. \A d \in Nodes[a] : d \in Nodes[e]
  BY <1>1, NodesWithin
<1>3. Settled(a)
  BY <1>2, Zenon DEF Settled
<1>4. Summable(a)
  BY <1>2, Zenon DEF Summable
<1>5. QED BY <1>1, <1>3, <1>4

(* How long the text of a tree is.                                         *)
LEMMA TextLength ==
  ASSUME NEW e \in Trees, Plain(e)
  PROVE  /\ Len(Represent[e]) \in Nat /\ Len(Represent[e]) >= 1
         /\ \A i \in DOMAIN e.args : /\ Len(Represent[e.args[i]]) \in Nat
                                     /\ Len(Represent[e.args[i]]) >= 1
         /\ e.kind = "unary" => Len(Represent[e]) = 1 + Len(Represent[e.args[1]])
         /\ e.kind = "parentheses" => Len(Represent[e]) = Len(Represent[e.args[1]]) + 2
         /\ e.kind = "binary" =>
              Len(Represent[e]) = Len(Represent[e.args[1]]) + 1 + Len(Represent[e.args[2]])
         /\ e.kind = "conditional" =>
              Len(Represent[e]) = Len(Represent[e.args[1]]) + 1 + Len(Represent[e.args[2]])
                                    + 1 + Len(Represent[e.args[3]])
<1>1. /\ Represent[e] \in Seq(Tokens) /\ Len(Represent[e]) >= 1
      /\ \A i \in DOMAIN e.args : /\ Represent[e.args[i]] \in Seq(Tokens)
                                  /\ Len(Represent[e.args[i]]) >= 1
  BY PartsPlain, TextOfTree
<1>2. ASSUME e.kind = "unary"
      PROVE  Len(Represent[e]) = 1 + Len(Represent[e.args[1]])
  <2>1. PICK t, w : t = e.text /\ w = Represent[e.args[1]]
    OBVIOUS
  <2>2. Represent[e] = <<t>> \o w /\ t \in PrefixOperators /\ 1 \in DOMAIN e.args
    BY <1>2, <2>1, WrittenAs, KindIs
  <2>3. t \in Tokens /\ w \in Seq(Tokens)
    BY <1>1, <2>1, <2>2 DEF Tokens
  <2>4. Len(<<t>> \o w) = 1 + Len(w)
    BY <2>3
  <2>5. QED BY <2>1, <2>2, <2>4
<1>3. ASSUME e.kind = "parentheses"
      PROVE  Len(Represent[e]) = Len(Represent[e.args[1]]) + 2
  <2>1. PICK w : w = Represent[e.args[1]]
    OBVIOUS
  <2>2. Represent[e] = Between(w) /\ 1 \in DOMAIN e.args
    BY <1>3, <2>1, WrittenAs, KindIs
  <2>3. Len(Between(w)) = Len(w) + 2
    BY <1>1, <2>1, <2>2, BetweenText
  <2>4. QED BY <2>1, <2>2, <2>3
<1>4. ASSUME e.kind = "binary"
      PROVE  Len(Represent[e]) = Len(Represent[e.args[1]]) + 1 + Len(Represent[e.args[2]])
  <2>1. PICK t, u, w : t = e.text /\ u = Represent[e.args[1]] /\ w = Represent[e.args[2]]
    OBVIOUS
  <2>2. Represent[e] = u \o <<t>> \o w /\ t \in BinaryOperators /\ 1 \in DOMAIN e.args /\ 2 \in DOMAIN e.args
    BY <1>4, <2>1, WrittenAs, KindIs
  <2>3. t \in Tokens /\ u \in Seq(Tokens) /\ w \in Seq(Tokens)
    BY <1>1, <2>1, <2>2 DEF Tokens
  <2>4. Len(u \o <<t>> \o w) = Len(u) + 1 + Len(w)
    BY <2>3, LengthBetween
  <2>5. QED BY <2>1, <2>2, <2>4
<1>5. ASSUME e.kind = "conditional"
      PROVE  Len(Represent[e]) = Len(Represent[e.args[1]]) + 1 + Len(Represent[e.args[2]])
                                      + 1 + Len(Represent[e.args[3]])
  <2>1. PICK s, t, u, v, w : /\ s = "?" /\ t = ":" /\ u = Represent[e.args[1]]
                             /\ v = Represent[e.args[2]] /\ w = Represent[e.args[3]]
    OBVIOUS
  <2>2. /\ Represent[e] = u \o <<s>> \o v \o <<t>> \o w
        /\ 1 \in DOMAIN e.args /\ 2 \in DOMAIN e.args /\ 3 \in DOMAIN e.args
    BY <1>5, <2>1, WrittenAs, KindIs
  <2>3. s \in Tokens /\ t \in Tokens
    BY <2>1 DEF Tokens
  <2>4. u \in Seq(Tokens) /\ v \in Seq(Tokens) /\ w \in Seq(Tokens)
    BY <1>1, <2>1, <2>2
  <2>5. Len(u \o <<s>> \o v) = Len(u) + 1 + Len(v) /\ u \o <<s>> \o v \in Seq(Tokens)
    BY <2>3, <2>4, LengthBetween
  <2>6. PICK z \in Seq(Tokens) : z = u \o <<s>> \o v
    BY <2>5
  <2>7. Len(z \o <<t>> \o w) = Len(z) + 1 + Len(w)
    BY <2>3, <2>4, LengthBetween
  <2>8. Len(Represent[e]) = Len(u) + 1 + Len(v) + 1 + Len(w)
    BY <2>2, <2>5, <2>6, <2>7
  <2>9. QED BY <2>1, <2>8
<1>6. Len(Represent[e]) \in Nat /\ \A i \in DOMAIN e.args : Len(Represent[e.args[i]]) \in Nat
  BY <1>1
<1>7. QED BY <1>1, <1>2, <1>3, <1>4, <1>5, <1>6, Zenon

(* How long the text of a call is.                                         *)
LEMMA CallLength ==
  ASSUME NEW e \in Trees, Plain(e), e.kind = "function"
  PROVE  \E t \in Tokens :
           /\ t = "," /\ Written(e.args) \in Seq(Seq(Tokens))
           /\ Len(Written(e.args)) = Len(e.args) /\ Len(e.args) \in Nat
           /\ DOMAIN e.args = 1 .. Len(e.args)
           /\ \A i \in 1 .. Len(e.args) : Written(e.args)[i] = Represent[e.args[i]]
           /\ Len(Separated(<<t>>, Written(e.args))) \in Nat
           /\ Len(Represent[e]) = Len(Separated(<<t>>, Written(e.args))) + 3
           /\ \A i \in 1 .. Len(e.args) :
                Len(Represent[e.args[i]]) <= Len(Separated(<<t>>, Written(e.args)))
<1>1. PICK t \in Tokens : t = ","
  BY DEF Tokens
<1>2. PICK f, ls, w, n : /\ f = e.text /\ ls = Written(e.args) /\ w = Separated(<<t>>, ls)
                         /\ n = Len(e.args)
  OBVIOUS
<1>3. ls \in Seq(Seq(Tokens))
  BY <1>2, TextOfTree
<1>4. n \in Nat /\ DOMAIN e.args = 1 .. n
  BY <1>2, TreesAre
<1>5. Len(ls) = n /\ \A i \in 1 .. n : ls[i] = Represent[e.args[i]]
  BY <1>2, <1>4 DEF Written
<1>6. f \in Tokens
  BY <1>2, KindIs DEF Tokens
<1>7. w \in Seq(Tokens)
  <2>1. <<t>> \in Seq(Tokens) /\ Len(ls) \in 0 .. Len(ls)
    BY <1>4, <1>5
  <2>2. PICK g : Separated(<<t>>, ls) = g[Len(ls)] /\ \A i \in 0 .. Len(ls) : g[i] \in Seq(Tokens)
    BY <1>3, <2>1, SeparatedIs
  <2>3. QED BY <1>2, <2>1, <2>2
<1>8. Represent[e] = <<f>> \o Between(w)
  BY <1>1, <1>2, WrittenAs
<1>9. Between(w) \in Seq(Tokens) /\ Len(Between(w)) = Len(w) + 2 /\ Len(w) \in Nat
  BY <1>7, BetweenText
<1>10. Len(<<f>> \o Between(w)) = Len(w) + 3
  <2>1. PICK u \in Seq(Tokens) : u = Between(w)
    BY <1>9
  <2>2. Len(<<f>> \o u) = 1 + Len(u)
    BY <1>6
  <2>3. QED BY <1>9, <2>1, <2>2
<1>11. \A i \in 1 .. n : Len(ls[i]) <= Len(w)
  BY <1>2, <1>3, <1>5, MemberShorter
<1>12. QED BY <1>1, <1>2, <1>3, <1>4, <1>5, <1>8, <1>9, <1>10, <1>11

(* What Value and Expand say of a tree.                                    *)
LEMMA ExpandAndValue ==
  ASSUME NEW e \in Trees
  PROVE  \E r, v :
           /\ Expand[e] = ExpandOf(e, r) /\ Value[e] = ValueOf(e, v)
           /\ r = OfParts(Expand, e) /\ v = OfParts(Value, e)
           /\ \A i \in DOMAIN e.args : r[i] = Expand[e.args[i]] /\ v[i] = Value[e.args[i]]
<1>1. PICK r, v : r = OfParts(Expand, e) /\ v = OfParts(Value, e)
  OBVIOUS
<1>2. Expand[e] = ExpandOf(e, r) /\ Value[e] = ValueOf(e, v)
  BY <1>1, ExpandIs, ValueIs
<1>3. \A i \in DOMAIN e.args : r[i] = Expand[e.args[i]] /\ v[i] = Value[e.args[i]]
  BY <1>1 DEF OfParts
<1>4. QED BY <1>1, <1>2, <1>3

(* An expression is one of a greater height and a lower level.             *)
LEMMA ExpressesLess ==
  ASSUME NEW x, NEW n, NEW w, NEW v, NEW b, Expresses(x, n, w, v, b), b \in Nat,
         NEW m \in Nat, n <= m, m <= MaxHeight, NEW c \in Nat, c <= b
  PROVE  Expresses(x, m, w, v, c)
<1>1. Binds(x) >= b /\ Binds(x) \in Nat
  BY NextLevel DEF Expresses
<1>2. Binds(x) >= c
  BY <1>1
<1>3. QED BY <1>2, ExpressesMore

(* A literal.                                                              *)
LEMMA LiteralExpands ==
  ASSUME NEW e \in Trees, Expandable(e), e.kind = "literal"
  PROVE  Expanded(e)
<1>1. PICK l \in Literals : l = e.text
  BY KindIs
<1>2. PICK r, v : Expand[e] = ExpandOf(e, r) /\ Value[e] = ValueOf(e, v)
  BY ExpandAndValue
<1>3. Shown[l] = <<l>>
  BY <1>1, PlainIs DEF Expandable
<1>4. Expand[e] = <<l>> /\ Value[e] = Amount[l]
  BY <1>1, <1>2, <1>3 DEF ExpandOf, RepresentOf, ValueOf
<1>5. PICK n \in Nat : n = Len(Represent[e]) + 1 /\ n >= 1 /\ n <= MaxHeight
  BY TextLength, LanguageAssumption DEF Expandable
<1>6. Binds(e) = 80
  BY DEF Binds
<1>7. \E x : Expresses(x, n, <<l>>, Amount[l], 80)
  BY <1>3, <1>5, LiteralExpresses
<1>8. QED BY <1>4, <1>5, <1>6, <1>7 DEF Expanded

(* A value that is written as a literal, or as one behind a minus.         *)
LEMMA ValueExpressed ==
  ASSUME NEW x \in Doubles, LiteralsOf(x) # {},
         \A l \in LiteralsOf(x) : \E k \in Literals :
           Amount[k] = Amount[l] /\ Shown[l] = <<k>> /\ Shown[k] = <<k>>,
         2 <= MaxHeight
  PROVE  \E d : Expresses(d, 2, RepresentValue(x), x, 80)
<1>1. PICK l : l = CHOOSE k \in LiteralsOf(x) : TRUE
  OBVIOUS
<1>2. l \in LiteralsOf(x)
  BY <1>1
<1>3. l \in Literals /\ Amount[l] \in {x, Negative(x)}
  BY <1>2 DEF LiteralsOf
<1>4. PICK k \in Literals : Amount[k] = Amount[l] /\ Shown[l] = <<k>> /\ Shown[k] = <<k>>
  BY <1>2
<1>5. RepresentValue(x) = IF Amount[l] = x THEN Shown[l] ELSE <<"-">> \o Shown[l]
  BY <1>1 DEF RepresentValue
<1>6. CASE Amount[l] = x
  <2>1. RepresentValue(x) = <<k>> /\ Amount[k] = x /\ 2 \in Nat /\ 2 >= 1
    BY <1>4, <1>5, <1>6
  <2>2. Expresses(Node("literal", k, <<>>), 2, <<k>>, Amount[k], 80)
    BY <1>4, <2>1, LiteralExpresses
  <2>3. QED BY <2>1, <2>2
<1>7. CASE Amount[l] # x
  <2>1. PICK o \in PrefixOperators : o = "-"
    BY DEF PrefixOperators
  <2>2. RepresentValue(x) = <<o>> \o <<k>> /\ Amount[k] = Negative(x)
    BY <1>3, <1>4, <1>5, <1>7, <2>1
  <2>3. PICK d : d = Node("literal", k, <<>>)
    OBVIOUS
  <2>4. 1 \in Nat /\ 1 >= 1 /\ 1 <= MaxHeight /\ 1 + 1 = 2
    BY LanguageAssumption
  <2>5. Expresses(d, 1, <<k>>, Amount[k], 80)
    BY <1>4, <2>3, <2>4, LiteralExpresses
  <2>6. Expresses(Node("unary", o, <<d>>), 1 + 1, <<o>> \o <<k>>, Unary(o, Amount[k]), 80)
    BY <2>4, <2>5, UnaryExpresses
  <2>7. Unary(o, Amount[k]) = x
    BY <2>1, <2>2, TwiceNegative DEF Unary
  <2>8. QED BY <2>2, <2>4, <2>6, <2>7
<1>8. QED BY <1>6, <1>7

(* A variable.                                                             *)
LEMMA VariableExpands ==
  ASSUME NEW e \in Trees, Expandable(e), e.kind = "variable"
  PROVE  Expanded(e)
<1>1. PICK x \in Doubles : x = Setting[e.text]
  BY KindIs, LanguageAssumption
<1>2. PICK r, v : Expand[e] = ExpandOf(e, r) /\ Value[e] = ValueOf(e, v)
  BY ExpandAndValue
<1>3. Expand[e] = RepresentValue(x) /\ Value[e] = x
  BY <1>1, <1>2 DEF ExpandOf, ValueOf
<1>4. e \in Nodes[e]
  BY NodesAre
<1>5. /\ LiteralsOf(x) # {}
      /\ \A l \in LiteralsOf(x) : \E k \in Literals :
           Amount[k] = Amount[l] /\ Shown[l] = <<k>> /\ Shown[k] = <<k>>
  BY <1>1, <1>4 DEF Expandable, Settled
<1>6. Len(Represent[e]) = 1
  <2>1. Represent[e] = <<e.text>>
    BY WrittenAs DEF Expandable
  <2>2. QED BY <2>1
<1>7. Len(Represent[e]) + 1 = 2 /\ 2 <= MaxHeight
  BY <1>6, LanguageAssumption DEF Expandable
<1>8. Binds(e) = 80
  BY DEF Binds
<1>9. \E d : Expresses(d, 2, RepresentValue(x), x, 80)
  BY <1>5, <1>7, ValueExpressed
<1>10. QED BY <1>3, <1>7, <1>8, <1>9 DEF Expanded

(* An operator and what it is before.                                      *)
LEMMA UnaryExpands ==
  ASSUME NEW e \in Trees, Expandable(e), e.kind = "unary", Expanded(e.args[1])
  PROVE  Expanded(e)
<1>1. PICK a, o, n : a = e.args[1] /\ o = e.text /\ n = Len(Represent[a])
  OBVIOUS
<1>2. o \in PrefixOperators /\ 1 \in DOMAIN e.args
  BY <1>1, KindIs
<1>3. PICK r, v : /\ Expand[e] = ExpandOf(e, r) /\ Value[e] = ValueOf(e, v)
                  /\ r[1] = Expand[a] /\ v[1] = Value[a]
  BY <1>1, <1>2, ExpandAndValue
<1>4. Expand[e] = <<o>> \o Expand[a] /\ Value[e] = Unary(o, Value[a])
  BY <1>1, <1>3 DEF ExpandOf, RepresentOf, ValueOf
<1>5. n \in Nat /\ Len(Represent[e]) = 1 + n /\ (n + 1) + 1 <= MaxHeight
  <2>1. n \in Nat /\ Len(Represent[e]) = 1 + n
    BY <1>1, <1>2, TextLength DEF Expandable
  <2>2. 1 + n < MaxHeight
    BY <2>1 DEF Expandable
  <2>3. QED BY <2>1, <2>2, LanguageAssumption
<1>6. Binds(a) = 80 /\ Binds(e) = 80
  <2>1. Fits(e)
    BY FittingIs DEF Expandable
  <2>2. QED BY <1>1, <2>1 DEF Fits, Binds
<1>7. PICK x : Expresses(x, n + 1, Expand[a], Value[a], 80)
  BY <1>1, <1>6 DEF Expanded
<1>8. \E d : Expresses(d, (n + 1) + 1, <<o>> \o Expand[a], Unary(o, Value[a]), 80)
  BY <1>2, <1>5, <1>7, UnaryExpresses
<1>9. (n + 1) + 1 = Len(Represent[e]) + 1
  BY <1>5
<1>10. QED BY <1>4, <1>6, <1>8, <1>9 DEF Expanded

(* Parentheses.                                                            *)
LEMMA ParenthesesExpand ==
  ASSUME NEW e \in Trees, Expandable(e), e.kind = "parentheses", Expanded(e.args[1])
  PROVE  Expanded(e)
<1>1. PICK a, n, b : a = e.args[1] /\ n = Len(Represent[a]) /\ b = Binds(a)
  OBVIOUS
<1>2. 1 \in DOMAIN e.args
  BY KindIs
<1>3. PICK r, v : /\ Expand[e] = ExpandOf(e, r) /\ Value[e] = ValueOf(e, v)
                  /\ r[1] = Expand[a] /\ v[1] = Value[a]
  BY <1>1, <1>2, ExpandAndValue
<1>4. Expand[e] = Between(Expand[a]) /\ Value[e] = Value[a]
  BY <1>1, <1>3 DEF ExpandOf, RepresentOf, ValueOf, RepresentParentheses
<1>5. n \in Nat /\ Len(Represent[e]) = n + 2 /\ (n + 1) + 1 <= MaxHeight /\ n + 3 <= MaxHeight
  <2>1. n \in Nat /\ Len(Represent[e]) = n + 2
    BY <1>1, <1>2, TextLength DEF Expandable
  <2>2. n + 2 < MaxHeight
    BY <2>1 DEF Expandable
  <2>3. QED BY <2>1, <2>2, LanguageAssumption
<1>6. Binds(e) = 80
  BY DEF Binds
<1>7. PICK x : Expresses(x, n + 1, Expand[a], Value[a], b)
  BY <1>1 DEF Expanded
<1>8. PICK d : Expresses(d, (n + 1) + 1, Between(Expand[a]), Value[a], 80)
  BY <1>5, <1>7, ParenthesesExpress
<1>9. /\ (n + 1) + 1 <= Len(Represent[e]) + 1 /\ Len(Represent[e]) + 1 <= MaxHeight
      /\ Len(Represent[e]) + 1 \in Nat /\ 80 \in Nat /\ 80 <= 80
  BY <1>5
<1>10. Expresses(d, Len(Represent[e]) + 1, Between(Expand[a]), Value[a], 80)
  BY <1>8, <1>9, ExpressesLess
<1>11. QED BY <1>4, <1>6, <1>10 DEF Expanded

(* An operator between two trees.                                          *)
LEMMA BinaryExpands ==
  ASSUME NEW e \in Trees, Expandable(e), e.kind = "binary",
         Expanded(e.args[1]), Expanded(e.args[2])
  PROVE  Expanded(e)
<1>1. PICK a, c, o, m, n, l : /\ a = e.args[1] /\ c = e.args[2] /\ o = e.text /\ l = Level(o)
                              /\ m = Len(Represent[a]) /\ n = Len(Represent[c])
  OBVIOUS
<1>2. o \in BinaryOperators /\ 1 \in DOMAIN e.args /\ 2 \in DOMAIN e.args
  BY <1>1, KindIs
<1>3. PICK r, v : /\ Expand[e] = ExpandOf(e, r) /\ Value[e] = ValueOf(e, v)
                  /\ r[1] = Expand[a] /\ v[1] = Value[a] /\ r[2] = Expand[c] /\ v[2] = Value[c]
  BY <1>1, <1>2, ExpandAndValue
<1>4. Expand[e] = Expand[a] \o <<o>> \o Expand[c] /\ Value[e] = Binary(o, Value[a], Value[c])
  BY <1>1, <1>3 DEF ExpandOf, RepresentOf, ValueOf
<1>5. m \in Nat /\ n \in Nat /\ Len(Represent[e]) = m + 1 + n
  BY <1>1, <1>2, TextLength DEF Expandable
<1>6. PICK h \in Nat : /\ h = m + 1 + n /\ h + 1 <= MaxHeight /\ h <= MaxHeight
                       /\ m + 1 <= h /\ n + 1 <= h
  <2>1. m + 1 + n < MaxHeight
    BY <1>5 DEF Expandable
  <2>2. QED BY <1>5, <2>1, LanguageAssumption
<1>7. l \in {20, 30, 40, 50, 60, 70} /\ Binds(e) = l
  BY <1>1, <1>2, LevelsAre DEF Binds
<1>8. Binds(a) >= l /\ Binds(c) >= l + 10 /\ Binds(a) \in Nat /\ Binds(c) \in Nat
  <2>1. Fits(e)
    BY FittingIs DEF Expandable
  <2>2. Binds(a) >= l /\ Binds(c) > l
    BY <1>1, <2>1 DEF Fits
  <2>3. QED BY <1>7, <2>2, NextLevel
<1>9. PICK x, y : /\ Expresses(x, m + 1, Expand[a], Value[a], Binds(a))
                  /\ Expresses(y, n + 1, Expand[c], Value[c], Binds(c))
  BY <1>1 DEF Expanded
<1>10. Expresses(x, h, Expand[a], Value[a], Level(o)) /\ Expresses(y, h, Expand[c], Value[c], Level(o) + 10)
  <2>1. l \in Nat /\ l + 10 \in Nat
    BY <1>7
  <2>2. Expresses(x, h, Expand[a], Value[a], l)
    BY <1>6, <1>8, <1>9, <2>1, ExpressesLess
  <2>3. Expresses(y, h, Expand[c], Value[c], l + 10)
    BY <1>6, <1>8, <1>9, <2>1, ExpressesLess
  <2>4. QED BY <1>1, <2>2, <2>3
<1>11. \E d : Expresses(d, h + 1, Expand[a] \o <<o>> \o Expand[c], Binary(o, Value[a], Value[c]), Level(o))
  BY <1>2, <1>6, <1>10, BinaryExpressed
<1>12. h + 1 = Len(Represent[e]) + 1 /\ Level(o) = Binds(e)
  BY <1>1, <1>5, <1>6, <1>7
<1>13. QED BY <1>4, <1>11, <1>12 DEF Expanded

(* A branch of a conditional.                                              *)
LEMMA ConditionalExpands ==
  ASSUME NEW e \in Trees, Expandable(e), e.kind = "conditional",
         Expanded(e.args[2]), Expanded(e.args[3])
  PROVE  Expanded(e)
<1>1. PICK r, v : /\ Expand[e] = ExpandOf(e, r) /\ Value[e] = ValueOf(e, v) /\ v = OfParts(Value, e)
                  /\ \A i \in DOMAIN e.args : r[i] = Expand[e.args[i]] /\ v[i] = Value[e.args[i]]
  BY ExpandAndValue
<1>2. 1 \in DOMAIN e.args /\ 2 \in DOMAIN e.args /\ 3 \in DOMAIN e.args
  BY KindIs
<1>3. /\ Expand[e] = IF Test(v[1]) THEN r[2] ELSE r[3]
      /\ Value[e] = IF Test(v[1]) THEN v[2] ELSE v[3]
  BY <1>1 DEF ExpandOf, ValueOf
<1>4. PICK i \in {2, 3} : Expand[e] = r[i] /\ Value[e] = v[i]
  BY <1>3
<1>5. PICK a : a = e.args[i]
  OBVIOUS
<1>6. Expand[e] = Expand[a] /\ Value[e] = Value[a] /\ Expanded(a) /\ a \in Trees
  BY <1>1, <1>2, <1>4, <1>5, TreesAre
<1>7. /\ Len(Represent[a]) + 1 <= Len(Represent[e]) + 1 /\ Len(Represent[e]) + 1 \in Nat
      /\ Len(Represent[e]) + 1 <= MaxHeight
  <2>1. PICK j, k, l, n : /\ j = Len(Represent[e.args[1]]) /\ k = Len(Represent[e.args[2]])
                          /\ l = Len(Represent[e.args[3]]) /\ n = Len(Represent[e])
    OBVIOUS
  <2>2. j \in Nat /\ k \in Nat /\ l \in Nat /\ n = j + 1 + k + 1 + l
    BY <1>2, <2>1, TextLength DEF Expandable
  <2>3. n < MaxHeight
    BY <2>1 DEF Expandable
  <2>4. k + 1 <= n + 1 /\ l + 1 <= n + 1 /\ n + 1 \in Nat /\ n + 1 <= MaxHeight
    BY <2>2, <2>3, LanguageAssumption
  <2>5. QED BY <1>5, <2>1, <2>4
<1>8. Binds(e) = 10 /\ Binds(a) \in Nat /\ 10 <= Binds(a) /\ 10 \in Nat
  <2>1. Binds(e) = 10
    BY DEF Binds
  <2>2. QED BY <1>6, <2>1, BindsAtLeast, NextLevel
<1>9. PICK x : Expresses(x, Len(Represent[a]) + 1, Expand[a], Value[a], Binds(a))
  BY <1>6 DEF Expanded
<1>10. Expresses(x, Len(Represent[e]) + 1, Expand[a], Value[a], 10)
  BY <1>7, <1>8, <1>9, ExpressesLess
<1>11. QED BY <1>6, <1>8, <1>10 DEF Expanded

(* A call that picks an argument, or none.                                 *)
LEMMA PickExpands ==
  ASSUME NEW e \in Trees, Expandable(e), e.kind = "function", e.text # "sum",
         \A i \in DOMAIN e.args : Expanded(e.args[i])
  PROVE  Expanded(e)
<1>1. PICK r, v : /\ Expand[e] = ExpandOf(e, r) /\ Value[e] = ValueOf(e, v) /\ v = OfParts(Value, e)
                  /\ \A i \in DOMAIN e.args : r[i] = Expand[e.args[i]] /\ v[i] = Value[e.args[i]]
  BY ExpandAndValue
<1>2. PICK p, n, l : p = Picked(e.text, v) /\ n = Len(e.args) /\ l = Len(Represent[e])
  OBVIOUS
<1>3. PICK t \in Tokens :
        /\ Len(e.args) \in Nat /\ DOMAIN e.args = 1 .. Len(e.args)
        /\ Len(Separated(<<t>>, Written(e.args))) \in Nat
        /\ Len(Represent[e]) = Len(Separated(<<t>>, Written(e.args))) + 3
        /\ \A i \in 1 .. Len(e.args) :
             Len(Represent[e.args[i]]) <= Len(Separated(<<t>>, Written(e.args)))
  BY CallLength DEF Expandable
<1>4. p \in 0 .. n
  <2>1. Len(v) = n /\ n \in Nat
    BY <1>1, <1>2, <1>3 DEF OfParts
  <2>2. e.text \in Functions \ {"sum"}
    BY KindIs
  <2>3. Picked(e.text, v) \in 0 .. Len(v)
    BY <2>1, <2>2, Picks
  <2>4. QED BY <1>2, <2>1, <2>3
<1>5. /\ Expand[e] = IF p = 0 THEN <<"NaN">> ELSE Between(r[p])
      /\ Value[e] = IF p = 0 THEN NaN ELSE v[p]
  <2>1. Expand[e] = RepresentCall(e.text, r, v)
    BY <1>1 DEF ExpandOf
  <2>2. Value[e] = Evaluate(e.text, v)
    BY <1>1 DEF ValueOf
  <2>3. QED BY <1>2, <2>1, <2>2 DEF RepresentCall, Evaluate
<1>6. Binds(e) = 80
  BY DEF Binds
<1>7. l \in Nat /\ l >= 3 /\ l < MaxHeight /\ l + 1 \in Nat /\ l + 1 >= 1 /\ l + 1 <= MaxHeight
  <2>1. l < MaxHeight
    BY <1>2 DEF Expandable
  <2>2. l \in Nat /\ l >= 3
    BY <1>2, <1>3
  <2>3. QED BY <2>1, <2>2, LanguageAssumption
<1>8. CASE p = 0
  <2>1. PICK k \in Literals : k = "NaN" /\ Shown[k] = <<k>> /\ Amount[k] = NaN
    BY LanguageAssumption
  <2>2. \E x : Expresses(x, l + 1, <<k>>, Amount[k], 80)
    BY <1>7, <2>1, LiteralExpresses
  <2>3. Expand[e] = <<k>> /\ Value[e] = Amount[k]
    BY <1>5, <1>8, <2>1
  <2>4. QED BY <1>2, <1>6, <2>2, <2>3 DEF Expanded
<1>9. CASE p # 0
  <2>1. p \in DOMAIN e.args /\ p \in 1 .. Len(e.args)
    BY <1>2, <1>3, <1>4, <1>9
  <2>2. PICK a, m, b : a = e.args[p] /\ m = Len(Represent[a]) /\ b = Binds(a)
    OBVIOUS
  <2>3. Expand[e] = Between(Expand[a]) /\ Value[e] = Value[a]
    BY <1>1, <1>5, <1>9, <2>1, <2>2
  <2>4. m \in Nat
    BY <2>1, <2>2, TextLength DEF Expandable
  <2>5. m + 3 <= l
    BY <1>2, <1>3, <2>1, <2>2, <2>4
  <2>6. (m + 1) + 1 <= l + 1 /\ (m + 1) + 1 <= MaxHeight /\ 80 \in Nat /\ 80 <= 80
    BY <1>7, <2>4, <2>5, LanguageAssumption
  <2>7. PICK x : Expresses(x, m + 1, Expand[a], Value[a], b)
    BY <2>1, <2>2 DEF Expanded
  <2>8. PICK d : Expresses(d, (m + 1) + 1, Between(Expand[a]), Value[a], 80)
    BY <2>6, <2>7, ParenthesesExpress
  <2>9. Expresses(d, l + 1, Between(Expand[a]), Value[a], 80)
    BY <1>7, <2>6, <2>8, ExpressesLess
  <2>10. QED BY <1>2, <1>6, <2>3, <2>9 DEF Expanded
<1>10. QED BY <1>8, <1>9

(* A function on the first numbers is a sequence of its values.            *)
LEMMA OfMembers ==
  \A T, f, n : /\ n \in Nat
              /\ f = [i \in 1 .. n |-> f[i]]
              /\ (\A i \in 1 .. n : f[i] \in T)
    => f \in Seq(T) /\ Len(f) = n
<1> SUFFICES ASSUME NEW T, NEW f, NEW n, n \in Nat, f = [i \in 1 .. n |-> f[i]],
                    \A i \in 1 .. n : f[i] \in T
             PROVE  f \in Seq(T) /\ Len(f) = n
  OBVIOUS
<1>1. f \in [1 .. n -> T]
  OBVIOUS
<1>2. f \in Seq(T)
  BY <1>1
<1>3. DOMAIN f = 1 .. n
  BY <1>1
<1>4. QED BY <1>2, <1>3, LenProperties

(* A sum: its arguments one after the other.                               *)
LEMMA SumExpands ==
  ASSUME NEW e \in Trees, Expandable(e), e.kind = "function", e.text = "sum",
         \A i \in DOMAIN e.args : Expanded(e.args[i])
  PROVE  Expanded(e)
<1>1. PICK r, v : /\ Expand[e] = ExpandOf(e, r) /\ Value[e] = ValueOf(e, v)
                  /\ r = OfParts(Expand, e) /\ v = OfParts(Value, e)
                  /\ \A i \in DOMAIN e.args : r[i] = Expand[e.args[i]] /\ v[i] = Value[e.args[i]]
  BY ExpandAndValue
<1>2. PICK ls, n : ls = Written(e.args) /\ n = Len(e.args)
  OBVIOUS
<1>3. PICK t \in Tokens :
        /\ ls \in Seq(Seq(Tokens)) /\ Len(ls) = n /\ n \in Nat /\ DOMAIN e.args = 1 .. n
        /\ \A i \in 1 .. n : ls[i] = Represent[e.args[i]]
        /\ Len(Separated(<<t>>, ls)) \in Nat
        /\ Len(Represent[e]) = Len(Separated(<<t>>, ls)) + 3
  BY <1>2, CallLength DEF Expandable
<1>4. PICK w, m : w = Separated(<<t>>, ls) /\ m = Len(w)
  OBVIOUS
<1>5. m \in Nat /\ Len(Represent[e]) = m + 3 /\ m + 3 < MaxHeight
  BY <1>3, <1>4 DEF Expandable
<1>6. m < MaxHeight /\ (m + 1) + 1 <= MaxHeight /\ (m + 3) + 1 <= MaxHeight
  BY <1>5, LanguageAssumption
<1>7. Expand[e] = Between(Separated(<<"+">>, r)) /\ Value[e] = SumOf(v)
  <2>1. Expand[e] = RepresentCall(e.text, r, v) /\ Value[e] = Evaluate(e.text, v)
    BY <1>1 DEF ExpandOf, ValueOf
  <2>2. QED BY <2>1 DEF RepresentCall, Evaluate
<1>8. /\ e.args # <<>>
      /\ \A i \in DOMAIN e.args : e.args[i].kind # "conditional" /\ Priority(e.args[i]) >= Level("+")
  <2>1. e \in Nodes[e]
    BY NodesAre
  <2>2. QED BY <2>1 DEF Expandable, Summable
<1>9. n >= 1
  <2>1. e.args \in Seq(Trees)
    BY TreesAre
  <2>2. n # 0
    BY <1>2, <1>8, <2>1
  <2>3. QED BY <1>3, <2>2
<1>10. ASSUME NEW i \in 1 .. n
       PROVE  \E a : Expresses(a, Len(ls[i]) + 1, r[i], v[i], 60)
  <2>1. PICK a : a = e.args[i] /\ a \in Trees /\ Expanded(a)
    BY <1>3, TreesAre
  <2>2. a.kind # "conditional" /\ Priority(a) >= 60
    BY <1>3, <1>8, <2>1, PlusAdds
  <2>3. Binds(a) >= 60
    BY <2>2 DEF Binds, Priority
  <2>4. PICK x : Expresses(x, Len(Represent[a]) + 1, Expand[a], Value[a], Binds(a))
    BY <2>1 DEF Expanded
  <2>5. Expresses(x, Len(Represent[a]) + 1, Expand[a], Value[a], 60)
    <3>1. PICK k \in Nat : k = Len(Represent[a]) + 1 /\ k <= MaxHeight
      BY <2>4 DEF Expresses
    <3>2. Binds(a) \in Nat /\ 60 \in Nat /\ 60 <= Binds(a) /\ k <= k
      BY <2>3, NextLevel
    <3>3. Expresses(x, k, Expand[a], Value[a], 60)
      BY <2>4, <3>1, <3>2, ExpressesLess
    <3>4. QED BY <3>1, <3>3
  <2>6. ls[i] = Represent[a] /\ r[i] = Expand[a] /\ v[i] = Value[a]
    BY <1>1, <1>3, <2>1
  <2>7. QED BY <2>5, <2>6
<1>11. r \in Seq(Seq(Tokens)) /\ Len(r) = n /\ v \in Seq(Doubles) /\ Len(v) = n
  <2>1. \A i \in 1 .. n : r[i] \in Seq(Tokens) /\ v[i] \in Doubles
    BY <1>10, Expressed
  <2>2. DOMAIN r = 1 .. n /\ DOMAIN v = 1 .. n
    BY <1>1, <1>3 DEF OfParts
  <2>3. r = [i \in 1 .. n |-> r[i]] /\ v = [i \in 1 .. n |-> v[i]]
    BY <1>1, <1>3 DEF OfParts
  <2>4. n \in Nat
    BY <1>3
  <2>5. r \in Seq(Seq(Tokens)) /\ Len(r) = n
    <3>1. PICK T : T = Seq(Tokens)
      OBVIOUS
    <3>2. \A i \in 1 .. n : r[i] \in T
      BY <2>1, <3>1
    <3>3. r \in Seq(T) /\ Len(r) = n
      BY <2>3, <2>4, <3>2, OfMembers
    <3>4. QED BY <3>1, <3>3
  <2>6. v \in Seq(Doubles) /\ Len(v) = n
    BY <2>1, <2>3, <2>4, OfMembers
  <2>7. QED BY <2>5, <2>6
<1>12. \E d : Expresses(d, m + 1, Separated(<<"+">>, r), SumOf(v), 60)
  <2>1. \A i \in 1 .. Len(ls) : \E a : Expresses(a, Len(ls[i]) + 1, r[i], v[i], 60)
    BY <1>3, <1>10
  <2>2. Len(Separated(<<t>>, ls)) < MaxHeight
    BY <1>4, <1>6
  <2>3. \E d : Expresses(d, Len(Separated(<<t>>, ls)) + 1, Separated(<<"+">>, r), SumOf(v), 60)
    BY <1>3, <1>9, <1>11, <2>1, <2>2, SumExpresses
  <2>4. QED BY <1>4, <2>3
<1>13. PICK d, u, x : /\ Expresses(d, m + 1, u, x, 60)
                      /\ u = Separated(<<"+">>, r) /\ x = SumOf(v)
  BY <1>12
<1>14. PICK p : Expresses(p, (m + 1) + 1, Between(u), x, 80)
  BY <1>6, <1>13, ParenthesesExpress
<1>15. Expresses(p, (m + 3) + 1, Between(u), x, 80)
  <2>1. (m + 3) + 1 \in Nat /\ (m + 1) + 1 <= (m + 3) + 1 /\ 80 \in Nat /\ 80 <= 80
    BY <1>5
  <2>2. QED BY <1>6, <1>14, <2>1, ExpressesLess
<1>16. Binds(e) = 80
  BY DEF Binds
<1>17. QED BY <1>5, <1>7, <1>13, <1>15, <1>16 DEF Expanded

(* A part is written with no more tokens than the tree.                    *)
LEMMA PartShorter ==
  ASSUME NEW e \in Trees, Plain(e), NEW i \in DOMAIN e.args
  PROVE  Len(Represent[e.args[i]]) \in Nat /\ Len(Represent[e.args[i]]) <= Len(Represent[e])
<1>1. PICK l \in Nat, k \in Nat : l = Len(Represent[e]) /\ k = Len(Represent[e.args[i]])
  <2>1. Len(Represent[e]) \in Nat /\ Len(Represent[e.args[i]]) \in Nat
    BY TextLength
  <2>2. QED BY <2>1
<1>2. CASE e.kind \in {"unary", "parentheses"}
  <2>1. i = 1
    BY <1>2, KindIs
  <2>2. l = 1 + k \/ l = k + 2
    BY <1>1, <1>2, <2>1, TextLength
  <2>3. k <= l
    BY <2>2
  <2>4. QED BY <1>1, <2>3
<1>3. CASE e.kind = "binary"
  <2>1. i \in {1, 2} /\ 1 \in DOMAIN e.args /\ 2 \in DOMAIN e.args
    BY <1>3, KindIs
  <2>2. PICK m \in Nat, n \in Nat : m = Len(Represent[e.args[1]]) /\ n = Len(Represent[e.args[2]])
    BY <2>1, TextLength
  <2>3. l = m + 1 + n
    BY <1>1, <1>3, <2>2, TextLength
  <2>4. m <= l /\ n <= l
    BY <2>3
  <2>5. QED BY <1>1, <2>1, <2>2, <2>4
<1>4. CASE e.kind = "conditional"
  <2>1. i \in {1, 2, 3} /\ 1 \in DOMAIN e.args /\ 2 \in DOMAIN e.args /\ 3 \in DOMAIN e.args
    BY <1>4, KindIs
  <2>2. PICK m \in Nat, n \in Nat, o \in Nat :
          /\ m = Len(Represent[e.args[1]]) /\ n = Len(Represent[e.args[2]])
          /\ o = Len(Represent[e.args[3]])
    BY <2>1, TextLength
  <2>3. l = m + 1 + n + 1 + o
    BY <1>1, <1>4, <2>2, TextLength
  <2>4. m <= l /\ n <= l /\ o <= l
    BY <2>3
  <2>5. QED BY <1>1, <2>1, <2>2, <2>4
<1>5. CASE e.kind = "function"
  <2>1. PICK m \in Nat : l = m + 3 /\ k <= m
    BY <1>1, <1>5, CallLength
  <2>2. k <= l
    BY <2>1
  <2>3. QED BY <1>1, <2>2
<1>6. CASE e.kind \in {"literal", "variable"}
  <2>1. e.args = <<>>
    BY <1>1, <1>6, WrittenAs
  <2>2. DOMAIN e.args = {}
    BY <2>1
  <2>3. QED BY <2>2
<1>7. QED BY <1>2, <1>3, <1>4, <1>5, <1>6, KindIs

(* So does every tree.                                                     *)
LEMMA TreesExpand ==
  \A e \in Trees : Expandable(e) => Expanded(e)
<1> DEFINE S == {e \in Trees : Expandable(e) => Expanded(e)}
<1>1. ASSUME NEW e \in Trees, \A i \in DOMAIN e.args : e.args[i] \in S, Expandable(e)
      PROVE  Expanded(e)
  <2>1. Len(Represent[e]) < MaxHeight /\ Len(Represent[e]) \in Nat
    BY <1>1, TextLength DEF Expandable
  <2>2. ASSUME NEW i \in DOMAIN e.args, Len(Represent[e.args[i]]) < MaxHeight
        PROVE  Expanded(e.args[i])
    <3>1. e.args[i] \in S /\ e.args[i] \in Trees /\ Plain(e.args[i])
      BY <1>1, PartsPlain DEF Expandable
    <3>2. Fitting(e.args[i])
      BY <1>1, FittingIs DEF Expandable
    <3>3. Settled(e.args[i]) /\ Summable(e.args[i])
      BY <1>1, ConditionsWithin DEF Expandable
    <3>4. Expandable(e.args[i])
      BY <2>2, <3>1, <3>2, <3>3 DEF Expandable
    <3>5. QED BY <3>1, <3>4
  <2>3. ASSUME NEW i \in DOMAIN e.args PROVE Len(Represent[e.args[i]]) < MaxHeight
    <3>1. PICK l \in Nat, k \in Nat : /\ l = Len(Represent[e]) /\ k = Len(Represent[e.args[i]])
                                      /\ k <= l
      BY <1>1, <2>1, PartShorter DEF Expandable
    <3>2. l < MaxHeight
      BY <2>1, <3>1
    <3>3. k < MaxHeight
      BY <3>1, <3>2, LanguageAssumption
    <3>4. QED BY <3>1, <3>3
  <2>4. \A i \in DOMAIN e.args : Expanded(e.args[i])
    BY <2>2, <2>3
  <2>5. CASE e.kind = "literal"
    BY <1>1, <2>5, LiteralExpands
  <2>6. CASE e.kind = "variable"
    BY <1>1, <2>6, VariableExpands
  <2>7. CASE e.kind = "unary"
    <3>1. Expanded(e.args[1])
      BY <2>4, <2>7, KindIs
    <3>2. QED BY <1>1, <2>7, <3>1, UnaryExpands
  <2>8. CASE e.kind = "parentheses"
    <3>1. Expanded(e.args[1])
      BY <2>4, <2>8, KindIs
    <3>2. QED BY <1>1, <2>8, <3>1, ParenthesesExpand
  <2>9. CASE e.kind = "binary"
    <3>1. Expanded(e.args[1]) /\ Expanded(e.args[2])
      BY <2>4, <2>9, KindIs
    <3>2. QED BY <1>1, <2>9, <3>1, BinaryExpands
  <2>10. CASE e.kind = "conditional"
    <3>1. Expanded(e.args[2]) /\ Expanded(e.args[3])
      BY <2>4, <2>10, KindIs
    <3>2. QED BY <1>1, <2>10, <3>1, ConditionalExpands
  <2>11. CASE e.kind = "function"
    <3>1. CASE e.text = "sum"
      BY <1>1, <2>4, <2>11, <3>1, SumExpands
    <3>2. CASE e.text # "sum"
      BY <1>1, <2>4, <2>11, <3>2, PickExpands
    <3>3. QED BY <3>1, <3>2
  <2>12. QED BY <2>5, <2>6, <2>7, <2>8, <2>9, <2>10, <2>11, KindIs
<1>2. Trees \subseteq S
  <2>1. \A e \in Trees : (\A i \in DOMAIN e.args : e.args[i] \in S) => e \in S
    BY <1>1
  <2> HIDE DEF S
  <2>2. QED BY <2>1, TreeInduction
<1>3. QED BY <1>2

(* The text is within its bound, and what is parsed from it fits.          *)
SourceFits ==
  /\ Len(source) <= MaxTokens
  /\ stage = "parsed" => Sound(tree)

(* The expanded text of a tree, with the values of the variables and with  *)
(* the branches and the arguments that count, is parsed as an expression   *)
(* of the value of the tree: ConstantsExpander and the nodes write all     *)
(* the parentheses that it needs, but for those of a sum.                  *)
THEOREM ExpansionKeepsValueCorrect == Spec => []ExpansionKeepsValue
<1>1. Init => SourceFits
  <2> SUFFICES ASSUME Init PROVE SourceFits
    OBVIOUS
  <2>1. Len(source) = 1 \/ Len(source) = 3
    <3>1. CASE source \in Operand
      <4>1. PICK t : source = <<t>>
        BY <3>1 DEF Operand
      <4>2. QED BY <4>1
    <3>2. CASE source \in {<<f, "(", ")">> : f \in Functions}
      <4>1. PICK f : source = <<f, "(", ")">>
        BY <3>2
      <4>2. QED BY <4>1
    <3>3. QED BY <3>1, <3>2 DEF Init
  <2>2. Len(source) <= MaxTokens
    <3>1. \A k : k = 1 \/ k = 3 => k <= MaxTokens
      BY BoundsAssumption
    <3>2. QED BY <2>1, <3>1
  <2>3. QED BY <2>2 DEF Init, SourceFits
<1>2. SourceFits /\ Represented /\ [Next]_vars => SourceFits'
  <2> SUFFICES ASSUME SourceFits, Represented, [Next]_vars PROVE SourceFits'
    OBVIOUS
  <2>1. ASSUME NEW ts \in Longer(source), Write(ts) PROVE SourceFits'
    BY <2>1 DEF Write, SourceFits
  <2>2. CASE ParseText
    <3>1. stage' = "parsed" /\ tree' = Parse(source) /\ source' = source
      BY <2>2 DEF ParseText
    <3>2. Sound(tree')
      BY <3>1, ParseSound DEF Represented
    <3>3. (Sound(tree))'
      BY <3>2 DEF Sound, Fitting, Fits, Binds
    <3>4. QED BY <3>1, <3>3 DEF SourceFits
  <2>3. CASE ExtractTree
    BY <2>3 DEF ExtractTree, SourceFits
  <2>4. CASE ExtractThrows
    BY <2>4 DEF ExtractThrows, SourceFits
  <2>5. CASE AddToTree
    BY <2>5 DEF AddToTree, SourceFits
  <2>6. CASE UNCHANGED vars
    BY <2>6 DEF vars, SourceFits, Sound, Fitting, Fits, Binds
  <2>7. QED BY <2>1, <2>2, <2>3, <2>4, <2>5, <2>6 DEF Next
<1>3. SourceFits /\ Treed /\ Represented => ExpansionKeepsValue
  <2> SUFFICES ASSUME SourceFits, Treed, Represented, stage = "parsed",
                      Plain(tree), Settled(tree), Summable(tree)
               PROVE  LET e == Parse(Expand[tree])
                      IN e \in Trees /\ Agree(Value[e], Value[tree])
    BY DEF ExpansionKeepsValue
  <2>1. tree \in Trees /\ Fitting(tree) /\ Represent[tree] = source
    BY DEF Treed, SourceFits, Sound, Represented, Writes
  <2>2. Len(Represent[tree]) < MaxHeight
    <3>1. Len(source) \in Nat /\ Len(source) <= MaxTokens
      BY DEF Represented, SourceFits
    <3>2. QED BY <2>1, <3>1, LanguageAssumption, BoundsAssumption
  <2>3. PICK x : Expresses(x, Len(Represent[tree]) + 1, Expand[tree], Value[tree], Binds(tree))
    BY <2>1, <2>2, TreesExpand DEF Expandable, Expanded
  <2>4. /\ x \in Trees /\ Represent[x] = Expand[tree] /\ Value[x] = Value[tree]
        /\ Plain(x) /\ Fitting(x)
    BY <2>3, Expressed DEF Expresses
  <2>5. Parse(Expand[tree]) = x
    BY <2>4, FittingRestored DEF Restorable
  <2>6. Agree(Value[x], Value[tree])
    BY <2>1, <2>4, ValuesGive, AgreesWithItself
  <2>7. QED BY <2>4, <2>5, <2>6
<1>4. QED BY <1>1, <1>2, <1>3, TreedCorrect, RepresentedCorrect, PTL DEF Spec
=============================================================================
