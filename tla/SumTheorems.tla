----------------------------- MODULE SumTheorems -----------------------------
(***************************************************************************)
(* What the other proofs need of numbers, sums and folds.                  *)
(*                                                                         *)
(* MapThenSumSet and FoldLeft of the community modules are folds over a    *)
(* finite set, whose members are taken in an order that CHOOSE or Max      *)
(* picks. The library's induction over finite sets cannot be used here:    *)
(* each fact is shown of a part of least size for which it would fail.     *)
(***************************************************************************)
EXTENDS Integers, FiniteSetTheorems, WellFoundedInduction, TLAPS

(* A set of numbers that is not empty has a least one. *)
LEMMA LeastNumber ==
  ASSUME NEW T, T \subseteq Nat, T # {}
  PROVE  \E m \in T : \A k \in T : m <= k
<1>1. PICK m \in T : \A k \in T : ~ (<<k, m>> \in OpToRel(<, Nat))
  BY NatLessThanWellFounded, WFMin
<1>2. \A k \in T : ~ (k < m)
  BY <1>1 DEF OpToRel
<1>3. QED
  BY <1>2

Pick(s) == CHOOSE x \in s : TRUE

(* The function by which the numbers w of a set's members are added up, a  *)
(* chosen member first: given on every subset of S, and on the small ones. *)
AddStep(w, S, g) == [s \in SUBSET S |-> IF s = {} THEN 0 ELSE w[Pick(s)] + g[s \ {Pick(s)}]]

Small(S, n) == {s \in SUBSET S : Cardinality(s) <= n}

LEMMA Picked == ASSUME NEW s, s # {} PROVE Pick(s) \in s
BY DEF Pick

(* Every part of a finite set is finite, and smaller without its pick. *)
LEMMA PartSize ==
  ASSUME NEW S, IsFiniteSet(S), NEW s \in SUBSET S
  PROVE  /\ IsFiniteSet(s) /\ Cardinality(s) \in Nat /\ Cardinality(s) <= Cardinality(S)
         /\ s = {} <=> Cardinality(s) = 0
         /\ \A x \in s : s \ {x} \in SUBSET S /\ Cardinality(s \ {x}) = Cardinality(s) - 1
<1>1. IsFiniteSet(s) /\ Cardinality(s) <= Cardinality(S)
  BY FS_Subset
<1>2. Cardinality(s) \in Nat
  BY <1>1, FS_CardinalityType
<1>3. s = {} <=> Cardinality(s) = 0
  BY <1>1, FS_EmptySet
<1>4. \A x \in s : Cardinality(s \ {x}) = Cardinality(s) - 1
  BY <1>1, FS_RemoveElement
<1>5. QED
  BY <1>1, <1>2, <1>3, <1>4

(* Folds in general: the value of a part comes from that of the part       *)
(* without its pick. The parts of at most n members have such values.      *)
FoldStep(base, op, pick, S, g) ==
  [s \in SUBSET S |-> IF s = {} THEN base ELSE op[<<s, g[s \ {pick[s]}]>>]]

FoldsSmall(base, op, pick, S, n, g) ==
  \A s \in Small(S, n) : g[s] = IF s = {} THEN base ELSE op[<<s, g[s \ {pick[s]}]>>]

LEMMA SmallFolds ==
  ASSUME NEW S, IsFiniteSet(S), NEW A, NEW base \in A, NEW op \in [(SUBSET S) \X A -> A], NEW pick,
         \A s \in SUBSET S : s # {} => pick[s] \in s
  PROVE  \A n \in Nat : \E g \in [SUBSET S -> A] : FoldsSmall(base, op, pick, S, n, g)
<1> DEFINE Bad == {n \in Nat : ~ \E g \in [SUBSET S -> A] : FoldsSmall(base, op, pick, S, n, g)}
<1> SUFFICES ASSUME Bad # {} PROVE FALSE
  OBVIOUS
<1>1. PICK n \in Bad : \A k \in Bad : n <= k
  BY LeastNumber
<1>2. n \in Nat /\ ~ \E g \in [SUBSET S -> A] : FoldsSmall(base, op, pick, S, n, g)
  BY <1>1
<1>3. CASE n = 0
  <2> DEFINE g == [s \in SUBSET S |-> base]
  <2>1. \A s \in Small(S, 0) : s = {} /\ s \in SUBSET S
    BY PartSize DEF Small
  <2>2. g \in [SUBSET S -> A] /\ FoldsSmall(base, op, pick, S, 0, g)
    BY <2>1 DEF FoldsSmall
  <2>3. QED
    BY <1>2, <1>3, <2>2
<1>4. CASE n # 0
  <2>1. n - 1 \in Nat /\ n - 1 < n
    BY <1>2, <1>4
  <2>2. n - 1 \notin Bad
    <3> HIDE DEF Bad
    <3>1. QED
      BY <1>1, <1>2, <2>1
  <2>3. PICK g \in [SUBSET S -> A] : FoldsSmall(base, op, pick, S, n - 1, g)
    BY <2>1, <2>2
  <2> DEFINE h == [s \in SUBSET S |-> IF s = {} THEN base ELSE op[<<s, g[s \ {pick[s]}]>>]]
  <2>4. \A s \in Small(S, n - 1) : h[s] = g[s]
    BY <2>3 DEF FoldsSmall, Small
  <2>5. ASSUME NEW s \in Small(S, n), s # {} PROVE s \ {pick[s]} \in Small(S, n - 1)
    <3>1. s \in SUBSET S /\ Cardinality(s) <= n /\ pick[s] \in s
      BY <2>5 DEF Small
    <3>2. /\ s \ {pick[s]} \in SUBSET S /\ Cardinality(s) \in Nat
          /\ Cardinality(s \ {pick[s]}) = Cardinality(s) - 1
      BY <3>1, PartSize
    <3>3. QED
      BY <1>2, <3>1, <3>2 DEF Small
  <2>6. ASSUME NEW s \in Small(S, n)
        PROVE  h[s] = IF s = {} THEN base ELSE op[<<s, h[s \ {pick[s]}]>>]
    <3>1. s \in SUBSET S
      BY DEF Small
    <3>2. h[s] = IF s = {} THEN base ELSE op[<<s, g[s \ {pick[s]}]>>]
      BY <3>1
    <3>3. s # {} => g[s \ {pick[s]}] = h[s \ {pick[s]}]
      BY <2>4, <2>5
    <3> HIDE DEF h
    <3>4. QED
      BY <3>2, <3>3
  <2>7. h \in [SUBSET S -> A]
    <3>1. ASSUME NEW s \in SUBSET S
          PROVE  (IF s = {} THEN base ELSE op[<<s, g[s \ {pick[s]}]>>]) \in A
      <4>1. CASE s = {}
        BY <4>1
      <4>2. CASE s # {}
        <5>1. s \ {pick[s]} \in SUBSET S
          OBVIOUS
        <5>2. <<s, g[s \ {pick[s]}]>> \in (SUBSET S) \X A
          BY <5>1
        <5>3. QED
          BY <4>2, <5>2
      <4>3. QED
        BY <4>1, <4>2
    <3>2. QED
      BY <3>1
  <2> HIDE DEF h
  <2>8. FoldsSmall(base, op, pick, S, n, h)
    BY <2>6 DEF FoldsSmall
  <2>9. QED
    BY <1>2, <2>7, <2>8
<1>5. QED
  BY <1>3, <1>4

(* What a fold needs, to give every part a value in A. *)
CanFold(base, op, pick, S, A) ==
  /\ IsFiniteSet(S) /\ base \in A
  /\ op \in [(SUBSET S) \X A -> A]
  /\ \A s \in SUBSET S : s # {} => pick[s] \in s

HasFold(base, op, pick, S, A) == \E g \in [SUBSET S -> A] : g = FoldStep(base, op, pick, S, g)

(* So a fold over a finite set has a value. *)
LEMMA FoldExists ==
  ASSUME NEW base, NEW op, NEW pick, NEW S, NEW A, CanFold(base, op, pick, S, A)
  PROVE  HasFold(base, op, pick, S, A)
<1> USE DEF CanFold
<1>1. Cardinality(S) \in Nat
  BY FS_CardinalityType
<1>2. PICK g \in [SUBSET S -> A] : FoldsSmall(base, op, pick, S, Cardinality(S), g)
  <2>1. \A n \in Nat : \E g \in [SUBSET S -> A] : FoldsSmall(base, op, pick, S, n, g)
    BY SmallFolds
  <2>2. QED
    BY <1>1, <2>1
<1>3. \A s \in SUBSET S : s \in Small(S, Cardinality(S))
  BY PartSize DEF Small
<1>4. \A s \in SUBSET S : g[s] = IF s = {} THEN base ELSE op[<<s, g[s \ {pick[s]}]>>]
  BY <1>2, <1>3 DEF FoldsSmall
<1>5. g = FoldStep(base, op, pick, S, g)
  BY <1>2, <1>4 DEF FoldStep
<1>6. QED
  BY <1>5 DEF HasFold

LEMMA SumExists ==
  ASSUME NEW S, IsFiniteSet(S), NEW w \in [S -> Nat]
  PROVE  \E g : g = AddStep(w, S, g)
<1> DEFINE op   == [z \in (SUBSET S) \X Nat |-> IF z[1] = {} THEN 0 ELSE w[Pick(z[1])] + z[2]]
           pick == [s \in SUBSET S |-> Pick(s)]
<1>1. \A s \in SUBSET S : s # {} => pick[s] \in s /\ pick[s] = Pick(s) /\ Pick(s) \in S
  BY Picked
<1>2. op \in [(SUBSET S) \X Nat -> Nat]
  <2>1. ASSUME NEW z \in (SUBSET S) \X Nat
        PROVE  (IF z[1] = {} THEN 0 ELSE w[Pick(z[1])] + z[2]) \in Nat
    <3>1. z[1] \in SUBSET S /\ z[2] \in Nat
      OBVIOUS
    <3>2. z[1] # {} => w[Pick(z[1])] \in Nat
      BY <1>1, <3>1
    <3>3. QED
      BY <3>1, <3>2
  <2>2. QED
    BY <2>1
<1>3. \A s \in SUBSET S, n \in Nat : s # {} => op[<<s, n>>] = w[Pick(s)] + n
  OBVIOUS
<1>4. PICK o, p : o = op /\ p = pick
  OBVIOUS
<1> HIDE DEF op, pick
<1>5. \E g \in [SUBSET S -> Nat] : g = FoldStep(0, o, p, S, g)
  <2>1. 0 \in Nat /\ o \in [(SUBSET S) \X Nat -> Nat]
    BY <1>2, <1>4
  <2>2. \A s \in SUBSET S : s # {} => p[s] \in s
    BY <1>1, <1>4
  <2>3. CanFold(0, o, p, S, Nat)
    BY <2>1, <2>2 DEF CanFold
  <2>4. QED
    BY <2>3, FoldExists DEF HasFold
<1>6. PICK g \in [SUBSET S -> Nat] : g = FoldStep(0, op, pick, S, g)
  BY <1>4, <1>5
<1>7. \A s \in SUBSET S : g[s] = IF s = {} THEN 0 ELSE w[Pick(s)] + g[s \ {Pick(s)}]
  <2>1. ASSUME NEW s \in SUBSET S
        PROVE  g[s] = IF s = {} THEN 0 ELSE w[Pick(s)] + g[s \ {Pick(s)}]
    <3>1. g[s] = IF s = {} THEN 0 ELSE op[<<s, g[s \ {pick[s]}]>>]
      BY <1>6 DEF FoldStep
    <3>2. s # {} => g[s \ {pick[s]}] \in Nat /\ pick[s] = Pick(s)
      BY <1>1, <1>6
    <3>3. QED
      BY <1>3, <3>1, <3>2
  <2>2. QED
    BY <2>1
<1>8. g = AddStep(w, S, g)
  BY <1>6, <1>7 DEF AddStep
<1>9. QED
  BY <1>8

(* Whichever member is taken first, it counts once. *)
LEMMA SumTakes ==
  ASSUME NEW S, IsFiniteSet(S), NEW w \in [S -> Nat], NEW g, g = AddStep(w, S, g)
  PROVE  /\ g[{}] = 0
         /\ \A s \in SUBSET S : g[s] \in Nat /\ \A x \in s : g[s] = w[x] + g[s \ {x}]
<1>0. \A s \in SUBSET S : g[s] = IF s = {} THEN 0 ELSE w[Pick(s)] + g[s \ {Pick(s)}]
  BY DEF AddStep
<1>1. g[{}] = 0
  BY <1>0
<1> DEFINE Good(s) == g[s] \in Nat /\ \A x \in s : g[s] = w[x] + g[s \ {x}]
           Bad == {n \in Nat : \E s \in SUBSET S : Cardinality(s) = n /\ ~ Good(s)}
<1>2. Bad = {}
  <2> SUFFICES ASSUME Bad # {} PROVE FALSE
    OBVIOUS
  <2>1. PICK n \in Bad : \A k \in Bad : n <= k
    BY LeastNumber
  <2>2. PICK s \in SUBSET S : Cardinality(s) = n /\ ~ Good(s)
    BY <2>1
  <2>3. \A t \in SUBSET S : Cardinality(t) < n /\ Cardinality(t) \in Nat => Good(t)
    <3>1. \A t \in SUBSET S : Cardinality(t) \in Nat /\ ~ Good(t) => Cardinality(t) \in Bad
      OBVIOUS
    <3>2. n \in Nat
      BY <2>1
    <3> HIDE DEF Bad, Good
    <3>3. \A k \in Bad : ~ (k < n)
      BY <2>1, <3>2
    <3>4. QED
      BY <3>1, <3>3
  <2> HIDE DEF Bad
  <2>4. \A t \in SUBSET S : \A x \in t : /\ t \ {x} \in SUBSET S
                                         /\ Cardinality(t \ {x}) = Cardinality(t) - 1
                                         /\ Cardinality(t) \in Nat
                                         /\ Cardinality(t \ {x}) \in Nat
    BY PartSize
  <2>5. s # {}
    BY <1>1, <2>2
  <2> DEFINE c == Pick(s)
  <2>6. c \in s /\ g[s] = w[c] + g[s \ {c}] /\ w[c] \in Nat
    BY <1>0, <2>5, Picked
  <2> HIDE DEF c
  <2>7. Good(s \ {c})
    BY <2>2, <2>3, <2>4, <2>6
  <2>8. g[s \ {c}] \in Nat /\ g[s] \in Nat
    BY <2>6, <2>7
  <2>9. ASSUME NEW x \in s PROVE g[s] = w[x] + g[s \ {x}]
    <3>1. CASE x = c
      BY <2>6, <3>1
    <3>2. CASE x # c
      <4>1. x \in s \ {c} /\ c \in s \ {x} /\ (s \ {c}) \ {x} = (s \ {x}) \ {c}
        BY <2>6, <3>2
      <4>2. g[s \ {c}] = w[x] + g[(s \ {c}) \ {x}]
        BY <2>7, <4>1
      <4>3. Good(s \ {x})
        BY <2>2, <2>3, <2>4
      <4>4. g[s \ {x}] = w[c] + g[(s \ {x}) \ {c}]
        BY <4>1, <4>3
      <4>5. w[x] \in Nat /\ g[(s \ {c}) \ {x}] \in Nat
        <5>1. PICK t \in SUBSET S : t = s \ {c} /\ Cardinality(t) = n - 1 /\ n \in Nat
          BY <2>2, <2>4, <2>6
        <5>2. x \in t
          BY <4>1, <5>1
        <5>3. /\ t \ {x} \in SUBSET S /\ Cardinality(t \ {x}) = Cardinality(t) - 1
              /\ Cardinality(t \ {x}) \in Nat
          BY <2>4, <5>2
        <5>4. PICK u \in SUBSET S : u = t \ {x} /\ Cardinality(u) < n /\ Cardinality(u) \in Nat
          <6>1. Cardinality(t \ {x}) < n
            BY <5>1, <5>3
          <6>2. QED
            BY <5>3, <6>1
        <5>5. Good(u)
          <6> HIDE DEF Good
          <6>1. QED
            BY <2>3, <5>4
        <5>6. QED
          BY <4>1, <5>1, <5>4, <5>5
      <4>6. QED
        BY <2>6, <4>1, <4>2, <4>4, <4>5
    <3>3. QED
      BY <3>1, <3>2
  <2>10. QED
    BY <2>2, <2>8, <2>9
<1>3. \A s \in SUBSET S : Good(s)
  <2>1. \A s \in SUBSET S : Cardinality(s) \in Nat
    BY PartSize
  <2>2. QED
    BY <1>2, <2>1
<1>4. QED
  BY <1>1, <1>3

(* The sum of a part is the same, in whichever whole it is a part. *)
LEMMA SumAgrees ==
  ASSUME NEW S, IsFiniteSet(S), NEW T \in SUBSET S, NEW w, NEW g, NEW h, NEW v,
         g = AddStep(w, S, g), h = AddStep(v, T, h), \A x \in T : w[x] = v[x]
  PROVE  \A s \in SUBSET T : g[s] = h[s]
<1>0. /\ \A s \in SUBSET T : h[s] = IF s = {} THEN 0 ELSE v[Pick(s)] + h[s \ {Pick(s)}]
      /\ \A s \in SUBSET T : g[s] = IF s = {} THEN 0 ELSE w[Pick(s)] + g[s \ {Pick(s)}]
  BY DEF AddStep
<1>f. IsFiniteSet(T)
  BY FS_Subset
<1> DEFINE Bad == {n \in Nat : \E s \in SUBSET T : Cardinality(s) = n /\ g[s] # h[s]}
<1>1. Bad = {}
  <2> SUFFICES ASSUME Bad # {} PROVE FALSE
    OBVIOUS
  <2>1. PICK n \in Bad : \A k \in Bad : n <= k
    BY LeastNumber
  <2>2. PICK s \in SUBSET T : Cardinality(s) = n /\ g[s] # h[s]
    BY <2>1
  <2>3. s # {}
    BY <1>0, <2>2
  <2> DEFINE c == Pick(s)
  <2>4. /\ c \in s /\ w[c] = v[c]
        /\ g[s] = w[c] + g[s \ {c}] /\ h[s] = v[c] + h[s \ {c}]
    BY <1>0, <2>3, Picked
  <2> HIDE DEF c
  <2>5. s \ {c} \in SUBSET T /\ Cardinality(s \ {c}) = n - 1 /\ n \in Nat /\ n # 0
    BY <1>f, <2>2, <2>3, <2>4, PartSize
  <2>6. n - 1 \in Nat /\ n - 1 < n
    BY <2>5
  <2>7. n - 1 \notin Bad
    <3> HIDE DEF Bad
    <3>1. QED
      BY <2>1, <2>5, <2>6
  <2>8. g[s \ {c}] = h[s \ {c}]
    BY <2>5, <2>6, <2>7
  <2>9. QED
    BY <2>2, <2>4, <2>8
<1>2. \A s \in SUBSET T : Cardinality(s) \in Nat
  BY <1>f, PartSize
<1>3. QED
  BY <1>1, <1>2
=============================================================================
