----------------------------- MODULE ParserProofs -----------------------------
(***************************************************************************)
(* Whatever the parser reads, and wherever it runs out of memory, every    *)
(* condition it allocated has one owner, or was freed, or was handed to     *)
(* Condition_destroy (which leaves the root it is given); and it goes       *)
(* astray only where a bracket or a NOT has not got what it waits for.      *)
(* Conditions are followed through the holders that may have one: the       *)
(* expression just returned, the command and the calls of                   *)
(* __parse_expression that are open.                                        *)
(***************************************************************************)
EXTENDS Parser, WellFoundedInduction, SequenceTheorems, TLAPS

-----------------------------------------------------------------------------
(* What is below a condition, by induction over the conditions.             *)

\* A set of numbers that is not empty has a least member.
LEMMA LeastNumber ==
    ASSUME NEW T, T \subseteq Nat, T # {}
    PROVE  \E x \in T : \A y \in T : x <= y
<1>1. PICK x \in T : \A y \in T : ~(<<y, x>> \in OpToRel(<, Nat))
  BY NatLessThanWellFounded, WFMin, Zenon
<1>2. \A y \in Nat, z \in Nat : y < z => <<y, z>> \in OpToRel(<, Nat)
  BY Zenon DEF OpToRel
<1>3. \A y \in T : ~(y < x)
  BY <1>1, <1>2, Zenon
<1> QED  BY <1>3

-----------------------------------------------------------------------------
\* The operands of c that are conditions in C
Kids(C, c) == {C[c].lhs, C[c].rhs} \ {0}

\* Every condition comes behind those it is made of.
InOrder(C) ==
    /\ Len(C) \in Nat /\ DOMAIN C = 1 .. Len(C)
    /\ \A c \in DOMAIN C : C[c].lhs \in 0 .. c - 1 /\ C[c].rhs \in 0 .. c - 1

BelowIn(C, cond) ==
    LET below[c \in 0 .. Len(C)] ==
            IF c = 0 THEN {} ELSE Kids(C, c) \cup UNION {below[d] : d \in Kids(C, c)}
    IN  below[cond]

\* f is the function that BelowIn is defined by, as far as n
Unfolds(f, C, n) ==
    f = [c \in 0 .. n |-> IF c = 0 THEN {} ELSE Kids(C, c) \cup UNION {f[d] : d \in Kids(C, c)}]

\* BelowIn is the recursive function it is defined to be.
LEMMA BelowDef == ASSUME NEW C, NEW c PROVE BelowIn(C, c) = (CHOOSE f : Unfolds(f, C, Len(C)))[c]
BY DEF BelowIn, Unfolds

\* There is such a function, as a condition is made after its operands.
LEMMA UnfoldsExists ==
    ASSUME NEW C, InOrder(C)
    PROVE  \E f : Unfolds(f, C, Len(C))
<1> DEFINE Bad == {n \in 0 .. Len(C) : ~\E f : Unfolds(f, C, n)}
<1>1. Bad = {}
  <2> SUFFICES ASSUME Bad # {} PROVE FALSE
    OBVIOUS
  <2>1. PICK n \in Bad : \A m \in Bad : n <= m
    <3>1. Bad \subseteq Nat
      BY DEF InOrder
    <3> HIDE DEF Bad
    <3> QED  BY <3>1, LeastNumber, Zenon
  <2>2. n \in Nat /\ n <= Len(C)
    BY DEF InOrder
  <2>3. CASE n = 0
    <3>1. Unfolds([c \in 0 .. 0 |-> {}], C, 0)
      BY DEF Unfolds
    <3> QED  BY <3>1, <2>3
  <2>4. CASE n > 0
    <3>1. n - 1 \in 0 .. Len(C) /\ n - 1 \notin Bad
      BY <2>1, <2>2, <2>4 DEF InOrder
    <3>2. PICK f : Unfolds(f, C, n - 1)
      BY <3>1
    <3> DEFINE g == [c \in 0 .. n |-> IF c = n THEN Kids(C, n) \cup UNION {f[d] : d \in Kids(C, n)}
                                      ELSE f[c]]
    <3>3. \A c \in 1 .. n : Kids(C, c) \subseteq 1 .. c - 1
      BY <2>2 DEF InOrder, Kids
    <3>4. \A c \in 0 .. n - 1 : g[c] = f[c]
      BY <2>2
    <3>5. \A c \in 1 .. n : \A d \in Kids(C, c) : g[d] = f[d]
      BY <3>3, <3>4, <2>2
    <3>6. \A c \in 1 .. n : {g[d] : d \in Kids(C, c)} = {f[d] : d \in Kids(C, c)}
      <4> HIDE DEF g
      <4> QED  BY <3>5
    <3>7. \A c \in 0 .. n - 1 : f[c] = IF c = 0 THEN {} ELSE Kids(C, c) \cup UNION {f[d] : d \in Kids(C, c)}
      BY <3>2 DEF Unfolds
    <3>8. \A c \in 0 .. n : g[c] = IF c = 0 THEN {} ELSE Kids(C, c) \cup UNION {g[d] : d \in Kids(C, c)}
      <4> SUFFICES ASSUME NEW c \in 0 .. n
                   PROVE  g[c] = IF c = 0 THEN {} ELSE Kids(C, c) \cup UNION {g[d] : d \in Kids(C, c)}
        OBVIOUS
      <4>1. CASE c = n
        <5>1. g[c] = Kids(C, n) \cup UNION {f[d] : d \in Kids(C, n)}
          BY <4>1
        <5>2. n \in 1 .. n /\ c # 0
          BY <4>1, <2>2, <2>4
        <5> HIDE DEF g
        <5>3. {g[d] : d \in Kids(C, n)} = {f[d] : d \in Kids(C, n)}
          BY <5>2, <3>6
        <5> QED  BY <5>1, <5>2, <5>3, <4>1
      <4>2. CASE c = 0
        <5>1. c \in 0 .. n - 1
          BY <4>2, <2>4, <2>2
        <5>2. g[c] = f[c] /\ f[c] = {}
          BY <5>1, <4>2, <3>4, <3>7
        <5> QED  BY <5>2, <4>2
      <4>3. CASE c # n /\ c # 0
        <5>1. c \in 1 .. n /\ c \in 0 .. n - 1 /\ g[c] = f[c]
          BY <4>3, <3>4, <2>2
        <5> HIDE DEF g
        <5> QED  BY <5>1, <4>3, <3>6, <3>7
      <4> QED  BY <4>1, <4>2, <4>3
    <3>9. Unfolds(g, C, n)
      <4>1. g = [c \in 0 .. n |-> g[c]]
        OBVIOUS
      <4> HIDE DEF g
      <4> QED  BY <4>1, <3>8 DEF Unfolds
    <3> QED  BY <3>9
  <2> QED  BY <2>2, <2>3, <2>4
<1>2. Len(C) \in 0 .. Len(C)
  BY DEF InOrder
<1> QED  BY <1>1, <1>2

\* What is below a condition: its operands and what is below them.
LEMMA BelowUnfolds ==
    ASSUME NEW C, InOrder(C)
    PROVE  /\ BelowIn(C, 0) = {}
           /\ \A c \in 1 .. Len(C) :
                 BelowIn(C, c) = Kids(C, c) \cup UNION {BelowIn(C, d) : d \in Kids(C, c)}
<1> DEFINE F == CHOOSE f : Unfolds(f, C, Len(C))
<1>1. Unfolds(F, C, Len(C))
  BY UnfoldsExists
<1>2. \A c : BelowIn(C, c) = F[c]
  BY BelowDef
<1> HIDE DEF F
<1>3. Len(C) \in Nat
  BY DEF InOrder
<1>4. F[0] = {}
  BY <1>1, <1>3 DEF Unfolds
<1>5. \A c \in 0 .. Len(C) : F[c] = IF c = 0 THEN {} ELSE Kids(C, c) \cup UNION {F[d] : d \in Kids(C, c)}
  BY <1>1, Zenon DEF Unfolds
<1>6. \A c \in 1 .. Len(C) : {F[d] : d \in Kids(C, c)} = {BelowIn(C, d) : d \in Kids(C, c)}
  BY <1>2
<1>7. \A c \in 1 .. Len(C) : c \in 0 .. Len(C) /\ c # 0
  BY <1>3
<1>8. \A c \in 1 .. Len(C) : F[c] = Kids(C, c) \cup UNION {F[d] : d \in Kids(C, c)}
  BY <1>5, <1>7, Zenon
<1> QED  BY <1>2, <1>4, <1>6, <1>8

\* Everything below a condition was made before it.
LEMMA BelowIsBefore ==
    ASSUME NEW C, InOrder(C)
    PROVE  \A c \in 0 .. Len(C) : BelowIn(C, c) \subseteq 1 .. c - 1
<1> DEFINE Bad == {c \in 0 .. Len(C) : ~(BelowIn(C, c) \subseteq 1 .. c - 1)}
<1> SUFFICES ASSUME Bad # {} PROVE FALSE
  OBVIOUS
<1>1. PICK c \in Bad : \A m \in Bad : c <= m
  <2>1. Bad \subseteq Nat
    BY DEF InOrder
  <2> HIDE DEF Bad
  <2> QED  BY <2>1, LeastNumber, Zenon
<1>2. c \in 1 .. Len(C)
  BY BelowUnfolds DEF InOrder
<1>3. Kids(C, c) \subseteq 1 .. c - 1
  BY <1>2 DEF InOrder, Kids
<1>4. ASSUME NEW d \in Kids(C, c) PROVE BelowIn(C, d) \subseteq 1 .. c - 1
  <2>1. d \in 0 .. Len(C) /\ d < c
    BY <1>2, <1>3 DEF InOrder
  <2>2. d \notin Bad
    BY <2>1, <1>1, <1>2 DEF InOrder
  <2> HIDE DEF Bad
  <2>3. BelowIn(C, d) \subseteq 1 .. d - 1
    BY <2>1, <2>2 DEF Bad
  <2> QED  BY <2>1, <2>3, <1>2 DEF InOrder
<1>5. BelowIn(C, c) = Kids(C, c) \cup UNION {BelowIn(C, d) : d \in Kids(C, c)}
  BY <1>2, BelowUnfolds
<1>6. BelowIn(C, c) \subseteq 1 .. c - 1
  BY <1>3, <1>4, <1>5
<1> QED  BY <1>6

\* What is made later changes nothing of what is below a condition.
LEMMA BelowStays ==
    ASSUME NEW C, NEW D, InOrder(C), InOrder(D), Len(C) <= Len(D),
           \A c \in 1 .. Len(C) : D[c] = C[c]
    PROVE  \A c \in 0 .. Len(C) : BelowIn(D, c) = BelowIn(C, c)
<1> DEFINE Bad == {c \in 0 .. Len(C) : BelowIn(D, c) # BelowIn(C, c)}
<1> SUFFICES ASSUME Bad # {} PROVE FALSE
  OBVIOUS
<1>1. PICK c \in Bad : \A m \in Bad : c <= m
  <2>1. Bad \subseteq Nat
    BY DEF InOrder
  <2> HIDE DEF Bad
  <2> QED  BY <2>1, LeastNumber, Zenon
<1>2. c \in 1 .. Len(C) /\ c \in 1 .. Len(D)
  <2>1. BelowIn(C, 0) = {} /\ BelowIn(D, 0) = {}
    BY BelowUnfolds
  <2>2. c \in 0 .. Len(C) /\ c # 0
    BY <2>1
  <2> QED  BY <2>2 DEF InOrder
<1>3. Kids(C, c) \subseteq 1 .. c - 1 /\ Kids(D, c) = Kids(C, c)
  BY <1>2 DEF InOrder, Kids
<1>4. ASSUME NEW d \in Kids(C, c) PROVE BelowIn(C, d) = BelowIn(D, d)
  <2>1. d \in 0 .. Len(C) /\ d < c
    BY <1>2, <1>3 DEF InOrder
  <2>2. d \notin Bad
    BY <2>1, <1>1, <1>2 DEF InOrder
  <2> QED  BY <2>1, <2>2
<1>5. BelowIn(C, c) = Kids(C, c) \cup UNION {BelowIn(C, d) : d \in Kids(C, c)}
  BY <1>2, BelowUnfolds
<1>6. BelowIn(D, c) = Kids(D, c) \cup UNION {BelowIn(D, d) : d \in Kids(D, c)}
  BY <1>2, BelowUnfolds
<1>7. {BelowIn(C, d) : d \in Kids(C, c)} = {BelowIn(D, d) : d \in Kids(D, c)}
  BY <1>3, <1>4
<1> QED  BY <1>5, <1>6, <1>7, <1>3

\* Below is BelowIn of the conditions there are.
LEMMA BelowIsIn ==
    ASSUME NEW c
    PROVE  Below(c) = BelowIn(conds, c)
BY DEF Below, BelowIn, Children, Kids

-----------------------------------------------------------------------------
(* Who holds which condition.                                               *)

TreeIn(C, expr) == IF expr.tag = "CONDITION" THEN {expr.value} \cup BelowIn(C, expr.value) ELSE {}

RootTree(C, root) == IF root = 0 THEN {} ELSE {root} \cup BelowIn(C, root)

\* The conditions of the expression just returned are at -1, those of the command at 0
\* and those of the open calls at their places.
Held(C, cs, r, root) ==
    [i \in Int |-> IF i = -1 THEN TreeIn(C, r)
                   ELSE IF i = 0 THEN RootTree(C, root)
                   ELSE IF i \in 1 .. Len(cs) THEN TreeIn(C, cs[i].lhs)
                   ELSE {}]

\* Each of n conditions is held in one place, or freed, or was passed to Condition_destroy.
Sorted(O, F, D, n) ==
    /\ \A i, j \in Int : i # j => O[i] \cap O[j] = {}
    /\ \A i \in Int : O[i] \subseteq 1 .. n /\ O[i] \cap (F \cup D) = {}
    /\ F \cap D = {} /\ F \subseteq 1 .. n /\ D \subseteq 1 .. n
    /\ \A c \in 1 .. n : (\E i \in Int : c \in O[i]) \/ c \in F \/ c \in D

\* A holder that has nothing takes all that another has.
LEMMA MoveStaysSorted ==
    ASSUME NEW O, NEW P, NEW F, NEW D, NEW n, Sorted(O, F, D, n),
           NEW a \in Int, NEW b \in Int, a # b, O[a] = {}, P[a] = O[b], P[b] = {},
           \A i \in Int \ {a, b} : P[i] = O[i]
    PROVE  Sorted(P, F, D, n)
<1>1. \A i, j \in Int : i # j => P[i] \cap P[j] = {}
  BY SMTT(30) DEF Sorted
<1>2. \A i \in Int : P[i] \subseteq 1 .. n /\ P[i] \cap (F \cup D) = {}
  BY DEF Sorted
<1>3. \A c \in 1 .. n : (\E i \in Int : c \in O[i]) => \E i \in Int : c \in P[i]
  OBVIOUS
<1> QED  BY <1>1, <1>2, <1>3 DEF Sorted

\* A holder takes what another has and makes a new condition of both.
LEMMA JoinStaysSorted ==
    ASSUME NEW O, NEW P, NEW F, NEW D, NEW n \in Nat, Sorted(O, F, D, n),
           NEW a \in Int, NEW b \in Int, a # b,
           P[a] = {n + 1} \cup O[a] \cup O[b], P[b] = {},
           \A i \in Int \ {a, b} : P[i] = O[i]
    PROVE  Sorted(P, F, D, n + 1)
<1>1. \A i \in Int : n + 1 \notin O[i]
  BY DEF Sorted
<1>2. \A i, j \in Int : i # j => P[i] \cap P[j] = {}
  BY <1>1, SMTT(30) DEF Sorted
<1>3. \A i \in Int : P[i] \subseteq 1 .. n + 1 /\ P[i] \cap (F \cup D) = {}
  BY DEF Sorted
<1>4. \A c \in 1 .. n : (\E i \in Int : c \in O[i]) => \E i \in Int : c \in P[i]
  OBVIOUS
<1>5. \A c \in 1 .. n + 1 : (\E i \in Int : c \in P[i]) \/ c \in F \/ c \in D
  <2> SUFFICES ASSUME NEW c \in 1 .. n + 1
               PROVE  (\E i \in Int : c \in P[i]) \/ c \in F \/ c \in D
    OBVIOUS
  <2>1. CASE c = n + 1
    BY <2>1
  <2>2. CASE c \in 1 .. n
    BY <2>2, <1>4 DEF Sorted
  <2> QED  BY <2>1, <2>2
<1>6. F \subseteq 1 .. n + 1 /\ D \subseteq 1 .. n + 1 /\ F \cap D = {}
  BY DEF Sorted
<1> QED  BY <1>2, <1>3, <1>5, <1>6 DEF Sorted

\* Two holders let go of what they have: some of it is freed, the rest destroyed.
LEMMA DropStaysSorted ==
    ASSUME NEW O, NEW P, NEW F, NEW D, NEW n, Sorted(O, F, D, n),
           NEW a \in Int, NEW b \in Int, P[a] = {}, P[b] = {},
           \A i \in Int \ {a, b} : P[i] = O[i],
           NEW X, NEW Y, X \cap Y = {}, X \cup Y = O[a] \cup O[b]
    PROVE  Sorted(P, F \cup X, D \cup Y, n)
<1>1. \A i, j \in Int : i # j => P[i] \cap P[j] = {}
  BY DEF Sorted
<1>2. \A i \in Int \ {a, b} : P[i] \cap (X \cup Y) = {}
  BY DEF Sorted
<1>3. \A i \in Int : P[i] \subseteq 1 .. n /\ P[i] \cap ((F \cup X) \cup (D \cup Y)) = {}
  BY <1>2 DEF Sorted
<1>4. X \subseteq 1 .. n /\ Y \subseteq 1 .. n /\ X \cap D = {} /\ Y \cap F = {}
  BY DEF Sorted
<1>5. \A c \in 1 .. n : (\E i \in Int : c \in O[i]) => (\E i \in Int : c \in P[i]) \/ c \in X \/ c \in Y
  OBVIOUS
<1>6. F \cup X \subseteq 1 .. n /\ D \cup Y \subseteq 1 .. n /\ (F \cup X) \cap (D \cup Y) = {}
  BY <1>4 DEF Sorted
<1> QED  BY <1>1, <1>3, <1>5, <1>6 DEF Sorted

\* What Destroy makes of expressions that share no condition.
Roots(exprs) == {exprs[i].value : i \in {j \in DOMAIN exprs : exprs[j].tag = "CONDITION"}}

Apart(C, exprs) ==
    /\ \A i \in DOMAIN exprs : exprs[i].tag = "CONDITION" => exprs[i].value \in 1 .. Len(C)
    /\ \A i, j \in DOMAIN exprs : i # j => TreeIn(C, exprs[i]) \cap TreeIn(C, exprs[j]) = {}

\* Conditions held apart: no root is below another.
LEMMA DestroySplits ==
    ASSUME NEW C, InOrder(C), NEW exprs, Apart(C, exprs)
    PROVE  LET X == UNION {BelowIn(C, r) : r \in Roots(exprs)} IN
           /\ X \cap Roots(exprs) = {}
           /\ X \cup Roots(exprs) = UNION {TreeIn(C, exprs[i]) : i \in DOMAIN exprs}
<1> USE DEF Apart
<1> DEFINE X == UNION {BelowIn(C, r) : r \in Roots(exprs)}
<1>1. \A r \in 1 .. Len(C) : r \notin BelowIn(C, r)
  BY BelowIsBefore DEF InOrder
<1>2. X \cap Roots(exprs) = {}
  <2> SUFFICES ASSUME NEW c \in X, c \in Roots(exprs) PROVE FALSE
    OBVIOUS
  <2>1. PICK i \in DOMAIN exprs : exprs[i].tag = "CONDITION" /\ c = exprs[i].value
    BY DEF Roots
  <2>2. PICK j \in DOMAIN exprs : exprs[j].tag = "CONDITION" /\ c \in BelowIn(C, exprs[j].value)
    BY DEF Roots
  <2>3. c \in TreeIn(C, exprs[i]) /\ c \in TreeIn(C, exprs[j])
    BY <2>1, <2>2 DEF TreeIn
  <2>4. i = j
    BY <2>3
  <2> QED  BY <2>1, <2>2, <2>4, <1>1
<1>3. X \cup Roots(exprs) = UNION {TreeIn(C, exprs[i]) : i \in DOMAIN exprs}
  BY DEF Roots, TreeIn
<1> QED  BY <1>2, <1>3

-----------------------------------------------------------------------------
(* The invariant.                                                           *)

AllTokens == (UNION {a.tokens : a \in Alphabets}) \cup {"EOF", "FILE"}

Expr ==
    {e \in [tag : {"NONE", "UNINITIALISED", "COLUMN", "INT", "FLOAT", "STRING", "CONDITION"},
            value : AllTokens \cup {"none"} \cup Nat] :
       e.tag = "COLUMN" => e.value \in Column}

Cond ==
    [op : {"NOT"} \cup Infix, column : AllTokens \cup {"ID", "none"} \cup Nat,
     value : AllTokens \cup {"none"} \cup Nat, lhs : Nat, rhs : Nat]

Call == [min_bp : Nat, at : {"operand", "loop", "group", "prefix", "infix"},
         lhs : Expr, op : {"none", "NOT"} \cup Infix]

Waiting == {"group", "prefix", "infix"}

TokensOK ==
    /\ alphabet \in Alphabets /\ input \in Seq(AllTokens)
    /\ next = "EOF" \/ next \in Range(input)

\* A condition in use is one of n.
Exists(expr, n) == expr.tag = "CONDITION" => expr.value \in 1 .. n

\* What a call has so far, by where it is.
CallOK(call, n) ==
    /\ call.at \in {"operand", "group", "prefix"} => call.lhs = Uninitialised
    /\ call.at \in {"loop", "infix"} => call.lhs.tag \notin {"NONE", "UNINITIALISED"}
    /\ call.at = "prefix" => call.op = "NOT"
    /\ call.at = "infix" => call.op \in Infix /\ Supports(call.op, call.lhs)
    /\ Exists(call.lhs, n)

\* All but the innermost wait for an operand, and that one too once it failed.
CallsOK ==
    /\ calls \in Seq(Call)
    /\ \A i \in 1 .. Len(calls) :
          /\ CallOK(calls[i], Len(conds))
          /\ i < Len(calls) \/ err # "ok" => calls[i].at \in Waiting

RetOK ==
    /\ ret \in Expr /\ ret.tag # "UNINITIALISED" /\ Exists(ret, Len(conds))
    /\ ret.tag = "NONE" => ret = None
    /\ ret # None => err = "ok"
    /\ ret # None /\ calls # <<>> => calls[Len(calls)].at \in Waiting

StepOK ==
    /\ step \notin {"expression", "wild"} => calls = <<>> /\ ret = None
    /\ filter \in 0 .. Len(conds)
    /\ filter # 0 => step \in {"sort", "end", "parsed", "ran", "refused"}
    /\ err # "ok" => step \in {"expression", "wild", "refused"}

\* The condition of a command that is still there.
Live == IF step \in {"refused", "ran"} THEN 0 ELSE filter

CondsOK ==
    /\ conds \in Seq(Cond)
    /\ InOrder(conds)
    /\ Sorted(Held(conds, calls, ret, Live), freed, destroyed, Len(conds))

PInv == TokensOK /\ CallsOK /\ RetOK /\ StepOK /\ CondsOK

-----------------------------------------------------------------------------
(* What the steps are made of.                                              *)

\* A token is read into the line.
LEMMA AdvanceKeeps ==
    ASSUME TokensOK, Advance
    PROVE  TokensOK'
<1>1. PICK t \in Follow(ended, fileMode, input) : Read(t)
  BY DEF Advance
<1>2. t \in AllTokens
  <2>1. t \in {"EOF", "FILE"} \/ t \in alphabet.tokens
    BY <1>1 DEF Follow
  <2> QED  BY <2>1 DEF AllTokens, TokensOK
<1>3. CASE t = "EOF"
  BY <1>1, <1>3 DEF Read, TokensOK
<1>4. CASE t # "EOF"
  <2>1. input' = Append(input, t) /\ next' = t /\ alphabet' = alphabet
    BY <1>1, <1>4 DEF Read
  <2>2. input' \in Seq(AllTokens) /\ DOMAIN input' = 1 .. Len(input) + 1 /\ DOMAIN input = 1 .. Len(input)
        /\ Len(input) \in Nat
    BY <2>1, <1>2 DEF TokensOK
  <2>3. \A i \in DOMAIN input : input'[i] = input[i]
    BY <2>1, <1>2 DEF TokensOK
  <2>4. input'[Len(input) + 1] = t
    BY <2>1, <1>2 DEF TokensOK
  <2>5. Range(input) \subseteq Range(input') /\ t \in Range(input')
    BY <2>2, <2>3, <2>4 DEF Range
  <2> QED  BY <2>1, <2>2, <2>5 DEF TokensOK
<1> QED  BY <1>3, <1>4

\* Nothing is read.
LEMMA NoTokenKeeps ==
    ASSUME TokensOK, UNCHANGED tokens
    PROVE  TokensOK'
BY DEF TokensOK, tokens

\* An operator has a binding power.
LEMMA BindingPower ==
    ASSUME NEW op \in {"NOT"} \cup Infix
    PROVE  rbp(op) \in Nat
<1>1. DOMAIN Operators = 1 .. 9
  BY DEF Operators
<1>2. \E i \in DOMAIN Operators : Operators[i] = op
  BY <1>1 DEF Operators, Infix
<1>3. OpTag(op) \in DOMAIN Operators
  BY <1>2, Zenon DEF OpTag
<1> QED  BY <1>1, <1>3 DEF rbp

\* The token at hand as an expression.
LEMMA TokenIsExpr ==
    ASSUME TokensOK
    PROVE  /\ FromToken(next) \in Expr
           /\ FromToken(next).tag \notin {"NONE", "UNINITIALISED", "CONDITION"}
<1>1. next \in AllTokens
  <2>1. Range(input) \subseteq AllTokens
    BY DEF TokensOK, Range
  <2>2. "EOF" \in AllTokens
    BY DEF AllTokens
  <2> QED  BY <2>1, <2>2 DEF TokensOK
<1> QED  BY <1>1 DEF FromToken, Expr

\* The values of lhs that are no condition.
LEMMA NothingIsExpr == None \in Expr /\ Uninitialised \in Expr
BY DEF None, Uninitialised, Expr

\* A call of parse_expression starts at its first operand.
LEMMA NewCallIsCall ==
    ASSUME NEW min_bp \in Nat
    PROVE  /\ NewCall(min_bp) \in Call /\ NewCall(min_bp).at = "operand"
           /\ NewCall(min_bp).lhs = Uninitialised
BY NothingIsExpr DEF NewCall, Call

-----------------------------------------------------------------------------
(* The stack of calls.                                                      *)

\* s is calls without the innermost call.
LEMMA ReturnShape ==
    ASSUME calls \in Seq(Call), calls # <<>>, NEW s, s = Front(calls)
    PROVE  /\ s \in Seq(Call) /\ Len(s) = Len(calls) - 1
           /\ \A i \in 1 .. Len(calls) - 1 : s[i] = calls[i]
<1>1. Len(calls) \in Nat \ {0}
  OBVIOUS
<1>2. \A i \in 1 .. Len(calls) - 1 : calls[i] \in Call
  OBVIOUS
<1>3. /\ s \in Seq(Call)
      /\ Len(s) = IF 1 <= Len(calls) - 1 THEN Len(calls) - 1 - 1 + 1 ELSE 0
      /\ \A i \in 1 .. Len(calls) - 1 - 1 + 1 : s[i] = calls[1 + i - 1]
  BY <1>1, <1>2, SubSeqProperties DEF Front
<1>4. \A n \in Nat \ {0} : /\ (IF 1 <= n - 1 THEN n - 1 - 1 + 1 ELSE 0) = n - 1
                          /\ n - 1 - 1 + 1 = n - 1
  OBVIOUS
<1>5. \A i \in 1 .. Len(calls) - 1 : 1 + i - 1 = i
  BY <1>1
<1>6. Len(s) = Len(calls) - 1
  BY <1>1, <1>3, <1>4, Zenon
<1>7. \A i \in 1 .. Len(calls) - 1 : s[i] = calls[i]
  BY <1>1, <1>3, <1>4, <1>5, Zenon
<1> QED  BY <1>3, <1>6, <1>7

\* s is calls with another innermost call.
LEMMA ResumeShape ==
    ASSUME calls \in Seq(Call), calls # <<>>, NEW call \in Call,
           NEW s, s = Append(Front(calls), call)
    PROVE  /\ s \in Seq(Call) /\ Len(s) = Len(calls) /\ s # <<>>
           /\ s[Len(s)] = call
           /\ \A i \in 1 .. Len(calls) - 1 : s[i] = calls[i]
<1>1. Front(calls) \in Seq(Call) /\ Len(Front(calls)) = Len(calls) - 1
  BY ReturnShape
<1>2. \A i \in 1 .. Len(calls) - 1 : Front(calls)[i] = calls[i]
  BY ReturnShape
<1>3. Len(calls) \in Nat \ {0}
  OBVIOUS
<1>4. s \in Seq(Call) /\ Len(s) = Len(calls) /\ s[Len(calls)] = call
  BY <1>1, <1>3
<1>5. \A i \in 1 .. Len(calls) - 1 : s[i] = Front(calls)[i]
  BY <1>1, <1>3
<1>6. s # <<>>
  BY <1>3, <1>4
<1> QED  BY <1>2, <1>4, <1>5, <1>6

\* The same of a step.
LEMMA ResumeStep ==
    ASSUME calls \in Seq(Call), calls # <<>>, NEW call, call \in Call, Resume(call)
    PROVE  /\ calls' \in Seq(Call) /\ Len(calls') = Len(calls) /\ calls' # <<>>
           /\ calls'[Len(calls')] = call /\ calls'[Len(calls)] = call
           /\ \A i \in 1 .. Len(calls) - 1 : calls'[i] = calls[i]
<1>1. calls' = Append(Front(calls), call)
  BY DEF Resume
<1>2. /\ calls' \in Seq(Call) /\ Len(calls') = Len(calls) /\ calls' # <<>>
      /\ calls'[Len(calls')] = call
      /\ \A i \in 1 .. Len(calls) - 1 : calls'[i] = calls[i]
  BY <1>1, ResumeShape, ZenonT(60)
<1> QED  BY <1>2

\* What a recursive call does to the stack.
LEMMA DescendStep ==
    ASSUME calls \in Seq(Call), calls # <<>>, NEW call, call \in Call, NEW min_bp \in Nat,
           Descend(call, min_bp)
    PROVE  /\ calls' \in Seq(Call) /\ Len(calls') = Len(calls) + 1 /\ calls' # <<>>
           /\ calls'[Len(calls)] = call /\ calls'[Len(calls')] = NewCall(min_bp)
           /\ \A i \in 1 .. Len(calls) - 1 : calls'[i] = calls[i]
<1> DEFINE r == Append(Front(calls), call)
           new == NewCall(min_bp)
<1>1. /\ r \in Seq(Call) /\ Len(r) = Len(calls) /\ r[Len(r)] = call
      /\ \A i \in 1 .. Len(calls) - 1 : r[i] = calls[i]
  BY ResumeShape
<1>2. calls' = Append(r, new) /\ new \in Call /\ Len(calls) \in Nat \ {0}
  BY NewCallIsCall DEF Descend
<1> HIDE DEF r, new
<1>3. calls' \in Seq(Call) /\ Len(calls') = Len(calls) + 1 /\ calls'[Len(calls) + 1] = new
  BY <1>1, <1>2
<1>4. \A i \in 1 .. Len(calls) : calls'[i] = r[i]
  BY <1>1, <1>2
<1>5. calls' # <<>>
  BY <1>2, <1>3
<1>6. calls'[Len(calls)] = call /\ \A i \in 1 .. Len(calls) - 1 : calls'[i] = calls[i]
  BY <1>1, <1>2, <1>4
<1> QED  BY <1>3, <1>5, <1>6 DEF new

\* What a return does to the stack.
LEMMA ReturnStep ==
    ASSUME calls \in Seq(Call), calls # <<>>, calls' = Front(calls)
    PROVE  /\ calls' \in Seq(Call) /\ Len(calls') = Len(calls) - 1
           /\ \A i \in 1 .. Len(calls) - 1 : calls'[i] = calls[i]
BY ReturnShape, Zenon

\* The running call is one of the stack.
LEMMA TopIsCall ==
    ASSUME calls \in Seq(Call), calls # <<>>
    PROVE  Len(calls) \in Nat \ {0} /\ Top = calls[Len(calls)] /\ Top \in Call
BY DEF Top, Last

-----------------------------------------------------------------------------
(* The holders.                                                             *)

\* What each holder holds.
LEMMA HeldAt ==
    ASSUME NEW C, NEW cs, Len(cs) \in Nat, NEW r, NEW root
    PROVE  /\ Held(C, cs, r, root)[-1] = TreeIn(C, r)
           /\ Held(C, cs, r, root)[0] = RootTree(C, root)
           /\ \A i \in 1 .. Len(cs) : Held(C, cs, r, root)[i] = TreeIn(C, cs[i].lhs)
           /\ \A i \in Int : i < -1 \/ i > Len(cs) => Held(C, cs, r, root)[i] = {}
BY DEF Held

\* What is no condition holds none.
LEMMA NoTree ==
    ASSUME NEW C, NEW e, e.tag # "CONDITION"
    PROVE  TreeIn(C, e) = {}
BY DEF TreeIn

\* Sorted depends on what the holders hold only.
LEMMA SameStaysSorted ==
    ASSUME NEW O, NEW P, NEW F, NEW D, NEW n, Sorted(O, F, D, n), \A i \in Int : P[i] = O[i]
    PROVE  Sorted(P, F, D, n)
BY DEF Sorted

\* O[1] to O[n] are those of t, and the holders around them have nothing.
RowOf(O, n, t) ==
    /\ \A i \in 1 .. n : O[i] = t[i]
    /\ \A i \in Int : i < -1 \/ i > n => O[i] = {}

\* t and u differ at n, and what u has behind it is nothing.
Agree(t, n, u, m) ==
    /\ n \in Nat \ {0} /\ m \in {n - 1, n, n + 1}
    /\ \A i \in 1 .. n - 1 : t[i] = u[i]
    /\ m = n + 1 => u[m] = {}

\* Two rows of holders that differ at their heads only, the second shorter or longer
\* by one at most, and by one that has nothing.
LEMMA SameElsewhere ==
    ASSUME NEW n, NEW m, NEW O, NEW P, NEW t, NEW u,
           O[0] = P[0], RowOf(O, n, t), RowOf(P, m, u), Agree(t, n, u, m)
    PROVE  \A i \in Int \ {-1, n} : P[i] = O[i]
<1> USE DEF RowOf, Agree
<1> SUFFICES ASSUME NEW i \in Int, i # -1, i # n PROVE P[i] = O[i]
  OBVIOUS
<1>1. CASE i < -1
  BY <1>1
<1>2. CASE i = 0
  BY <1>2
<1>3. CASE i \in 1 .. n - 1
  BY <1>3
<1>4. CASE i = n + 1
  <2>1. O[i] = {}
    BY <1>4
  <2>2. CASE m = n + 1
    BY <2>1, <2>2, <1>4
  <2>3. CASE m # n + 1
    <3>1. i > m
      BY <2>3, <1>4
    <3> QED  BY <2>1, <3>1
  <2> QED  BY <2>2, <2>3
<1>5. CASE i > n + 1
  <2>1. i > n /\ i > m
    BY <1>5
  <2> QED  BY <2>1
<1> QED  BY <1>1, <1>2, <1>3, <1>4, <1>5

\* Another innermost call, and perhaps one inside it that has nothing yet.
LEMMA HeldByOthers ==
    ASSUME Len(calls) \in Nat \ {0}, NEW s, NEW r, NEW q, NEW root, NEW C,
           Len(s) \in {Len(calls) - 1, Len(calls), Len(calls) + 1},
           \A i \in 1 .. Len(calls) - 1 : s[i] = calls[i],
           Len(s) = Len(calls) + 1 => s[Len(s)].lhs = Uninitialised
    PROVE  \A i \in Int \ {-1, Len(calls)} : Held(C, s, r, root)[i] = Held(C, calls, q, root)[i]
<1> DEFINE before == Held(C, calls, q, root)
           after == Held(C, s, r, root)
           len == Len(calls)
<1>1. len \in Nat \ {0} /\ Len(s) \in Nat
  OBVIOUS
<1>2. TreeIn(C, Uninitialised) = {}
  BY DEF TreeIn, Uninitialised
<1>3. /\ before[0] = RootTree(C, root)
      /\ \A i \in 1 .. len : before[i] = TreeIn(C, calls[i].lhs)
      /\ \A i \in Int : i < -1 \/ i > len => before[i] = {}
  BY <1>1, HeldAt, Zenon
<1>4. /\ after[0] = RootTree(C, root)
      /\ \A i \in 1 .. Len(s) : after[i] = TreeIn(C, s[i].lhs)
      /\ \A i \in Int : i < -1 \/ i > Len(s) => after[i] = {}
  BY <1>1, HeldAt, Zenon
<1> DEFINE old == [i \in 1 .. len |-> TreeIn(C, calls[i].lhs)]
           new == [i \in 1 .. Len(s) |-> TreeIn(C, s[i].lhs)]
<1>5. /\ \A i \in 1 .. len : before[i] = old[i]
      /\ \A i \in 1 .. Len(s) : after[i] = new[i]
  BY <1>3, <1>4
<1>6. \A i \in 1 .. len - 1 : old[i] = new[i]
  BY <1>1
<1>7. Len(s) = len + 1 => new[Len(s)] = {}
  BY <1>1, <1>2
<1>8. Len(s) \in {len - 1, len, len + 1}
  OBVIOUS
<1>9. before[0] = after[0]
  BY <1>3, <1>4
<1>10. RowOf(before, len, old)
  BY <1>3, <1>5 DEF RowOf
<1>11. RowOf(after, Len(s), new)
  BY <1>4, <1>5 DEF RowOf
<1>12. Agree(old, len, new, Len(s))
  BY <1>1, <1>6, <1>7, <1>8 DEF Agree
<1> HIDE DEF old, new, before, after, len
<1>13. \A i \in Int \ {-1, len} : after[i] = before[i]
  BY <1>9, <1>10, <1>11, <1>12, SameElsewhere
<1> QED  BY <1>13 DEF before, after, len

\* The two holders that a step of an expression is about.
LEMMA HeldHeads ==
    ASSUME NEW cs, NEW n \in Nat \ {0}, Len(cs) \in {n - 1, n, n + 1}, NEW r, NEW root, NEW C
    PROVE  /\ Held(C, cs, r, root)[-1] = TreeIn(C, r)
           /\ Len(cs) >= n => Held(C, cs, r, root)[n] = TreeIn(C, cs[n].lhs)
           /\ Len(cs) = n - 1 => Held(C, cs, r, root)[n] = {}
<1>1. Len(cs) \in Nat
  OBVIOUS
<1> DEFINE held == Held(C, cs, r, root)
<1>2. /\ held[-1] = TreeIn(C, r)
      /\ \A i \in 1 .. Len(cs) : held[i] = TreeIn(C, cs[i].lhs)
      /\ \A i \in Int : i < -1 \/ i > Len(cs) => held[i] = {}
  BY <1>1 DEF Held
<1> HIDE DEF held
<1>3. Len(cs) >= n => held[n] = TreeIn(C, cs[n].lhs)
  BY <1>1, <1>2
<1>4. Len(cs) = n - 1 => held[n] = {}
  BY <1>1, <1>2
<1> QED  BY <1>2, <1>3, <1>4 DEF held

-----------------------------------------------------------------------------
(* The parts of the invariant in a step of an expression.                   *)

\* What a call has is still there when there are more conditions and more tokens.
LEMMA CallStaysOK ==
    ASSUME NEW call, NEW n \in Nat, NEW m \in Nat, n <= m,
           CallOK(call, n)
    PROVE  CallOK(call, m)
BY DEF CallOK, Exists

\* The stack of calls after a step.
LEMMA CallsStayOK ==
    ASSUME CallsOK, calls # <<>>, calls' \in Seq(Call),
           Len(calls') \in {Len(calls) - 1, Len(calls), Len(calls) + 1},
           \A i \in 1 .. Len(calls) - 1 : calls'[i] = calls[i],
           Len(conds) \in Nat, Len(conds') \in Nat, Len(conds) <= Len(conds'),
           Len(calls') >= Len(calls) =>
              err' = "ok" /\ CallOK(calls'[Len(calls)], Len(conds')),
           Len(calls') = Len(calls) + 1 =>
              calls'[Len(calls)].at \in Waiting /\ CallOK(calls'[Len(calls')], Len(conds'))
    PROVE  CallsOK'
<1> DEFINE n == Len(calls)
<1>1. n \in Nat \ {0}
  BY DEF CallsOK
<1>2. SUFFICES ASSUME NEW i \in 1 .. Len(calls')
               PROVE  /\ CallOK(calls'[i], Len(conds'))
                      /\ i < Len(calls') \/ err' # "ok" => calls'[i].at \in Waiting
  BY DEF CallsOK
<1>3. Len(calls') \in {n - 1, n, n + 1} /\ i \in Nat
  OBVIOUS
<1>4. CASE i \in 1 .. n - 1
  <2>1. calls'[i] = calls[i]
    BY <1>4
  <2>2. CallOK(calls[i], Len(conds)) /\ calls[i].at \in Waiting
    BY <1>1, <1>4 DEF CallsOK
  <2>3. CallOK(calls[i], Len(conds'))
    BY <2>2, CallStaysOK
  <2> QED  BY <2>1, <2>2, <2>3
<1>5. CASE i = n
  BY <1>1, <1>3, <1>5
<1>6. CASE i = n + 1
  BY <1>1, <1>3, <1>6
<1> HIDE DEF n
<1> QED  BY <1>1, <1>3, <1>4, <1>5, <1>6

\* What a step of an expression finds.
LEMMA InExpression ==
    ASSUME PInv, step = "expression", calls # <<>>
    PROVE  /\ Len(calls) \in Nat \ {0} /\ calls \in Seq(Call)
           /\ Top = calls[Len(calls)] /\ Top \in Call /\ CallOK(Top, Len(conds))
           /\ ret # None => Top.at \in Waiting /\ err = "ok"
           /\ filter = 0 /\ Live = 0 /\ Len(conds) \in Nat /\ InOrder(conds)
<1>1. Len(calls) \in Nat \ {0} /\ Top = calls[Len(calls)] /\ Top \in Call /\ calls \in Seq(Call)
  BY TopIsCall DEF PInv, CallsOK
<1>2. CallOK(Top, Len(conds))
  BY <1>1 DEF PInv, CallsOK
<1>3. ret # None => Top.at \in Waiting /\ err = "ok"
  BY <1>1 DEF PInv, RetOK
<1>4. filter = 0
  BY DEF PInv, StepOK
<1>5. Live = 0
  BY <1>4 DEF Live
<1>6. InOrder(conds) /\ Len(conds) \in Nat
  BY DEF PInv, CondsOK, InOrder
<1> QED  BY <1>1, <1>2, <1>3, <1>4, <1>5, <1>6

\* Nothing moves between the holders but what the innermost call and the expression
\* just returned have, which are moved, joined or dropped.
LEMMA HeldElsewhere ==
    ASSUME PInv, step = "expression", calls # <<>>,
           Len(calls') \in {Len(calls) - 1, Len(calls), Len(calls) + 1},
           \A i \in 1 .. Len(calls) - 1 : calls'[i] = calls[i],
           Len(calls') = Len(calls) + 1 => calls'[Len(calls')].lhs = Uninitialised,
           conds' = conds, step' \in {"expression", "wild"}, filter' = filter
    PROVE  LET O == Held(conds, calls, ret, Live)
               P == Held(conds, calls', ret', Live)
               n == Len(calls)
           IN  /\ Live' = Live
               /\ \A i \in Int \ {-1, n} : P[i] = O[i]
               /\ O[-1] = TreeIn(conds, ret) /\ O[n] = TreeIn(conds, Top.lhs)
               /\ P[-1] = TreeIn(conds, ret')
               /\ Len(calls') >= n => P[n] = TreeIn(conds, calls'[n].lhs)
               /\ Len(calls') = n - 1 => P[n] = {}
<1> DEFINE n == Len(calls)
           O == Held(conds, calls, ret, Live)
           P == Held(conds, calls', ret', Live)
<1>1. n \in Nat \ {0} /\ Top = calls[n]
  BY InExpression
<1>2. Live' = Live
  BY DEF Live
<1>3. \A i \in Int \ {-1, n} : P[i] = O[i]
  BY <1>1, HeldByOthers
<1>4. Len(calls) \in {n - 1, n, n + 1} /\ Len(calls) >= n
  BY <1>1
<1>5. O[-1] = TreeIn(conds, ret) /\ O[n] = TreeIn(conds, calls[n].lhs)
  BY <1>1, <1>4, HeldHeads
<1>6. /\ P[-1] = TreeIn(conds, ret')
      /\ Len(calls') >= n => P[n] = TreeIn(conds, calls'[n].lhs)
      /\ Len(calls') = n - 1 => P[n] = {}
  BY <1>1, HeldHeads
<1> HIDE DEF O, P
<1>7. /\ Live' = Live
      /\ \A i \in Int \ {-1, n} : P[i] = O[i]
      /\ O[-1] = TreeIn(conds, ret) /\ O[n] = TreeIn(conds, Top.lhs)
      /\ P[-1] = TreeIn(conds, ret')
      /\ Len(calls') >= n => P[n] = TreeIn(conds, calls'[n].lhs)
      /\ Len(calls') = n - 1 => P[n] = {}
  BY <1>1, <1>2, <1>3, <1>5, <1>6
<1> QED  BY <1>7 DEF O, P

\* Each condition where it was, or moved between those two holders.
LEMMA ConditionsMove ==
    ASSUME PInv, step = "expression", calls # <<>>,
           Len(calls') \in {Len(calls) - 1, Len(calls), Len(calls) + 1},
           \A i \in 1 .. Len(calls) - 1 : calls'[i] = calls[i],
           Len(calls') = Len(calls) + 1 => calls'[Len(calls')].lhs = Uninitialised,
           UNCHANGED memory, step' = step, filter' = filter,
           NEW U, U = (IF Len(calls') >= Len(calls) THEN TreeIn(conds, calls'[Len(calls)].lhs) ELSE {}),
           \/ TreeIn(conds, ret') = TreeIn(conds, ret) /\ U = TreeIn(conds, Top.lhs)
           \/ TreeIn(conds, ret) = {} /\ TreeIn(conds, ret') = TreeIn(conds, Top.lhs) /\ U = {}
           \/ TreeIn(conds, Top.lhs) = {} /\ U = TreeIn(conds, ret) /\ TreeIn(conds, ret') = {}
    PROVE  CondsOK'
<1> DEFINE n == Len(calls)
           O == Held(conds, calls, ret, Live)
           P == Held(conds, calls', ret', Live)
<1>1. conds' = conds /\ freed' = freed /\ destroyed' = destroyed
  BY DEF memory
<1>2. /\ Live' = Live
      /\ \A i \in Int \ {-1, n} : P[i] = O[i]
      /\ O[-1] = TreeIn(conds, ret) /\ O[n] = TreeIn(conds, Top.lhs)
      /\ P[-1] = TreeIn(conds, ret')
      /\ Len(calls') >= n => P[n] = TreeIn(conds, calls'[n].lhs)
      /\ Len(calls') = n - 1 => P[n] = {}
  BY <1>1, HeldElsewhere
<1>3. n \in Nat \ {0} /\ (Len(calls') >= n \/ Len(calls') = n - 1)
  BY InExpression
<1>4. P[n] = U
  BY <1>2, <1>3
<1>5. Sorted(O, freed, destroyed, Len(conds))
  BY DEF PInv, CondsOK
<1> HIDE DEF n, O, P
<1>6. n \in Int /\ -1 \in Int /\ n # -1
  BY <1>3
<1>10. Sorted(P, freed, destroyed, Len(conds))
  <2>1. CASE TreeIn(conds, ret') = TreeIn(conds, ret) /\ U = TreeIn(conds, Top.lhs)
    <3>1. \A i \in Int : P[i] = O[i]
      BY <1>2, <1>4, <2>1
    <3> QED  BY <3>1, <1>5, SameStaysSorted
  <2>2. CASE TreeIn(conds, ret) = {} /\ TreeIn(conds, ret') = TreeIn(conds, Top.lhs) /\ U = {}
    <3>1. O[-1] = {} /\ P[-1] = O[n] /\ P[n] = {} /\ \A i \in Int \ {-1, n} : P[i] = O[i]
      BY <1>2, <1>4, <2>2
    <3> QED  BY <3>1, <1>5, <1>6, MoveStaysSorted
  <2>3. CASE TreeIn(conds, Top.lhs) = {} /\ U = TreeIn(conds, ret) /\ TreeIn(conds, ret') = {}
    <3>1. O[n] = {} /\ P[n] = O[-1] /\ P[-1] = {} /\ \A i \in Int \ {n, -1} : P[i] = O[i]
      BY <1>2, <1>4, <2>3
    <3> QED  BY <3>1, <1>5, <1>6, MoveStaysSorted
  <2> QED  BY <2>1, <2>2, <2>3
<1>11. Sorted(Held(conds', calls', ret', Live'), freed', destroyed', Len(conds'))
  BY <1>1, <1>2, <1>10 DEF P
<1> QED  BY <1>1, <1>11 DEF PInv, CondsOK

\* The step stays in the expression.
LEMMA StepStaysOK ==
    ASSUME PInv, step = "expression", step' = step, filter' = filter, Len(conds) <= Len(conds'),
           Len(conds') \in Nat
    PROVE  StepOK'
<1>1. filter = 0
  BY DEF PInv, StepOK
<1> QED  BY <1>1 DEF StepOK

-----------------------------------------------------------------------------
(* The steps of __parse_expression keep the invariant.                      *)

LEMMA AtomOperandKeeps ==
    ASSUME PInv, AtomOperand
    PROVE  PInv'
<1> DEFINE call == [Top EXCEPT !.lhs = FromToken(next), !.at = "loop"]
<1>0. /\ step = "expression" /\ err = "ok" /\ calls # <<>> /\ Top.at = "operand"
      /\ Resume(call) /\ Advance
      /\ UNCHANGED <<step, result>> /\ UNCHANGED <<ret, memory>>
  BY DEF AtomOperand, In, Quietly
<1>1. TokensOK'
  BY <1>0, AdvanceKeeps DEF PInv
<1>2. /\ Len(calls) \in Nat \ {0} /\ calls \in Seq(Call) /\ Top \in Call
      /\ CallOK(Top, Len(conds))
      /\ ret # None => Top.at \in Waiting /\ err = "ok"
      /\ Len(conds) \in Nat
  BY <1>0, InExpression, Zenon
<1>3. ret = None /\ Top.lhs = Uninitialised
  BY <1>0, <1>2 DEF Waiting, CallOK
<1>4. FromToken(next) \in Expr /\ FromToken(next).tag \notin {"NONE", "UNINITIALISED", "CONDITION"}
  BY TokenIsExpr DEF PInv
<1>5. call \in Call /\ call.lhs = FromToken(next) /\ call.at = "loop"
  BY <1>2, <1>4 DEF Call
<1> HIDE DEF call
<1>6. /\ calls' \in Seq(Call) /\ Len(calls') = Len(calls) /\ calls'[Len(calls)] = call
      /\ \A i \in 1 .. Len(calls) - 1 : calls'[i] = calls[i]
  BY <1>0, <1>2, <1>5, ResumeStep, Zenon
<1>7. conds' = conds /\ err' = err /\ filter' = filter /\ step' = step /\ ret' = ret
  BY <1>0 DEF memory, result
<1>8. CallOK(call, Len(conds'))
  BY <1>4, <1>5 DEF CallOK, Exists
<1>9. CallsOK'
  BY <1>0, <1>1, <1>2, <1>6, <1>7, <1>8, CallsStayOK DEF PInv
<1>10. RetOK'
  BY <1>3, <1>7, NothingIsExpr DEF RetOK, None, Exists
<1>11. StepOK'
  BY <1>0, <1>2, <1>7, StepStaysOK
<1>12. TreeIn(conds, call.lhs) = {} /\ TreeIn(conds, Top.lhs) = {}
  BY <1>3, <1>4, <1>5, NoTree DEF Uninitialised
<1>13. CondsOK'
  <2>1. Len(calls') >= Len(calls) /\ Len(calls') # Len(calls) + 1
    BY <1>2, <1>6
  <2>2. UNCHANGED memory
    BY <1>0
  <2> QED  BY <1>0, <1>2, <1>6, <1>7, <1>12, <2>1, <2>2, ConditionsMove
<1> QED  BY <1>1, <1>9, <1>10, <1>11, <1>13 DEF PInv

LEMMA NestedOperandKeeps ==
    ASSUME PInv, NestedOperand
    PROVE  PInv'
<1> DEFINE group == [Top EXCEPT !.at = "group"]
           prefix == [Top EXCEPT !.at = "prefix", !.op = next]
<1>0. /\ step = "expression" /\ err = "ok" /\ calls # <<>> /\ Top.at = "operand"
      /\ next \in {"(", "NOT"}
      /\ IF next = "(" THEN Descend(group, 0) ELSE Descend(prefix, rbp(next))
      /\ Advance /\ UNCHANGED <<step, result>> /\ UNCHANGED <<ret, memory>>
  BY DEF NestedOperand, In, Quietly
<1>1. TokensOK'
  BY <1>0, AdvanceKeeps DEF PInv
<1>2. /\ Len(calls) \in Nat \ {0} /\ calls \in Seq(Call) /\ Top \in Call
      /\ CallOK(Top, Len(conds))
      /\ ret # None => Top.at \in Waiting /\ err = "ok"
      /\ Len(conds) \in Nat
  BY <1>0, InExpression, Zenon
<1>3. ret = None /\ Top.lhs = Uninitialised
  BY <1>0, <1>2 DEF Waiting, CallOK
<1>5. group \in Call /\ group.lhs = Top.lhs /\ group.at = "group"
  BY <1>2 DEF Call
<1>6. next = "NOT" => prefix \in Call /\ prefix.lhs = Top.lhs /\ prefix.at = "prefix" /\ prefix.op = "NOT"
  BY <1>2 DEF Call
<1>7. PICK call, min_bp : /\ call \in Call /\ call.lhs = Top.lhs /\ min_bp \in Nat
                          /\ call.at = "group" \/ (call.at = "prefix" /\ call.op = "NOT")
                          /\ Descend(call, min_bp)
  <2>1. rbp("NOT") \in Nat /\ 0 \in Nat
    BY BindingPower
  <2> HIDE DEF group, prefix
  <2> QED  BY <1>0, <1>5, <1>6, <2>1
<1>8. /\ calls' \in Seq(Call) /\ Len(calls') = Len(calls) + 1
      /\ calls'[Len(calls)] = call /\ calls'[Len(calls')] = NewCall(min_bp)
      /\ \A i \in 1 .. Len(calls) - 1 : calls'[i] = calls[i]
  BY <1>0, <1>2, <1>7, DescendStep, Zenon
<1>9. NewCall(min_bp).at = "operand" /\ NewCall(min_bp).lhs = Uninitialised
  BY DEF NewCall
<1>10. conds' = conds /\ err' = err /\ filter' = filter /\ step' = step /\ ret' = ret /\ UNCHANGED memory
  BY <1>0 DEF memory, result
<1>11. CallOK(call, Len(conds')) /\ CallOK(NewCall(min_bp), Len(conds'))
  BY <1>3, <1>7, <1>9 DEF CallOK, Exists, Uninitialised
<1>12. Len(calls') >= Len(calls) /\ call.at \in Waiting
  BY <1>2, <1>7, <1>8 DEF Waiting
<1>13. CallsOK'
  BY <1>0, <1>1, <1>2, <1>8, <1>10, <1>11, <1>12, CallsStayOK DEF PInv
<1>14. RetOK'
  BY <1>3, <1>10, NothingIsExpr DEF RetOK, None, Exists
<1>15. StepOK'
  BY <1>0, <1>2, <1>10, StepStaysOK
<1>16. CondsOK'
  <2>1. calls'[Len(calls)].lhs = Top.lhs /\ calls'[Len(calls')].lhs = Uninitialised
    BY <1>7, <1>8, <1>9
  <2> QED  BY <1>0, <1>2, <1>8, <1>10, <1>12, <2>1, ConditionsMove
<1> QED  BY <1>1, <1>13, <1>14, <1>15, <1>16 DEF PInv

LEMMA InfixOperatorKeeps ==
    ASSUME PInv, InfixOperator
    PROVE  PInv'
<1> DEFINE call == [Top EXCEPT !.at = "infix", !.op = next]
<1>0. /\ step = "expression" /\ err = "ok" /\ calls # <<>> /\ Top.at = "loop"
      /\ next \in Infix /\ Supports(next, Top.lhs)
      /\ Descend(call, rbp(next))
      /\ Advance /\ UNCHANGED <<step, result>> /\ UNCHANGED <<ret, memory>>
  BY DEF InfixOperator, In, Quietly, Collects
<1>1. TokensOK'
  BY <1>0, AdvanceKeeps DEF PInv
<1>2. /\ Len(calls) \in Nat \ {0} /\ calls \in Seq(Call) /\ Top \in Call
      /\ CallOK(Top, Len(conds))
      /\ ret # None => Top.at \in Waiting /\ err = "ok"
      /\ Len(conds) \in Nat
  BY <1>0, InExpression, Zenon
<1>3. ret = None
  BY <1>0, <1>2 DEF Waiting
<1>4. call \in Call /\ call.lhs = Top.lhs /\ call.at = "infix" /\ call.op = next
  BY <1>0, <1>2 DEF Call
<1>5. rbp(next) \in Nat
  BY <1>0, BindingPower
<1> HIDE DEF call
<1>6. /\ calls' \in Seq(Call) /\ Len(calls') = Len(calls) + 1
      /\ calls'[Len(calls)] = call /\ calls'[Len(calls')] = NewCall(rbp(next))
      /\ \A i \in 1 .. Len(calls) - 1 : calls'[i] = calls[i]
  BY <1>0, <1>2, <1>4, <1>5, DescendStep, Zenon
<1>7. NewCall(rbp(next)).at = "operand" /\ NewCall(rbp(next)).lhs = Uninitialised
  BY DEF NewCall
<1>8. conds' = conds /\ err' = err /\ filter' = filter /\ step' = step /\ ret' = ret /\ UNCHANGED memory
  BY <1>0 DEF memory, result
<1>9. Top.lhs.tag \notin {"NONE", "UNINITIALISED"} /\ Exists(Top.lhs, Len(conds))
  BY <1>0, <1>2 DEF CallOK
<1>10. CallOK(call, Len(conds'))
  BY <1>0, <1>4, <1>8, <1>9 DEF CallOK
<1>11. CallOK(NewCall(rbp(next)), Len(conds'))
  BY <1>7 DEF CallOK, Exists, Uninitialised
<1>12. Len(calls') >= Len(calls) /\ call.at \in Waiting
  BY <1>2, <1>4, <1>6 DEF Waiting
<1>13. CallsOK'
  BY <1>0, <1>1, <1>2, <1>6, <1>8, <1>10, <1>11, <1>12, CallsStayOK DEF PInv
<1>14. RetOK'
  BY <1>3, <1>8, NothingIsExpr DEF RetOK, None, Exists
<1>15. StepOK'
  BY <1>0, <1>2, <1>8, StepStaysOK
<1>16. CondsOK'
  <2>1. calls'[Len(calls)].lhs = Top.lhs /\ calls'[Len(calls')].lhs = Uninitialised
    BY <1>4, <1>6, <1>7
  <2> QED  BY <1>0, <1>2, <1>6, <1>8, <1>12, <2>1, ConditionsMove
<1> QED  BY <1>1, <1>13, <1>14, <1>15, <1>16 DEF PInv

LEMMA EndExpressionKeeps ==
    ASSUME PInv, EndExpression
    PROVE  PInv'
<1>0. /\ step = "expression" /\ err = "ok" /\ calls # <<>> /\ Top.at = "loop"
      /\ ret' = Top.lhs /\ calls' = Front(calls)
      /\ UNCHANGED <<step, result>> /\ UNCHANGED tokens /\ UNCHANGED memory
  BY DEF EndExpression, In, Quietly
<1>1. TokensOK'
  BY <1>0, NoTokenKeeps DEF PInv
<1>2. /\ Len(calls) \in Nat \ {0} /\ calls \in Seq(Call) /\ Top = calls[Len(calls)] /\ Top \in Call
      /\ CallOK(Top, Len(conds))
      /\ ret # None => Top.at \in Waiting /\ err = "ok"
      /\ Len(conds) \in Nat
  BY <1>0, InExpression, Zenon
<1>3. ret = None
  BY <1>0, <1>2 DEF Waiting
<1>4. /\ calls' \in Seq(Call) /\ Len(calls') = Len(calls) - 1
      /\ \A i \in 1 .. Len(calls) - 1 : calls'[i] = calls[i]
  BY <1>0, <1>2, ReturnStep, Zenon
<1>5. conds' = conds /\ err' = err /\ filter' = filter /\ step' = step
  BY <1>0 DEF memory, result
<1>6. Top.lhs \in Expr /\ Top.lhs.tag \notin {"NONE", "UNINITIALISED"} /\ Exists(Top.lhs, Len(conds))
  BY <1>0, <1>2 DEF CallOK, Call
<1>7. ~(Len(calls') >= Len(calls)) /\ Len(calls') # Len(calls) + 1
  BY <1>2, <1>4
<1>8. CallsOK'
  BY <1>0, <1>1, <1>2, <1>4, <1>5, <1>7, CallsStayOK DEF PInv
<1>9. calls' # <<>> => calls'[Len(calls')].at \in Waiting
  <2>1. calls' # <<>> => Len(calls') \in 1 .. Len(calls) - 1
    BY <1>2, <1>4
  <2>2. \A i \in 1 .. Len(calls) - 1 : calls[i].at \in Waiting
    BY <1>2 DEF PInv, CallsOK
  <2> QED  BY <1>4, <2>1, <2>2
<1>10. RetOK'
  BY <1>0, <1>5, <1>6, <1>9 DEF RetOK
<1>11. StepOK'
  BY <1>0, <1>2, <1>5, StepStaysOK
<1>12. TreeIn(conds, ret) = {}
  BY <1>3, NoTree DEF None
<1>13. CondsOK'
  BY <1>0, <1>2, <1>4, <1>5, <1>7, <1>12, ConditionsMove
<1> QED  BY <1>1, <1>8, <1>10, <1>11, <1>13 DEF PInv

\* What the innermost call and the expression just returned hold is not shared.
LEMMA HeadsDiffer ==
    ASSUME PInv, step = "expression", calls # <<>>
    PROVE  /\ TreeIn(conds, ret) \cap TreeIn(conds, Top.lhs) = {}
           /\ Exists(ret, Len(conds)) /\ Exists(Top.lhs, Len(conds))
<1> DEFINE n == Len(calls)
           O == Held(conds, calls, ret, Live)
<1>1. n \in Nat \ {0} /\ Top = calls[n] /\ CallOK(Top, Len(conds))
  BY InExpression
<1>2. Len(calls) \in {n - 1, n, n + 1} /\ Len(calls) >= n
  BY <1>1
<1>3. O[-1] = TreeIn(conds, ret) /\ O[n] = TreeIn(conds, Top.lhs)
  BY <1>1, <1>2, HeldHeads
<1>4. Sorted(O, freed, destroyed, Len(conds))
  BY DEF PInv, CondsOK
<1> HIDE DEF O
<1>5. O[-1] \cap O[n] = {}
  BY <1>1, <1>4 DEF Sorted
<1> QED  BY <1>1, <1>3, <1>5 DEF PInv, RetOK, CallOK

\* A call that fails destroys what it and the expression just returned have.
LEMMA FailKeeps ==
    ASSUME PInv, step = "expression", calls # <<>>,
           NEW error, error # "ok", NEW exprs, Fail(error, exprs),
           \A i \in DOMAIN exprs : Exists(exprs[i], Len(conds)),
           \A i, j \in DOMAIN exprs : i # j => TreeIn(conds, exprs[i]) \cap TreeIn(conds, exprs[j]) = {},
           UNION {TreeIn(conds, exprs[i]) : i \in DOMAIN exprs}
              = TreeIn(conds, ret) \cup TreeIn(conds, Top.lhs)
    PROVE  PInv'
<1> DEFINE X == UNION {BelowIn(conds, r) : r \in Roots(exprs)}
           Y == Roots(exprs)
           n == Len(calls)
           O == Held(conds, calls, ret, Live)
           P == Held(conds, calls', ret', Live)
<1>1. /\ err' = error /\ calls' = Front(calls) /\ ret' = None
      /\ UNCHANGED tokens /\ filter' = filter /\ conds' = conds
  BY DEF Fail, Destroy
<1>2. freed' = freed \cup X /\ destroyed' = destroyed \cup Y
  BY BelowIsIn DEF Fail, Destroy, Roots
<1>3. step' \in {"wild", step}
  BY DEF Fail, Destroy
<1>4. /\ Len(calls) \in Nat \ {0} /\ calls \in Seq(Call)
      /\ filter = 0 /\ Live = 0 /\ Len(conds) \in Nat /\ InOrder(conds)
  BY InExpression, Zenon
<1>5. TokensOK'
  BY <1>1, NoTokenKeeps DEF PInv
<1>6. /\ calls' \in Seq(Call) /\ Len(calls') = Len(calls) - 1
      /\ \A i \in 1 .. Len(calls) - 1 : calls'[i] = calls[i]
  BY <1>1, <1>4, ReturnStep, Zenon
<1>7. ~(Len(calls') >= Len(calls)) /\ Len(calls') # Len(calls) + 1 /\ Len(conds') = Len(conds)
  BY <1>1, <1>4, <1>6
<1>8. CallsOK'
  BY <1>4, <1>5, <1>6, <1>7, CallsStayOK DEF PInv
<1>9. RetOK'
  BY <1>1, NothingIsExpr DEF RetOK, None, Exists
<1>10. StepOK'
  BY <1>1, <1>3, <1>4, <1>5 DEF StepOK
<1>11. X \cap Y = {} /\ X \cup Y = TreeIn(conds, ret) \cup TreeIn(conds, Top.lhs)
  <2>1. \A i \in DOMAIN exprs : exprs[i].tag = "CONDITION" => exprs[i].value \in 1 .. Len(conds)
    BY DEF Exists
  <2>2. Apart(conds, exprs)
    BY <2>1 DEF Apart
  <2> QED  BY <1>4, <2>2, DestroySplits
<1>12. /\ Live' = Live
       /\ \A i \in Int \ {-1, n} : P[i] = O[i]
       /\ O[-1] = TreeIn(conds, ret) /\ O[n] = TreeIn(conds, Top.lhs)
       /\ P[-1] = TreeIn(conds, ret')
       /\ P[n] = {}
  BY <1>1, <1>3, <1>6, <1>7, HeldElsewhere
<1>13. P[-1] = {}
  BY <1>1, <1>12, NoTree DEF None
<1>14. Sorted(O, freed, destroyed, Len(conds))
  BY DEF PInv, CondsOK
<1>15. n \in Int /\ -1 \in Int
  BY <1>4
<1> HIDE DEF X, Y, O, P, n
<1>16. X \cup Y = O[-1] \cup O[n]
  BY <1>11, <1>12
<1>17. Sorted(P, freed \cup X, destroyed \cup Y, Len(conds))
  BY <1>11, <1>12, <1>13, <1>14, <1>15, <1>16, DropStaysSorted
<1>18. Sorted(Held(conds', calls', ret', Live'), freed', destroyed', Len(conds'))
  BY <1>1, <1>2, <1>12, <1>17 DEF P
<1>19. CondsOK'
  BY <1>1, <1>18 DEF PInv, CondsOK
<1> QED  BY <1>5, <1>8, <1>9, <1>10, <1>19 DEF PInv

\* The expressions that are destroyed are these.
LEMMA FailOf ==
    ASSUME PInv, step = "expression", calls # <<>>, NEW error, error # "ok",
           \/ Fail(error, <<>>) /\ TreeIn(conds, ret) = {} /\ TreeIn(conds, Top.lhs) = {}
           \/ Fail(error, <<ret>>) /\ TreeIn(conds, Top.lhs) = {}
           \/ Fail(error, <<Top.lhs>>) /\ TreeIn(conds, ret) = {}
           \/ Fail(error, <<ret, Top.lhs>>)
    PROVE  PInv'
<1> DEFINE a == ret
           b == Top.lhs
<1>1. TreeIn(conds, a) \cap TreeIn(conds, b) = {} /\ Exists(a, Len(conds)) /\ Exists(b, Len(conds))
  BY HeadsDiffer
<1>2. CASE Fail(error, <<>>) /\ TreeIn(conds, ret) = {} /\ TreeIn(conds, Top.lhs) = {}
  <2> DEFINE exprs == <<>>
  <2>1. DOMAIN exprs = {}
    OBVIOUS
  <2> HIDE DEF exprs
  <2>2. UNION {TreeIn(conds, exprs[i]) : i \in DOMAIN exprs} = {}
    BY <2>1
  <2>3. Fail(error, exprs)
    BY <1>2 DEF exprs
  <2> QED  BY <1>2, <2>1, <2>2, <2>3, FailKeeps
<1>3. CASE Fail(error, <<ret>>) /\ TreeIn(conds, Top.lhs) = {}
  <2> DEFINE exprs == <<a>>
  <2>1. DOMAIN exprs = {1} /\ exprs[1] = a
    OBVIOUS
  <2> HIDE DEF exprs
  <2>2. UNION {TreeIn(conds, exprs[i]) : i \in DOMAIN exprs} = TreeIn(conds, a)
    BY <2>1
  <2>3. Fail(error, exprs)
    BY <1>3 DEF exprs
  <2> QED  BY <1>1, <1>3, <2>1, <2>2, <2>3, FailKeeps
<1>4. CASE Fail(error, <<Top.lhs>>) /\ TreeIn(conds, ret) = {}
  <2> DEFINE exprs == <<b>>
  <2>1. DOMAIN exprs = {1} /\ exprs[1] = b
    OBVIOUS
  <2> HIDE DEF exprs
  <2>2. UNION {TreeIn(conds, exprs[i]) : i \in DOMAIN exprs} = TreeIn(conds, b)
    BY <2>1
  <2>3. Fail(error, exprs)
    BY <1>4 DEF exprs
  <2> QED  BY <1>1, <1>4, <2>1, <2>2, <2>3, FailKeeps
<1>5. CASE Fail(error, <<ret, Top.lhs>>)
  <2> DEFINE exprs == <<a, b>>
  <2>1. DOMAIN exprs = {1, 2} /\ exprs[1] = a /\ exprs[2] = b
    OBVIOUS
  <2> HIDE DEF exprs
  <2>2. UNION {TreeIn(conds, exprs[i]) : i \in DOMAIN exprs} = TreeIn(conds, a) \cup TreeIn(conds, b)
    BY <2>1
  <2>3. Fail(error, exprs)
    BY <1>5 DEF exprs
  <2> QED  BY <1>1, <1>5, <2>1, <2>2, <2>3, FailKeeps
<1> QED  BY <1>2, <1>3, <1>4, <1>5

LEMMA BadOperandKeeps ==
    ASSUME PInv, BadOperand
    PROVE  PInv'
<1>1. /\ step = "expression" /\ calls # <<>> /\ Top.at = "operand"
      /\ Fail(IF next \in Range(Operators) THEN "bad_op" ELSE "expected_value", <<>>)
  BY DEF BadOperand, In
<1>2. /\ CallOK(Top, Len(conds))
      /\ ret # None => Top.at \in Waiting /\ err = "ok"
  BY <1>1, InExpression, Zenon
<1>3. ret.tag # "CONDITION" /\ Top.lhs.tag # "CONDITION"
  BY <1>1, <1>2 DEF CallOK, Uninitialised, None, Waiting
<1>4. TreeIn(conds, ret) = {} /\ TreeIn(conds, Top.lhs) = {}
  BY <1>3, NoTree
<1>5. PICK error : error # "ok" /\ Fail(error, <<>>)
  BY <1>1
<1> QED  BY <1>1, <1>4, <1>5, FailOf

LEMMA UnwindKeeps ==
    ASSUME PInv, Unwind
    PROVE  PInv'
<1>1. step = "expression" /\ err # "ok" /\ calls # <<>> /\ Fail(err, <<Top.lhs>>)
  BY DEF Unwind
<1>2. /\ CallOK(Top, Len(conds)) /\ Top = calls[Len(calls)] /\ Len(calls) \in Nat \ {0}
      /\ ret # None => Top.at \in Waiting /\ err = "ok"
  BY <1>1, InExpression, Zenon
<1>3. TreeIn(conds, ret) = {}
  BY <1>1, <1>2, NoTree DEF None
<1> QED  BY <1>1, <1>3, FailOf

LEMMA CloseGroupKeeps ==
    ASSUME PInv, CloseGroup
    PROVE  PInv'
<1> DEFINE call == [Top EXCEPT !.lhs = ret, !.at = "loop"]
<1>0. /\ step = "expression" /\ err = "ok" /\ calls # <<>> /\ Top.at = "group" /\ ret # None
      /\ IF next = ")"
         THEN /\ Resume(call) /\ ret' = None
              /\ Advance /\ UNCHANGED <<step, result>> /\ UNCHANGED memory
         ELSE Fail("mismatched_paren", <<ret>>)
  BY DEF CloseGroup, In, Quietly
<1>2. /\ Len(calls) \in Nat \ {0} /\ calls \in Seq(Call) /\ Top \in Call
      /\ CallOK(Top, Len(conds)) /\ Len(conds) \in Nat
  BY <1>0, InExpression, Zenon
<1>3. /\ ret \in Expr /\ ret.tag \notin {"NONE", "UNINITIALISED"} /\ Exists(ret, Len(conds))
      /\ Top.lhs = Uninitialised
  BY <1>0, <1>2 DEF PInv, RetOK, CallOK
<1>4. TreeIn(conds, Top.lhs) = {}
  BY <1>3, NoTree DEF Uninitialised
<1>5. CASE next # ")"
  <2>1. Fail("mismatched_paren", <<ret>>)
    BY <1>0, <1>5
  <2> QED  BY <1>0, <1>4, <2>1, FailOf
<1>6. CASE next = ")"
  <2>0. /\ Resume(call) /\ ret' = None
        /\ Advance /\ UNCHANGED <<step, result>> /\ UNCHANGED memory
    BY <1>0, <1>6
  <2>1. TokensOK'
    BY <2>0, AdvanceKeeps DEF PInv
  <2>2. call \in Call /\ call.lhs = ret /\ call.at = "loop"
    BY <1>2, <1>3 DEF Call
  <2> HIDE DEF call
  <2>3. /\ calls' \in Seq(Call) /\ Len(calls') = Len(calls) /\ calls'[Len(calls)] = call
        /\ \A i \in 1 .. Len(calls) - 1 : calls'[i] = calls[i]
    BY <1>0, <1>2, <2>0, <2>2, ResumeStep, Zenon
  <2>4. conds' = conds /\ err' = err /\ filter' = filter /\ step' = step
    BY <2>0 DEF memory, result
  <2>5. CallOK(call, Len(conds'))
    BY <1>3, <2>2, <2>4 DEF CallOK
  <2>6. CallsOK'
    BY <1>0, <1>2, <2>1, <2>3, <2>4, <2>5, CallsStayOK DEF PInv
  <2>7. RetOK'
    BY <2>0, NothingIsExpr DEF RetOK, None, Exists
  <2>8. StepOK'
    BY <1>0, <1>2, <2>4, StepStaysOK
  <2>9. TreeIn(conds, ret') = {}
    BY <2>0, NoTree DEF None
  <2>10. Len(calls') >= Len(calls) /\ Len(calls') # Len(calls) + 1
    BY <1>2, <2>3
  <2>11. CondsOK'
    BY <1>0, <1>2, <1>4, <2>0, <2>2, <2>3, <2>4, <2>9, <2>10, ConditionsMove
  <2> QED  BY <2>1, <2>6, <2>7, <2>8, <2>11 DEF PInv
<1> QED  BY <1>5, <1>6

\* A new condition comes behind those it is made of, and changes nothing below them.
LEMMA NewCondition ==
    ASSUME conds \in Seq(Cond), InOrder(conds), NEW new, new \in Cond,
           new.lhs \in 0 .. Len(conds), new.rhs \in 0 .. Len(conds),
           conds' = Append(conds, new)
    PROVE  /\ conds' \in Seq(Cond) /\ Len(conds') = Len(conds) + 1 /\ InOrder(conds')
           /\ \A c \in 0 .. Len(conds) : BelowIn(conds', c) = BelowIn(conds, c)
           /\ BelowIn(conds', Len(conds) + 1)
                 = RootTree(conds, new.lhs) \cup RootTree(conds, new.rhs)
<1> DEFINE n == Len(conds)
           D == conds'
<1>1. n \in Nat /\ DOMAIN conds = 1 .. n
  BY DEF InOrder
<1>2. /\ D \in Seq(Cond) /\ Len(D) = n + 1 /\ DOMAIN D = 1 .. n + 1
      /\ \A c \in 1 .. n : D[c] = conds[c]
      /\ D[n + 1] = new
  BY <1>1
<1>3. InOrder(D)
  <2>1. Len(D) \in Nat /\ DOMAIN D = 1 .. Len(D)
    BY <1>1, <1>2
  <2>2. \A c \in 1 .. n : D[c].lhs \in 0 .. c - 1 /\ D[c].rhs \in 0 .. c - 1
    BY <1>1, <1>2 DEF InOrder
  <2>3. D[n + 1].lhs \in 0 .. n + 1 - 1 /\ D[n + 1].rhs \in 0 .. n + 1 - 1
    BY <1>1, <1>2
  <2>4. \A c \in DOMAIN D : c \in 1 .. n \/ c = n + 1
    BY <1>1, <1>2
  <2> HIDE DEF D, n
  <2>5. \A c \in DOMAIN D : D[c].lhs \in 0 .. c - 1 /\ D[c].rhs \in 0 .. c - 1
    <3> SUFFICES ASSUME NEW c \in DOMAIN D
                 PROVE  D[c].lhs \in 0 .. c - 1 /\ D[c].rhs \in 0 .. c - 1
      OBVIOUS
    <3>1. CASE c \in 1 .. n
      BY <3>1, <2>2
    <3>2. CASE c = n + 1
      BY <3>2, <2>3, <1>1
    <3> QED  BY <3>1, <3>2, <2>4
  <2> QED  BY <2>1, <2>5 DEF InOrder
<1>4. n <= Len(D)
  BY <1>1, <1>2
<1>5. \A c \in 0 .. n : BelowIn(D, c) = BelowIn(conds, c)
  <2> HIDE DEF D
  <2> QED  BY <1>2, <1>3, <1>4, BelowStays
<1>6. BelowIn(D, n + 1) = Kids(D, n + 1) \cup UNION {BelowIn(D, d) : d \in Kids(D, n + 1)}
  <2>1. n + 1 \in 1 .. Len(D)
    BY <1>1, <1>2
  <2> HIDE DEF D, n
  <2> QED  BY <1>3, <2>1, BelowUnfolds
<1>7. Kids(D, n + 1) = {new.lhs, new.rhs} \ {0}
  BY <1>2 DEF Kids
<1>8. \A d \in Kids(D, n + 1) : BelowIn(D, d) = BelowIn(conds, d)
  BY <1>5, <1>7
<1>9. BelowIn(D, n + 1) = RootTree(conds, new.lhs) \cup RootTree(conds, new.rhs)
  <2> HIDE DEF D, n
  <2>1. BelowIn(D, n + 1) = UNION {{d} \cup BelowIn(conds, d) : d \in Kids(D, n + 1)}
    BY <1>6, <1>8
  <2> QED  BY <2>1, <1>7 DEF RootTree
<1> QED  BY <1>2, <1>3, <1>5, <1>9

\* What is below the first N conditions is the same in C and D.
Alike(C, D, N) == N \in Nat /\ \A c \in 0 .. N : BelowIn(D, c) = BelowIn(C, c)

\* All that is held is among the first N conditions.
AllExist(cs, r, N) ==
    Len(cs) \in Nat /\ Exists(r, N) /\ \A i \in 1 .. Len(cs) : Exists(cs[i].lhs, N)

\* More conditions change nothing of what is held.
LEMMA HeldStays ==
    ASSUME NEW C, NEW D, NEW N, NEW cs, NEW r, Alike(C, D, N), AllExist(cs, r, N)
    PROVE  \A i \in Int : Held(D, cs, r, 0)[i] = Held(C, cs, r, 0)[i]
<1> USE DEF Alike, AllExist
<1>1. ASSUME NEW e, Exists(e, N)
      PROVE  TreeIn(D, e) = TreeIn(C, e)
  <2>1. CASE e.tag # "CONDITION"
    BY <2>1 DEF TreeIn
  <2>2. CASE e.tag = "CONDITION"
    <3>1. e.value \in 0 .. N
      BY <1>1, <2>2 DEF Exists
    <3> QED  BY <3>1, <2>2 DEF TreeIn
  <2> QED  BY <2>1, <2>2
<1>2. TreeIn(D, r) = TreeIn(C, r)
  BY <1>1
<1>3. \A i \in 1 .. Len(cs) : TreeIn(D, cs[i].lhs) = TreeIn(C, cs[i].lhs)
  BY <1>1
<1>4. RootTree(D, 0) = RootTree(C, 0)
  BY DEF RootTree
<1> QED  BY <1>2, <1>3, <1>4 DEF Held

\* The condition that an operator makes of operands it takes.
LEMMA ConditionOfOperands ==
    ASSUME NEW op \in {"NOT"} \cup Infix, NEW lhs \in Expr, NEW rhs \in Expr, NEW n \in Nat, NEW C,
           Exists(lhs, n), Exists(rhs, n),
           op = "NOT" => lhs = Uninitialised,
           op \in Infix => Supports(op, lhs),
           OperandError(op, lhs, rhs) = "ok"
    PROVE  /\ Condition(op, lhs, rhs) \in Cond
           /\ Condition(op, lhs, rhs).lhs \in 0 .. n /\ Condition(op, lhs, rhs).rhs \in 0 .. n
           /\ RootTree(C, Condition(op, lhs, rhs).lhs) = TreeIn(C, lhs)
           /\ RootTree(C, Condition(op, lhs, rhs).rhs) = TreeIn(C, rhs)
<1>1. CASE op \in {"=", "<", ">"}
  <2>1. lhs.tag = "COLUMN" /\ lhs.value \in Column
    BY <1>1 DEF Supports, Infix, Expr
  <2>2. Column_type[lhs.value] \in {"int", "float", "string"}
    BY <2>1 DEF Column_type, Column
  <2>3. rhs.tag \in Fits[Column_type[lhs.value]]
    <3>1. OperandError(op, lhs, rhs) = CoerceError(lhs.value, rhs)
      BY <1>1 DEF OperandError
    <3>2. Expected[Column_type[lhs.value]] # "ok"
      BY <2>2 DEF Expected
    <3> QED  BY <3>1, <3>2 DEF CoerceError
  <2>4. rhs.tag \in {"INT", "FLOAT", "STRING"}
    BY <2>2, <2>3 DEF Fits
  <2>5. Condition(op, lhs, rhs)
           = [op |-> op, column |-> lhs.value, value |-> rhs.value, lhs |-> 0, rhs |-> 0]
    BY <1>1 DEF Condition
  <2>6. Condition(op, lhs, rhs) \in Cond
    BY <2>1, <2>5 DEF Cond, Expr
  <2>7. TreeIn(C, lhs) = {} /\ TreeIn(C, rhs) = {}
    BY <2>1, <2>4, NoTree
  <2> QED  BY <2>5, <2>6, <2>7 DEF RootTree
<1>2. CASE op = "IN"
  <2>1. lhs.tag = "STRING"
    BY <1>2 DEF Supports, Infix
  <2>2. rhs.tag = "COLUMN"
    BY <1>2 DEF OperandError
  <2>5. Condition(op, lhs, rhs)
           = [op |-> op, column |-> rhs.value, value |-> lhs.value, lhs |-> 0, rhs |-> 0]
    BY <1>2 DEF Condition
  <2>6. Condition(op, lhs, rhs) \in Cond
    BY <2>5 DEF Cond, Expr
  <2>7. TreeIn(C, lhs) = {} /\ TreeIn(C, rhs) = {}
    BY <2>1, <2>2, NoTree
  <2> QED  BY <2>5, <2>6, <2>7 DEF RootTree
<1>3. CASE op = "NOT"
  <2>1. rhs.tag = "CONDITION" /\ rhs.value \in 1 .. n
    BY <1>3 DEF OperandError, Exists
  <2>5. Condition(op, lhs, rhs)
           = [op |-> op, column |-> "ID", value |-> "none", lhs |-> 0, rhs |-> rhs.value]
    BY <1>3 DEF Condition
  <2>6. Condition(op, lhs, rhs) \in Cond
    BY <2>1, <2>5 DEF Cond
  <2>7. TreeIn(C, lhs) = {}
    BY <1>3, NoTree DEF Uninitialised
  <2>8. RootTree(C, rhs.value) = TreeIn(C, rhs)
    BY <2>1 DEF RootTree, TreeIn
  <2> QED  BY <2>1, <2>5, <2>6, <2>7, <2>8 DEF RootTree
<1>4. CASE op \in {"AND", "OR"}
  <2>1. rhs.tag = "CONDITION" /\ rhs.value \in 1 .. n
    BY <1>4 DEF OperandError, Exists
  <2>2. lhs.tag = "CONDITION" /\ lhs.value \in 1 .. n
    BY <1>4 DEF Supports, Exists, Infix
  <2>5. Condition(op, lhs, rhs)
           = [op |-> op, column |-> "ID", value |-> "none", lhs |-> lhs.value, rhs |-> rhs.value]
    BY <1>4 DEF Condition
  <2>6. Condition(op, lhs, rhs) \in Cond
    BY <2>1, <2>2, <2>5 DEF Cond
  <2>7. RootTree(C, rhs.value) = TreeIn(C, rhs) /\ RootTree(C, lhs.value) = TreeIn(C, lhs)
    BY <2>1, <2>2 DEF RootTree, TreeIn
  <2> QED  BY <2>1, <2>2, <2>5, <2>6, <2>7
<1> QED  BY <1>1, <1>2, <1>3, <1>4 DEF Infix

LEMMA MakeKeeps ==
    ASSUME PInv, Make
    PROVE  PInv'
<1> DEFINE op == Top.op
           n == Len(calls)
           N == Len(conds)
           new == Condition(op, Top.lhs, ret)
           made == [tag |-> "CONDITION", value |-> N + 1]
           call == [Top EXCEPT !.lhs = made, !.at = "loop"]
<1>0. /\ step = "expression" /\ err = "ok" /\ calls # <<>> /\ Top.at \in {"prefix", "infix"}
      /\ ret # None
      /\ \/ Fail("out_of_mem", <<ret, Top.lhs>>)
         \/ /\ OperandError(op, Top.lhs, ret) # "ok"
            /\ Fail(OperandError(op, Top.lhs, ret), <<ret, Top.lhs>>)
         \/ /\ OperandError(op, Top.lhs, ret) = "ok"
            /\ conds' = Append(conds, new) /\ Resume(call) /\ ret' = None
            /\ UNCHANGED <<step, result>> /\ UNCHANGED <<tokens, freed, destroyed>>
  BY DEF Make, In, Quietly
<1>1. /\ n \in Nat \ {0} /\ calls \in Seq(Call) /\ Top \in Call /\ Top = calls[n]
      /\ CallOK(Top, N) /\ N \in Nat /\ InOrder(conds) /\ filter = 0 /\ Live = 0
  BY <1>0, InExpression, Zenon
<1>2. /\ ret \in Expr /\ ret.tag \notin {"NONE", "UNINITIALISED"} /\ Exists(ret, N)
      /\ Top.lhs \in Expr /\ Exists(Top.lhs, N)
  BY <1>0, <1>1 DEF PInv, RetOK, CallOK, Call
<1>3. CASE \/ Fail("out_of_mem", <<ret, Top.lhs>>)
           \/ /\ OperandError(op, Top.lhs, ret) # "ok"
              /\ Fail(OperandError(op, Top.lhs, ret), <<ret, Top.lhs>>)
  <2>1. PICK error : error # "ok" /\ Fail(error, <<ret, Top.lhs>>)
    BY <1>3
  <2> QED  BY <1>0, <2>1, FailOf
<1>4. CASE /\ OperandError(op, Top.lhs, ret) = "ok"
           /\ conds' = Append(conds, new) /\ Resume(call) /\ ret' = None
           /\ UNCHANGED <<step, result>> /\ UNCHANGED <<tokens, freed, destroyed>>
  <2>1. TokensOK'
    BY <1>4, NoTokenKeeps DEF PInv
  <2>2. /\ op \in {"NOT"} \cup Infix
        /\ op = "NOT" => Top.lhs = Uninitialised
        /\ op \in Infix => Supports(op, Top.lhs)
    BY <1>0, <1>1 DEF CallOK, Infix
  <2>3. /\ new \in Cond /\ new.lhs \in 0 .. N /\ new.rhs \in 0 .. N
        /\ RootTree(conds, new.lhs) = TreeIn(conds, Top.lhs)
        /\ RootTree(conds, new.rhs) = TreeIn(conds, ret)
    <3> HIDE DEF op, N
    <3> QED  BY <1>1, <1>2, <1>4, <2>2, ConditionOfOperands
  <2>4. conds \in Seq(Cond)
    BY DEF PInv, CondsOK
  <2> HIDE DEF new
  <2>5. /\ conds' \in Seq(Cond) /\ Len(conds') = N + 1 /\ InOrder(conds')
        /\ \A c \in 0 .. N : BelowIn(conds', c) = BelowIn(conds, c)
        /\ BelowIn(conds', N + 1) = RootTree(conds, new.lhs) \cup RootTree(conds, new.rhs)
    BY <1>1, <1>4, <2>3, <2>4, NewCondition
  <2>6. made \in Expr
    BY <1>1 DEF Expr
  <2>7. call \in Call /\ call.lhs = made /\ call.at = "loop"
    BY <1>1, <2>6 DEF Call
  <2>8. TreeIn(conds', made) = {N + 1} \cup TreeIn(conds, Top.lhs) \cup TreeIn(conds, ret)
    BY <2>3, <2>5 DEF TreeIn
  <2>9. CallOK(call, Len(conds'))
    BY <1>1, <2>5, <2>7 DEF CallOK, Exists
  <2> HIDE DEF call
  <2>10. /\ calls' \in Seq(Call) /\ Len(calls') = Len(calls) /\ calls'[Len(calls)] = call
         /\ \A i \in 1 .. Len(calls) - 1 : calls'[i] = calls[i]
    BY <1>0, <1>1, <1>4, <2>7, ResumeStep, Zenon
  <2>11. err' = err /\ filter' = filter /\ step' = step /\ freed' = freed /\ destroyed' = destroyed
    BY <1>4 DEF result
  <2>12. Len(conds') \in Nat /\ Len(conds) <= Len(conds')
    BY <1>1, <2>5
  <2>13. Len(calls') >= Len(calls) /\ Len(calls') # Len(calls) + 1
         /\ Len(calls') \in {Len(calls) - 1, Len(calls), Len(calls) + 1}
    BY <1>1, <2>10
  <2>14. CallsOK'
    BY <1>0, <1>1, <2>1, <2>9, <2>10, <2>11, <2>12, <2>13, CallsStayOK DEF PInv
  <2>15. RetOK'
    BY <1>4, NothingIsExpr DEF RetOK, None, Exists
  <2>16. StepOK'
    BY <1>0, <2>11, <2>12, StepStaysOK
  <2> DEFINE O == Held(conds, calls, ret, 0)
             Q == Held(conds', calls, ret, 0)
             P == Held(conds', calls', ret', 0)
  <2>17. Live' = 0
    BY <1>0, <1>1, <2>11 DEF Live
  <2>18. \A i \in Int : Q[i] = O[i]
    <3>1. \A i \in 1 .. Len(calls) : Exists(calls[i].lhs, N)
      BY DEF PInv, CallsOK, CallOK
    <3>2. Len(calls) \in Nat
      BY <1>1
    <3>3. Alike(conds, conds', N) /\ AllExist(calls, ret, N)
      BY <1>1, <1>2, <2>5, <3>1, <3>2 DEF Alike, AllExist
    <3> QED  BY <3>3, HeldStays
  <2>19. \A i \in Int \ {-1, n} : P[i] = Q[i]
    BY <1>1, <2>10, <2>13, HeldByOthers
  <2>20. O[-1] = TreeIn(conds, ret) /\ O[n] = TreeIn(conds, Top.lhs)
    <3>1. Len(calls) \in {n - 1, n, n + 1} /\ Len(calls) >= n
      BY <1>1
    <3> QED  BY <1>1, <3>1, HeldHeads
  <2>21. P[-1] = TreeIn(conds', ret') /\ P[n] = TreeIn(conds', made)
    BY <1>1, <2>7, <2>10, <2>13, HeldHeads
  <2>22. P[-1] = {}
    BY <1>4, <2>21, NoTree DEF None
  <2>23. Sorted(O, freed, destroyed, N)
    BY <1>1 DEF PInv, CondsOK
  <2>24. n \in Int /\ -1 \in Int /\ n # -1
    BY <1>1
  <2> HIDE DEF O, P, Q, N, n
  <2>25. \A i \in Int \ {n, -1} : P[i] = O[i]
    BY <2>18, <2>19
  <2>26. P[n] = {N + 1} \cup O[n] \cup O[-1]
    BY <2>8, <2>20, <2>21
  <2>27. Sorted(P, freed, destroyed, N + 1)
    BY <1>1, <2>22, <2>23, <2>24, <2>25, <2>26, JoinStaysSorted
  <2>28. Sorted(Held(conds', calls', ret', Live'), freed', destroyed', Len(conds'))
    BY <2>5, <2>11, <2>17, <2>27 DEF P
  <2>29. CondsOK'
    BY <2>5, <2>28 DEF CondsOK
  <2> QED  BY <2>1, <2>14, <2>15, <2>16, <2>29 DEF PInv
<1> QED  BY <1>0, <1>3, <1>4

-----------------------------------------------------------------------------
(* The steps of parse_command keep the invariant.                           *)

\* Without a call the expression just returned and the command are the holders.
LEMMA HeldOutside ==
    ASSUME NEW C, NEW r, NEW root
    PROVE  /\ Held(C, <<>>, r, root)[-1] = TreeIn(C, r)
           /\ Held(C, <<>>, r, root)[0] = RootTree(C, root)
           /\ \A i \in Int \ {-1, 0} : Held(C, <<>>, r, root)[i] = {}
BY DEF Held

\* Outside an expression nothing is open.
LEMMA OutsideExpression ==
    ASSUME PInv, step \notin {"expression", "wild"}
    PROVE  /\ calls = <<>> /\ ret = None /\ filter \in 0 .. Len(conds) /\ Len(conds) \in Nat
           /\ InOrder(conds) /\ conds \in Seq(Cond)
           /\ step # "refused" => err = "ok"
           /\ filter # 0 => step \in {"sort", "end", "parsed", "ran", "refused"}
BY DEF PInv, StepOK, CondsOK, InOrder

\* No call is open after the step, and nothing was returned.
LEMMA NothingOpen ==
    ASSUME calls' = <<>>, ret' = None
    PROVE  CallsOK' /\ RetOK'
BY NothingIsExpr DEF CallsOK, RetOK, None, Exists

\* A step on the way that leaves calls and conditions alone.
LEMMA CommandKeeps ==
    ASSUME PInv, step \notin {"expression", "wild", "refused", "ran"}, TokensOK',
           UNCHANGED <<calls, ret, memory>>, err' = err, filter' = filter,
           step' \notin {"expression", "wild", "refused", "ran"},
           step \in {"sort", "end"} => step' \in {"end", "parsed"},
           step # "parsed"
    PROVE  PInv'
<1>1. /\ calls = <<>> /\ ret = None /\ filter \in 0 .. Len(conds) /\ err = "ok"
      /\ filter # 0 => step \in {"sort", "end"}
  BY OutsideExpression, Zenon
<1>2. conds' = conds /\ freed' = freed /\ destroyed' = destroyed /\ calls' = calls /\ ret' = ret
  BY DEF memory
<1>3. CallsOK' /\ RetOK'
  BY <1>1, <1>2, NothingOpen
<1>4. StepOK'
  BY <1>1, <1>2 DEF StepOK
<1>5. Live' = Live
  BY DEF Live
<1>6. CondsOK'
  BY <1>2, <1>5 DEF PInv, CondsOK
<1> QED  BY <1>3, <1>4, <1>6 DEF PInv

\* The command is destroyed with its condition, if it has one.
LEMMA DestroyCommandKeeps ==
    ASSUME PInv, step \notin {"wild", "refused", "ran"}, calls = <<>>, ret.tag # "CONDITION",
           DestroyCommand, calls' = calls, ret' = None, filter' = filter,
           step' \in {"refused", "ran"}
    PROVE  CondsOK'
<1> DEFINE X == BelowIn(conds, filter)
           Y == {filter} \ {0}
           O == Held(conds, <<>>, ret, filter)
           P == Held(conds, <<>>, ret', 0)
<1>1. conds' = conds /\ freed' = freed \cup X /\ destroyed' = destroyed \cup Y
  BY BelowIsIn DEF DestroyCommand
<1>2. Live = filter /\ Live' = 0
  BY DEF Live
<1>3. filter \in 0 .. Len(conds) /\ InOrder(conds) /\ Len(conds) \in Nat
  BY DEF PInv, StepOK, CondsOK, InOrder
<1>4. X \cap Y = {} /\ X \cup Y = RootTree(conds, filter)
  <2>1. filter = 0 => X = {}
    BY <1>3, BelowUnfolds
  <2>2. X \subseteq 1 .. filter - 1
    BY <1>3, BelowIsBefore
  <2>3. filter \notin X
    BY <1>3, <2>2
  <2> HIDE DEF X
  <2>4. CASE filter = 0
    BY <2>1, <2>4 DEF RootTree
  <2>5. CASE filter # 0
    BY <2>3, <2>5 DEF RootTree, X
  <2> QED  BY <2>4, <2>5
<1>5. Sorted(O, freed, destroyed, Len(conds))
  BY <1>2 DEF PInv, CondsOK
<1>6. O[-1] = {} /\ O[0] = RootTree(conds, filter) /\ \A i \in Int \ {-1, 0} : O[i] = {}
  BY HeldOutside, NoTree
<1>7. P[-1] = {} /\ P[0] = {} /\ \A i \in Int \ {-1, 0} : P[i] = {}
  <2>1. TreeIn(conds, ret') = {} /\ RootTree(conds, 0) = {}
    BY NoTree DEF None, RootTree
  <2> QED  BY <2>1, HeldOutside
<1> HIDE DEF X, Y, O, P
<1>8. \A i \in Int \ {-1, 0} : P[i] = O[i]
  BY <1>6, <1>7
<1>9. -1 \in Int /\ 0 \in Int /\ X \cup Y = O[-1] \cup O[0]
  BY <1>4, <1>6
<1>10. Sorted(P, freed \cup X, destroyed \cup Y, Len(conds))
  BY <1>4, <1>5, <1>7, <1>8, <1>9, DropStaysSorted
<1>11. Sorted(Held(conds', calls', ret', Live'), freed', destroyed', Len(conds'))
  BY <1>1, <1>2, <1>10 DEF P
<1> QED  BY <1>1, <1>11 DEF PInv, CondsOK

LEMMA RefuseKeeps ==
    ASSUME PInv, step \notin {"wild", "refused", "ran"}, calls = <<>>, ret.tag # "CONDITION",
           NEW error, Refuse(error)
    PROVE  PInv'
<1>1. /\ err' = error /\ step' = "refused" /\ ret' = None /\ DestroyCommand
      /\ UNCHANGED tokens /\ calls' = calls /\ filter' = filter
  BY DEF Refuse
<1>2. TokensOK'
  BY <1>1, NoTokenKeeps DEF PInv
<1>3. CallsOK' /\ RetOK'
  BY <1>1, NothingOpen
<1>4. StepOK'
  BY <1>1 DEF PInv, StepOK, DestroyCommand
<1>5. CondsOK'
  BY <1>1, DestroyCommandKeeps
<1> QED  BY <1>2, <1>3, <1>4, <1>5 DEF PInv

LEMMA RunKeeps ==
    ASSUME PInv, Run
    PROVE  PInv'
<1>1. /\ step = "parsed" /\ step' = "ran" /\ err' = err /\ DestroyCommand
      /\ UNCHANGED tokens /\ calls' = calls /\ ret' = ret /\ filter' = filter
  BY DEF Run, GoTo
<1>2. calls = <<>> /\ ret = None /\ err = "ok"
  BY <1>1, OutsideExpression
<1>3. TokensOK'
  BY <1>1, NoTokenKeeps DEF PInv
<1>4. CallsOK' /\ RetOK'
  BY <1>1, <1>2, NothingOpen
<1>5. StepOK'
  BY <1>1, <1>2 DEF PInv, StepOK, DestroyCommand
<1>6. ret.tag # "CONDITION"
  BY <1>2 DEF None
<1>7. CondsOK'
  BY <1>1, <1>2, <1>6, DestroyCommandKeeps
<1> QED  BY <1>3, <1>4, <1>5, <1>7 DEF PInv

LEMMA ParseConditionKeeps ==
    ASSUME PInv, ParseCondition
    PROVE  PInv'
<1>1. /\ step = "condition" /\ step' = "expression" /\ err' = err /\ calls' = <<NewCall(0)>>
      /\ UNCHANGED tokens /\ ret' = ret /\ filter' = filter
      /\ conds' = conds /\ freed' = freed /\ destroyed' = destroyed
  BY DEF ParseCondition, GoTo, memory
<1>2. calls = <<>> /\ ret = None /\ err = "ok" /\ filter = 0
  BY <1>1, OutsideExpression
<1>3. TokensOK'
  BY <1>1, NoTokenKeeps DEF PInv
<1>4. NewCall(0) \in Call /\ NewCall(0).at = "operand" /\ NewCall(0).lhs = Uninitialised
  BY NewCallIsCall
<1>5. calls' \in Seq(Call) /\ Len(calls') = 1 /\ calls'[1] = NewCall(0)
  <2> DEFINE new == NewCall(0)
  <2>1. new \in Call /\ calls' = <<new>>
    BY <1>1, <1>4
  <2> HIDE DEF new
  <2>2. calls' \in Seq(Call) /\ Len(calls') = 1 /\ calls'[1] = new
    BY <2>1
  <2> QED  BY <2>2 DEF new
<1>6. CallOK(NewCall(0), Len(conds'))
  BY <1>4 DEF CallOK, Exists, Uninitialised
<1>7. CallsOK'
  <2>1. \A i \in 1 .. Len(calls') : i = 1 /\ ~(i < Len(calls'))
    BY <1>5
  <2>2. \A i \in 1 .. Len(calls') : calls'[i] = NewCall(0)
    BY <1>5, <2>1
  <2> QED  BY <1>1, <1>2, <1>5, <1>6, <2>1, <2>2 DEF CallsOK
<1>8. RetOK'
  BY <1>1, <1>2, NothingIsExpr DEF RetOK, None, Exists
<1>9. StepOK'
  BY <1>1, <1>2 DEF PInv, StepOK
<1>10. CondsOK'
  <2> DEFINE O == Held(conds, <<>>, None, 0)
             P == Held(conds, calls', None, 0)
  <2>1. TreeIn(conds, None) = {} /\ TreeIn(conds, Uninitialised) = {} /\ RootTree(conds, 0) = {}
    BY NoTree DEF None, Uninitialised, RootTree
  <2>2. \A i \in Int : O[i] = {}
    BY <2>1, HeldOutside
  <2>3. \A i \in Int : P[i] = {}
    <3>1. calls'[1].lhs = Uninitialised /\ Len(calls') = 1
      BY <1>4, <1>5
    <3> QED  BY <2>1, <3>1 DEF Held
  <2>4. Live = 0 /\ Live' = 0
    BY <1>1, <1>2 DEF Live
  <2>5. Sorted(O, freed, destroyed, Len(conds))
    BY <1>2, <2>4 DEF PInv, CondsOK
  <2> HIDE DEF O, P
  <2>6. Sorted(P, freed, destroyed, Len(conds))
    BY <2>2, <2>3, <2>5, SameStaysSorted
  <2>7. Sorted(Held(conds', calls', ret', Live'), freed', destroyed', Len(conds'))
    BY <1>1, <1>2, <2>4, <2>6 DEF P
  <2> QED  BY <1>1, <2>7 DEF PInv, CondsOK
<1> QED  BY <1>3, <1>7, <1>8, <1>9, <1>10 DEF PInv

LEMMA EndConditionKeeps ==
    ASSUME PInv, EndCondition
    PROVE  PInv'
<1>0. step = "expression" /\ calls = <<>>
  BY DEF EndCondition
<1>1. CASE err # "ok" /\ Refuse(err)
  <2>1. ret.tag # "CONDITION"
    BY <1>1 DEF PInv, RetOK, None
  <2> QED  BY <1>0, <1>1, <2>1, RefuseKeeps
<1>2. CASE err = "ok" /\ ret.tag # "CONDITION" /\ Refuse("expected_cond")
  BY <1>0, <1>2, RefuseKeeps
<1>3. CASE /\ err = "ok" /\ ret.tag = "CONDITION"
           /\ filter' = ret.value /\ ret' = None
           /\ GoTo(IF tag = "QUERY" THEN "sort" ELSE "end")
           /\ UNCHANGED <<tokens, calls, memory, tag, column, pairs>>
  <2>1. /\ step' \in {"sort", "end"} /\ err' = err /\ filter' = ret.value /\ ret' = None
        /\ UNCHANGED tokens /\ calls' = calls
        /\ conds' = conds /\ freed' = freed /\ destroyed' = destroyed
    BY <1>3 DEF GoTo, memory
  <2>2. ret.value \in 1 .. Len(conds) /\ filter = 0 /\ Len(conds) \in Nat
    BY <1>0, <1>3 DEF PInv, RetOK, Exists, StepOK, CondsOK, InOrder
  <2>3. TokensOK'
    BY <2>1, NoTokenKeeps DEF PInv
  <2>4. CallsOK' /\ RetOK'
    BY <1>0, <2>1, NothingOpen
  <2>5. StepOK'
    BY <1>0, <1>3, <2>1, <2>2 DEF StepOK
  <2> DEFINE O == Held(conds, <<>>, ret, 0)
             P == Held(conds, <<>>, ret', ret.value)
  <2>6. Live = 0 /\ Live' = ret.value
    BY <1>0, <2>1, <2>2 DEF Live
  <2>7. Sorted(O, freed, destroyed, Len(conds))
    BY <1>0, <2>6 DEF PInv, CondsOK
  <2>8. /\ TreeIn(conds, ret) = RootTree(conds, ret.value)
        /\ TreeIn(conds, ret') = {} /\ RootTree(conds, 0) = {}
    BY <1>3, <2>1, <2>2, NoTree DEF TreeIn, RootTree, None
  <2>a. O[-1] = TreeIn(conds, ret) /\ O[0] = {} /\ \A i \in Int \ {-1, 0} : O[i] = {}
    BY <2>8, HeldOutside
  <2>b. P[-1] = {} /\ P[0] = TreeIn(conds, ret) /\ \A i \in Int \ {-1, 0} : P[i] = {}
    BY <2>8, HeldOutside
  <2>9. O[0] = {} /\ P[0] = O[-1] /\ P[-1] = {} /\ \A i \in Int \ {-1, 0} : P[i] = O[i]
    BY <2>a, <2>b
  <2> HIDE DEF O, P
  <2>10. -1 \in Int /\ 0 \in Int /\ 0 # -1 /\ \A i \in Int \ {0, -1} : P[i] = O[i]
    BY <2>9
  <2>11. Sorted(P, freed, destroyed, Len(conds))
    BY <2>7, <2>9, <2>10, MoveStaysSorted
  <2>12. Sorted(Held(conds', calls', ret', Live'), freed', destroyed', Len(conds'))
    BY <1>0, <2>1, <2>6, <2>11 DEF P
  <2>13. CondsOK'
    BY <2>1, <2>12 DEF PInv, CondsOK
  <2> QED  BY <2>3, <2>4, <2>5, <2>13 DEF PInv
<1> QED  BY <1>1, <1>2, <1>3 DEF EndCondition

\* Before a line there is nothing.
LEMMA NothingYet ==
    ASSUME conds' = <<>>, freed' = {}, destroyed' = {}, calls' = <<>>, ret' = None, Live' = 0
    PROVE  CondsOK'
<1> DEFINE D == <<>>
           P == Held(D, <<>>, None, 0)
<1>1. TreeIn(D, None) = {} /\ RootTree(D, 0) = {}
  BY NoTree DEF None, RootTree
<1>2. \A i \in Int : P[i] = {}
  BY <1>1, HeldOutside
<1>3. D \in Seq(Cond) /\ Len(D) = 0 /\ DOMAIN D = {} /\ conds' = D
  OBVIOUS
<1> HIDE DEF D, P
<1>4. InOrder(D)
  BY <1>3 DEF InOrder
<1>5. Sorted(P, {}, {}, 0)
  BY <1>2 DEF Sorted
<1>6. Sorted(Held(conds', calls', ret', Live'), freed', destroyed', Len(conds'))
  BY <1>3, <1>5 DEF P
<1> QED  BY <1>3, <1>4, <1>6 DEF CondsOK

LEMMA NextLineKeeps ==
    ASSUME PInv, NextLine
    PROVE  PInv'
<1>1. /\ step \in {"refused", "ran"} /\ step' = "prompt" /\ err' = "ok" /\ filter' = 0
      /\ next' = "EOF" /\ input' = <<>> /\ alphabet' = alphabet /\ calls' = calls /\ ret' = ret
      /\ conds' = <<>> /\ freed' = {} /\ destroyed' = {}
  BY DEF NextLine
<1>2. calls = <<>> /\ ret = None
  BY <1>1, OutsideExpression
<1>3. TokensOK'
  BY <1>1 DEF PInv, TokensOK
<1>4. CallsOK' /\ RetOK'
  BY <1>1, <1>2, NothingOpen
<1>5. Len(conds') = 0
  BY <1>1
<1>6. StepOK'
  BY <1>1, <1>2, <1>5 DEF StepOK
<1>7. Live' = 0
  BY <1>1 DEF Live
<1>8. CondsOK'
  BY <1>1, <1>2, <1>7, NothingYet
<1> QED  BY <1>3, <1>4, <1>6, <1>8 DEF PInv

LEMMA InitHolds ==
    ASSUME Init
    PROVE  PInv
<1> DEFINE D == <<>>
           P == Held(D, <<>>, None, 0)
<1>1. TreeIn(D, None) = {} /\ RootTree(D, 0) = {}
  BY NoTree DEF None, RootTree
<1>2. \A i \in Int : P[i] = {}
  BY <1>1, HeldOutside
<1>3. D \in Seq(Cond) /\ Len(D) = 0 /\ DOMAIN D = {} /\ conds = D
  BY DEF Init
<1>4. calls = <<>> /\ ret = None /\ filter = 0 /\ freed = {} /\ destroyed = {} /\ step = "prompt" /\ err = "ok"
  BY DEF Init
<1> HIDE DEF D, P
<1>5. InOrder(D)
  BY <1>3 DEF InOrder
<1>6. Sorted(P, {}, {}, 0)
  BY <1>2 DEF Sorted
<1>7. Sorted(Held(conds, calls, ret, Live), freed, destroyed, Len(conds))
  BY <1>3, <1>4, <1>6 DEF P, Live
<1>8. CondsOK
  BY <1>3, <1>5, <1>7 DEF CondsOK
<1>9. CallsOK /\ RetOK
  BY <1>4, NothingIsExpr DEF CallsOK, RetOK, None, Exists
<1>10. StepOK
  BY <1>3, <1>4 DEF StepOK
<1>11. TokensOK
  BY DEF Init, TokensOK
<1> QED  BY <1>8, <1>9, <1>10, <1>11 DEF PInv

\* The steps of parse_command that read tokens, and those that refuse the line.
ReadsOn ==
    /\ step \in {"prompt", "command", "file", "sort", "summary", "column", "eq", "id eq", "value", "id",
                 "id value", "end"}
    /\ Advance \/ UNCHANGED tokens
    /\ UNCHANGED <<calls, ret, memory>> /\ err' = err /\ filter' = filter
    /\ step' \notin {"expression", "wild", "refused", "ran"}
    /\ step \in {"sort", "end"} => step' \in {"end", "parsed"}

Refuses ==
    /\ step \in {"command", "file", "sort", "column", "eq", "id eq", "value", "id", "id value", "end"}
    /\ \E error : Refuse(error)

LEMMA ReadsOnKeeps ==
    ASSUME PInv, ReadsOn
    PROVE  PInv'
<1>1. TokensOK'
  BY AdvanceKeeps, NoTokenKeeps DEF PInv, ReadsOn
<1> QED  BY <1>1, CommandKeeps DEF ReadsOn

LEMMA RefusesKeeps ==
    ASSUME PInv, Refuses
    PROVE  PInv'
<1>1. step \notin {"expression", "wild", "refused", "ran"}
  BY DEF Refuses
<1>2. calls = <<>> /\ ret.tag # "CONDITION"
  BY <1>1, OutsideExpression DEF None
<1> QED  BY <1>1, <1>2, RefuseKeeps DEF Refuses

\* Every step of parse_command is one of those.
LEMMA CommandStep ==
    ASSUME \/ ParseTag \/ ParseFile \/ ParseSort \/ ParseSummary
           \/ ParseColumn \/ ParseEquals \/ ParseValue \/ EndPairs \/ ParseID \/ ParseIDValue \/ ParseEnd
           \/ NewLine
    PROVE  ReadsOn \/ Refuses
<1> USE DEF GoTo, Idle, Refuses, ReadsOn
<1>1. CASE ParseTag
  <2>1. ASSUME next \in Commands
        PROVE  FirstStep[next] \in {"end", "file", "column", "id", "condition", "sort", "summary"}
    BY <2>1 DEF FirstStep, Commands
  <2> QED  BY <1>1, <2>1 DEF ParseTag
<1>2. CASE ParseFile
  BY <1>2 DEF ParseFile
<1>3. CASE ParseSort
  BY <1>3 DEF ParseSort
<1>4. CASE ParseSummary
  BY <1>4 DEF ParseSummary
<1>5. CASE ParseColumn
  BY <1>5 DEF ParseColumn
<1>6. CASE ParseEquals
  BY <1>6 DEF ParseEquals
<1>7. CASE ParseValue
  BY <1>7 DEF ParseValue
<1>8. CASE EndPairs
  BY <1>8 DEF EndPairs
<1>9. CASE ParseID
  BY <1>9 DEF ParseID
<1>10. CASE ParseIDValue
  BY <1>10 DEF ParseIDValue
<1>11. CASE ParseEnd
  BY <1>11 DEF ParseEnd
<1>12. CASE NewLine
  BY <1>12 DEF NewLine, result
<1> QED  BY <1>1, <1>2, <1>3, <1>4, <1>5, <1>6, <1>7, <1>8, <1>9, <1>10, <1>11, <1>12

LEMMA StutterKeeps ==
    ASSUME PInv, UNCHANGED vars
    PROVE  PInv'
<1>1. /\ UNCHANGED tokens /\ UNCHANGED <<step, calls, ret, err, filter>>
      /\ UNCHANGED <<conds, freed, destroyed>>
  BY DEF vars, memory, result
<1>2. TokensOK'
  BY <1>1, NoTokenKeeps DEF PInv
<1>3. input' = input
  BY <1>1 DEF tokens
<1>4. CallsOK' /\ RetOK' /\ StepOK'
  BY <1>1, <1>3 DEF PInv, CallsOK, RetOK, StepOK
<1>5. Live' = Live
  BY <1>1 DEF Live
<1>6. CondsOK'
  BY <1>1, <1>5 DEF PInv, CondsOK
<1> QED  BY <1>2, <1>4, <1>6 DEF PInv

\* Every step keeps the invariant.
LEMMA StepKeeps ==
    ASSUME PInv, [Next]_vars
    PROVE  PInv'
<1>1. CASE UNCHANGED vars
  BY <1>1, StutterKeeps
<1>2. CASE NextLine
  BY <1>2, NextLineKeeps
<1>3. CASE \/ ParseTag \/ ParseFile \/ ParseSort \/ ParseSummary
           \/ ParseColumn \/ ParseEquals \/ ParseValue \/ EndPairs \/ ParseID \/ ParseIDValue \/ ParseEnd
           \/ NewLine
  BY <1>3, CommandStep, ReadsOnKeeps, RefusesKeeps
<1>4. CASE ParseCondition \/ EndCondition \/ Run
  BY <1>4, ParseConditionKeeps, EndConditionKeeps, RunKeeps
<1>5. CASE AtomOperand \/ NestedOperand \/ BadOperand \/ InfixOperator \/ EndExpression
  BY <1>5, AtomOperandKeeps, NestedOperandKeeps, BadOperandKeeps, InfixOperatorKeeps, EndExpressionKeeps
<1>6. CASE CloseGroup \/ Make \/ Unwind
  BY <1>6, CloseGroupKeeps, MakeKeeps, UnwindKeeps
<1> QED  BY <1>1, <1>2, <1>3, <1>4, <1>5, <1>6 DEF Next, Parse

-----------------------------------------------------------------------------
(* The theorems.                                                            *)

\* The invariant: every condition has one holder, was freed or was destroyed, and what
\* the open calls of __parse_expression have is as where they are says.
THEOREM Invariance == Spec => []PInv
<1>1. Init => PInv
  BY InitHolds
<1>2. PInv /\ [Next]_vars => PInv'
  BY StepKeeps
<1> QED  BY <1>1, <1>2, PTL DEF Spec

\* A step that goes astray is that of a group whose operand failed or of a NOT.
LEMMA WildStep ==
    ASSUME PInv, Next, step # "wild", step' = "wild"
    PROVE  calls # <<>> /\ ((Top.at = "group" /\ err # "ok") \/ Top.at = "prefix")
<1>1. ASSUME NEW error, NEW exprs, Fail(error, exprs)
      PROVE  \E i \in DOMAIN exprs : exprs[i] = Uninitialised
  BY <1>1 DEF Fail, Destroy
<1>2. CASE Unwind
  <2>1. step = "expression" /\ err # "ok" /\ calls # <<>> /\ Fail(err, <<Top.lhs>>)
    BY <1>2 DEF Unwind
  <2>2. Top.lhs = Uninitialised
    BY <1>1, <2>1
  <2>3. CallOK(Top, Len(conds)) /\ Top = calls[Len(calls)] /\ Len(calls) \in Nat \ {0}
    BY <2>1, InExpression, Zenon
  <2>4. Top.at \in Waiting
    BY <2>1, <2>3 DEF PInv, CallsOK
  <2> QED  BY <2>1, <2>2, <2>3, <2>4 DEF CallOK, Waiting, Uninitialised
<1>3. CASE CloseGroup \/ Make
  <2>1. step = "expression" /\ calls # <<>> /\ ret # None
    BY <1>3 DEF CloseGroup, Make, In
  <2>2. ret # Uninitialised
    BY DEF PInv, RetOK, Uninitialised
  <2>3. CallOK(Top, Len(conds))
    BY <2>1, InExpression, Zenon
  <2>4. CASE CloseGroup
    <3>1. Fail("mismatched_paren", <<ret>>)
      BY <2>1, <2>4 DEF CloseGroup, Quietly
    <3> QED  BY <1>1, <2>2, <3>1
  <2>5. CASE Make
    <3>1. Top.at \in {"prefix", "infix"} /\ \E error : Fail(error, <<ret, Top.lhs>>)
      BY <2>1, <2>5 DEF Make, In, Quietly
    <3>2. Top.lhs = Uninitialised
      <4> DEFINE exprs == <<ret, Top.lhs>>
      <4>1. DOMAIN exprs = {1, 2} /\ exprs[1] = ret /\ exprs[2] = Top.lhs
        OBVIOUS
      <4> HIDE DEF exprs
      <4>2. \E i \in DOMAIN exprs : exprs[i] = Uninitialised
        BY <1>1, <3>1 DEF exprs
      <4> QED  BY <2>2, <4>1, <4>2
    <3> QED  BY <2>1, <2>3, <3>1, <3>2 DEF CallOK, Uninitialised
  <2> QED  BY <1>3, <2>4, <2>5
<1>4. CASE BadOperand
  <2>1. \E error : Fail(error, <<>>)
    BY <1>4 DEF BadOperand
  <2> QED  BY <1>1, <2>1
<1>5. CASE AtomOperand \/ NestedOperand \/ InfixOperator \/ EndExpression
  BY <1>5 DEF AtomOperand, NestedOperand, InfixOperator, EndExpression, Quietly
<1>6. CASE ParseCondition \/ EndCondition \/ Run
  BY <1>6 DEF ParseCondition, EndCondition, Run, GoTo, Refuse
<1>7. CASE NextLine
  BY <1>7 DEF NextLine
<1>8. CASE \/ ParseTag \/ ParseFile \/ ParseSort \/ ParseSummary
           \/ ParseColumn \/ ParseEquals \/ ParseValue \/ EndPairs \/ ParseID \/ ParseIDValue \/ ParseEnd
           \/ NewLine
  <2>1. ReadsOn \/ Refuses
    BY <1>8, CommandStep
  <2> QED  BY <2>1 DEF ReadsOn, Refuses, Refuse
<1> QED  BY <1>2, <1>3, <1>4, <1>5, <1>6, <1>7, <1>8 DEF Next, Parse

\* The parser destroys an expression that was never initialised only in the call that
\* waits for the operand of a bracket, when that operand has failed to parse, or of a NOT.
THEOREM AstrayOnlyInGroups == Spec => WildOnlyInGroups
<1> DEFINE Astray == step # "wild" /\ step' = "wild" =>
                        calls # <<>> /\ ((Top.at = "group" /\ err # "ok") \/ Top.at = "prefix")
<1>1. PInv /\ [Next]_vars => [Astray]_vars
  BY WildStep
<1> QED  BY <1>1, Invariance, PTL DEF Spec, WildOnlyInGroups

\* A function on 1 .. n is a sequence.
LEMMA RowIsSequence ==
    ASSUME NEW S, NEW n \in Nat, NEW s \in [1 .. n -> S]
    PROVE  s \in Seq(S) /\ Len(s) = n
OBVIOUS

\* The holders are the owners.
LEMMA OwnersAreHolders ==
    ASSUME PInv
    PROVE  /\ Len(calls) \in Nat /\ DOMAIN Owners = 1 .. Len(calls) + 2
           /\ LET O == Held(conds, calls, ret, Live) IN
              /\ \A i \in 1 .. Len(calls) : Owners[i] = O[i]
              /\ Owners[Len(calls) + 1] = O[-1] /\ Owners[Len(calls) + 2] = O[0]
              /\ \A i \in Int : i < -1 \/ i > Len(calls) => O[i] = {}
<1> DEFINE n == Len(calls)
           O == Held(conds, calls, ret, Live)
           s == [i \in DOMAIN calls |-> Tree(calls[i].lhs)]
           a == Tree(ret)
           b == IF filter = 0 \/ step \in {"refused", "ran"} THEN {} ELSE {filter} \cup Below(filter)
<1>1. n \in Nat /\ DOMAIN calls = 1 .. n
  BY DEF PInv, CallsOK
<1>2. /\ \A i \in 1 .. n : O[i] = TreeIn(conds, calls[i].lhs)
      /\ O[-1] = TreeIn(conds, ret) /\ O[0] = RootTree(conds, Live)
      /\ \A i \in Int : i < -1 \/ i > n => O[i] = {}
  BY <1>1 DEF Held
<1>3. \A e : Tree(e) = TreeIn(conds, e)
  BY BelowIsIn DEF Tree, TreeIn
<1>4. \A i \in 1 .. n : s[i] = O[i]
  BY <1>1, <1>2, <1>3
<1>5. a = O[-1]
  BY <1>2, <1>3
<1>6. b = O[0]
  BY <1>2, BelowIsIn DEF RootTree, Live
<1>7. Owners = s \o <<a, b>> /\ DOMAIN s = 1 .. n
  BY <1>1 DEF Owners
<1>8. s \in [1 .. n -> {Tree(calls[i].lhs) : i \in 1 .. n}]
  BY <1>1
<1> HIDE DEF s, a, b, O, n
<1>9. s \in Seq({Tree(calls[i].lhs) : i \in 1 .. n}) /\ Len(s) = n
  BY <1>1, <1>8, RowIsSequence, Zenon
<1>10. /\ DOMAIN Owners = 1 .. n + 2
       /\ \A i \in 1 .. n : Owners[i] = s[i]
       /\ Owners[n + 1] = a /\ Owners[n + 2] = b
  BY <1>1, <1>7, <1>9
<1>11. /\ n \in Nat /\ DOMAIN Owners = 1 .. n + 2
       /\ \A i \in 1 .. n : Owners[i] = O[i]
       /\ Owners[n + 1] = O[-1] /\ Owners[n + 2] = O[0]
       /\ \A i \in Int : i < -1 \/ i > n => O[i] = {}
  BY <1>1, <1>2, <1>4, <1>5, <1>6, <1>10
<1> QED  BY <1>11 DEF O, n

\* Where an owner stands among the holders: those of the open calls at their places, then
\* the expression just returned and the command.
Place(n, i) == IF i = n + 1 THEN -1 ELSE IF i = n + 2 THEN 0 ELSE i

\* The owners have what the holders have, each at a place of its own.
LEMMA OwnersInPlace ==
    ASSUME PInv
    PROVE  /\ \A i \in DOMAIN Owners :
                 /\ Place(Len(calls), i) \in Int
                 /\ Owners[i] = Held(conds, calls, ret, Live)[Place(Len(calls), i)]
           /\ \A i, j \in DOMAIN Owners : i # j => Place(Len(calls), i) # Place(Len(calls), j)
           /\ \A k \in Int : \/ Held(conds, calls, ret, Live)[k] = {}
                             \/ \E i \in DOMAIN Owners : k = Place(Len(calls), i)
<1> DEFINE n == Len(calls)
           O == Held(conds, calls, ret, Live)
           W == Owners
<1>1. /\ n \in Nat /\ DOMAIN W = 1 .. n + 2
      /\ \A i \in 1 .. n : W[i] = O[i]
      /\ W[n + 1] = O[-1] /\ W[n + 2] = O[0]
      /\ \A i \in Int : i < -1 \/ i > n => O[i] = {}
  BY OwnersAreHolders
<1> HIDE DEF n, O, W
<1>2. \A i \in DOMAIN W : Place(n, i) \in Int /\ W[i] = O[Place(n, i)]
  BY <1>1 DEF Place
<1>3. \A i, j \in DOMAIN W : i # j => Place(n, i) # Place(n, j)
  <2>1. \A i, j \in 1 .. n + 2 : i # j => Place(n, i) # Place(n, j)
    BY <1>1, SMTT(30) DEF Place
  <2> QED  BY <1>1, <2>1
<1>4. \A k \in Int : O[k] = {} \/ \E i \in DOMAIN W : k = Place(n, i)
  <2> SUFFICES ASSUME NEW k \in Int, O[k] # {}
               PROVE  \E i \in DOMAIN W : k = Place(n, i)
    OBVIOUS
  <2>1. CASE k = -1
    <3>1. n + 1 \in DOMAIN W /\ k = Place(n, n + 1)
      BY <1>1, <2>1 DEF Place
    <3> QED  BY <3>1
  <2>2. CASE k = 0
    <3>1. n + 2 \in DOMAIN W /\ k = Place(n, n + 2)
      BY <1>1, <2>2 DEF Place
    <3> QED  BY <3>1
  <2>3. CASE k # -1 /\ k # 0
    <3>1. k \in DOMAIN W /\ k = Place(n, k)
      BY <1>1, <2>3 DEF Place
    <3> QED  BY <3>1
  <2> QED  BY <2>1, <2>2, <2>3
<1> QED  BY <1>2, <1>3, <1>4 DEF n, O, W

\* A condition that parse_command allocated is at any time reachable from one owner only,
\* and has not been freed: nothing is freed twice or used after it was freed, and what no
\* owner reaches was freed, or was left by Condition_destroy.
THEOREM ConditionsStayOwned == Spec => []ConditionsOwned
<1>1. PInv => ConditionsOwned
  <2> SUFFICES ASSUME PInv
               PROVE  ConditionsOwned
    OBVIOUS
  <2> DEFINE O == Held(conds, calls, ret, Live)
             n == Len(conds)
             P(i) == Place(Len(calls), i)
             W == Owners
             U == UNION Range(W)
  <2>1. /\ \A i \in DOMAIN W : P(i) \in Int /\ W[i] = O[P(i)]
        /\ \A i, j \in DOMAIN W : i # j => P(i) # P(j)
        /\ \A k \in Int : O[k] = {} \/ \E i \in DOMAIN W : k = P(i)
    BY OwnersInPlace
  <2>2. Sorted(O, freed, destroyed, n) /\ DOMAIN conds = 1 .. n
    BY DEF PInv, CondsOK, InOrder
  <2>3. U = UNION {W[i] : i \in DOMAIN W}
    BY DEF Range
  <2> HIDE DEF O, n, P, W, U
  <2>4. \A i, j \in DOMAIN W : i # j => W[i] \cap W[j] = {}
    BY <2>1, <2>2 DEF Sorted
  <2>5. U \subseteq 1 .. n /\ U \cap (freed \cup destroyed) = {}
    BY <2>1, <2>2, <2>3 DEF Sorted
  <2>6. 1 .. n \subseteq U \cup freed \cup destroyed
    <3> SUFFICES ASSUME NEW c \in 1 .. n, c \notin freed \cup destroyed
                 PROVE  c \in U
      OBVIOUS
    <3>1. PICK k \in Int : c \in O[k]
      BY <2>2 DEF Sorted
    <3>2. PICK i \in DOMAIN W : k = P(i)
      BY <2>1, <3>1
    <3> QED  BY <2>1, <2>3, <3>1, <3>2
  <2>7. DOMAIN conds = U \cup freed \cup destroyed /\ freed \cap destroyed = {}
    BY <2>2, <2>5, <2>6 DEF Sorted
  <2> QED  BY <2>4, <2>5, <2>7 DEF ConditionsOwned, U, W
<1> QED  BY <1>1, Invariance, PTL
====
