------------------------- MODULE ConfigFilesProofs -------------------------
(* Whoever opens a file of the gateway finds a whole text until two requests *)
(* have its temporary name open, the fences compose, and every step amounts  *)
(* to one request's change of what the files say: for any number of nodes,   *)
(* requests, entries, overlaps and crashes.                                  *)
EXTENDS ConfigFiles, FiniteSetTheorems, WellFoundedInduction, TLAPS

-----------------------------------------------------------------------------
(* Sequences of lines, and the loops that pick some of them.                 *)

\* A set of numbers has a least one.
LEMMA LeastOf ==
    ASSUME NEW T, T \subseteq Nat, T # {}
    PROVE  \E m \in T : \A k \in T : m <= k
<1> DEFINE R == OpToRel(<, Nat)
<1>1. IsWellFoundedOn(R, Nat)
  BY NatLessThanWellFounded DEF OpToRel
<1>2. \A j, k \in Nat : j < k => <<j, k>> \in R
  BY DEF OpToRel
<1> HIDE DEF R
<1>3. PICK m \in T : \A k \in T : ~ (<<k, m>> \in R)
  BY <1>1, WFMin
<1>4. ASSUME NEW k \in T PROVE m <= k
  <2>1. k \in Nat /\ m \in Nat /\ ~(k < m)
    BY <1>2, <1>3
  <2> QED
    BY <2>1
<1> QED
  BY <1>4

\* A set with zero and every successor has every number.
LEMMA Induct ==
    ASSUME NEW T, 0 \in T, \A n \in Nat : n \in T => n + 1 \in T
    PROVE  Nat \subseteq T
<1> SUFFICES ASSUME Nat \ T # {} PROVE FALSE
  OBVIOUS
<1>1. PICK m \in Nat \ T : \A k \in Nat \ T : m <= k
  BY LeastOf
<1>2. m # 0 /\ m - 1 \in Nat /\ m - 1 + 1 = m
  BY <1>1
<1>3. m - 1 \in T
  BY <1>1, <1>2
<1> QED
  BY <1>1, <1>2, <1>3

\* p lists the numbers of D in their order, m of them.
Lists(p, m, D) ==
    /\ p \in [1..m -> D]
    /\ \A d \in D : \E j \in 1..m : p[j] = d
    /\ \A j, k \in 1..m : j < k => p[j] < p[k]

\* What the loop over a text has put out after n lines, when it keeps the places P.
Step(out, text, P, n) ==
    IF n = 0 THEN <<>> ELSE IF n \in P THEN Append(out[n - 1], text[n]) ELSE out[n - 1]
Run(out, text, P, N) == out = [n \in 0..N |-> Step(out, text, P, n)]
Loops(out, text, P, N) == \A n \in 0..N : out[n] = Step(out, text, P, n)

\* picked are the lines of the text at the places P.
Picked(picked, text, P) ==
    /\ Len(picked) \in Nat /\ DOMAIN picked = 1..Len(picked)
    /\ \E p : Lists(p, Len(picked), P) /\ \A j \in 1..Len(picked) : picked[j] = text[p[j]]

\* The loop has a run.
LEMMA LoopRuns ==
    ASSUME NEW text, NEW P, NEW N \in Nat
    PROVE  \E out : Run(out, text, P, N)
<1> DEFINE T == {m \in Nat : \E out : out = [n \in 0..m |-> Step(out, text, P, n)]}
<1>1. 0 \in T
  <2> DEFINE out == [n \in 0..0 |-> <<>>]
  <2>1. out = [n \in 0..0 |-> Step(out, text, P, n)]
    BY DEF Step
  <2> HIDE DEF out
  <2> QED
    BY <2>1
<1>2. ASSUME NEW m \in Nat, m \in T PROVE m + 1 \in T
  <2>1. PICK out : out = [n \in 0..m |-> Step(out, text, P, n)]
    BY <1>2
  <2> DEFINE more == [n \in 0..(m + 1) |-> Step(out, text, P, n)]
  <2>2. \A n \in 0..m : more[n] = out[n]
    BY <2>1
  <2>3. \A n \in 0..(m + 1) : Step(out, text, P, n) = Step(more, text, P, n)
    <3> SUFFICES ASSUME NEW n \in 0..(m + 1), n # 0
                 PROVE  out[n - 1] = more[n - 1]
      BY DEF Step
    <3>1. n - 1 \in 0..m
      OBVIOUS
    <3> QED
      BY <2>2, <3>1
  <2>4. more = [n \in 0..(m + 1) |-> Step(more, text, P, n)]
    BY <2>3
  <2> HIDE DEF more
  <2> QED
    BY <2>4
<1> HIDE DEF T
<1>3. N \in T
  BY <1>1, <1>2, Induct
<1> QED
  BY <1>3 DEF T, Run

\* What it puts out is what it keeps.
LEMMA LoopPicks ==
    ASSUME NEW S, NEW text \in Seq(S), NEW P \in SUBSET (DOMAIN text), NEW out,
           Loops(out, text, P, Len(text))
    PROVE  out[Len(text)] \in Seq(S) /\ Picked(out[Len(text)], text, P)
<1> DEFINE Upto(n) == P \cap (1..n)
           Good(n) == out[n] \in Seq(S) /\ Picked(out[n], text, Upto(n))
           T == {n \in Nat : n <= Len(text) => Good(n)}
<1>0. Len(text) \in Nat /\ DOMAIN text = 1..Len(text)
  OBVIOUS
<1>1. 0 \in T
  <2>1. out[0] = <<>>
    BY <1>0 DEF Loops, Step
  <2>2. out[0] \in Seq(S) /\ Len(out[0]) = 0
    BY <2>1
  <2>3. Upto(0) = {}
    OBVIOUS
  <2>4. Lists(<<>>, 0, Upto(0))
    BY <2>3 DEF Lists
  <2>5. Picked(out[0], text, Upto(0))
    BY <2>1, <2>2, <2>4 DEF Picked
  <2> QED
    BY <2>2, <2>5
<1>2. ASSUME NEW n \in Nat, n \in T PROVE n + 1 \in T
  <2> SUFFICES ASSUME n + 1 <= Len(text) PROVE Good(n + 1)
    OBVIOUS
  <2> DEFINE old == out[n]
             new == out[n + 1]
  <2>1. Good(n) /\ new = IF n + 1 \in P THEN Append(old, text[n + 1]) ELSE old
    <3>1. n <= Len(text) /\ n + 1 \in 0..Len(text) /\ n + 1 # 0 /\ (n + 1) - 1 = n
      BY <1>0
    <3> QED
      BY <1>2, <3>1 DEF Loops, Step
  <2>2. old \in Seq(S) /\ Len(old) \in Nat /\ DOMAIN old = 1..Len(old) /\ text[n + 1] \in S
    BY <1>0, <2>1
  <2>3. PICK p : Lists(p, Len(old), Upto(n)) /\ \A j \in 1..Len(old) : old[j] = text[p[j]]
    BY <2>1 DEF Picked
  <2> HIDE DEF old, new
  <2>4. CASE n + 1 \in P
    <3> DEFINE m == Len(old)
               q == [j \in 1..(m + 1) |-> IF j <= m THEN p[j] ELSE n + 1]
    <3>1. /\ new \in Seq(S) /\ Len(new) = m + 1 /\ new[m + 1] = text[n + 1]
          /\ \A j \in 1..m : new[j] = old[j]
      BY <2>1, <2>2, <2>4
    <3>2. Upto(n + 1) = Upto(n) \cup {n + 1}
      BY <2>4
    <3>3. q[m + 1] = n + 1 /\ \A j \in 1..m : q[j] = p[j] /\ p[j] \in Upto(n)
      BY <2>2, <2>3 DEF Lists
    <3>0. m \in Nat
      BY <2>2
    <3>4. q \in [1..(m + 1) -> Upto(n + 1)]
      <4>1. ASSUME NEW j \in 1..(m + 1)
            PROVE  (IF j <= m THEN p[j] ELSE n + 1) \in Upto(n + 1)
        <5>1. CASE j <= m
          <6>1. j \in 1..m
            BY <3>0, <5>1
          <6>2. p[j] \in Upto(n)
            BY <3>3, <6>1
          <6> QED
            BY <3>2, <5>1, <6>2
        <5>2. CASE ~(j <= m)
          BY <3>2, <5>2
        <5> QED
          BY <5>1, <5>2
      <4> QED
        BY <4>1
    <3> HIDE DEF q, m
    <3>5. \A d \in Upto(n + 1) : \E j \in 1..(m + 1) : q[j] = d
      <4> SUFFICES ASSUME NEW d \in Upto(n + 1) PROVE \E j \in 1..(m + 1) : q[j] = d
        OBVIOUS
      <4>1. CASE d = n + 1
        BY <3>0, <3>3, <4>1
      <4>2. CASE d \in Upto(n)
        <5>1. PICK j \in 1..m : p[j] = d
          BY <2>3, <4>2 DEF Lists, m
        <5> QED
          BY <3>0, <3>3, <5>1
      <4> QED
        BY <3>2, <4>1, <4>2
    <3>6. ASSUME NEW j \in 1..(m + 1), NEW k \in 1..(m + 1), j < k PROVE q[j] < q[k]
      <4>1. j \in 1..m /\ q[j] = p[j] /\ p[j] \in 1..n
        BY <3>0, <3>3, <3>6
      <4>2. CASE k \in 1..m
        BY <2>3, <3>3, <3>6, <4>1, <4>2 DEF Lists, m
      <4>3. CASE k = m + 1
        BY <3>3, <4>1, <4>3
      <4> QED
        BY <3>0, <4>2, <4>3
    <3>7. Lists(q, m + 1, Upto(n + 1))
      BY <3>4, <3>5, <3>6 DEF Lists
    <3>8. \A j \in 1..(m + 1) : new[j] = text[q[j]]
      <4> SUFFICES ASSUME NEW j \in 1..(m + 1) PROVE new[j] = text[q[j]]
        OBVIOUS
      <4>1. j \in 1..m \/ j = m + 1
        BY <3>0
      <4> QED
        BY <2>3, <3>1, <3>3, <4>1 DEF m
    <3>9. DOMAIN new = 1..(m + 1) /\ m + 1 \in Nat
      BY <3>0, <3>1
    <3>10. Picked(new, text, Upto(n + 1))
      BY <3>1, <3>7, <3>8, <3>9 DEF Picked
    <3> QED
      BY <3>1, <3>10 DEF new
  <2>5. CASE n + 1 \notin P
    <3>1. Upto(n + 1) = Upto(n) /\ new = old
      BY <2>1, <2>5
    <3> QED
      BY <2>1, <3>1 DEF old, new
  <2> QED
    BY <2>4, <2>5
<1>3. Len(text) \in T
  <2> HIDE DEF T
  <2> QED
    BY <1>0, <1>1, <1>2, Induct
<1>4. Upto(Len(text)) = P
  BY <1>0
<1>5. Good(Len(text))
  BY <1>0, <1>3
<1> QED
  BY <1>4, <1>5

\* There is one way to list a set of numbers in their order.
LEMMA OneList ==
    ASSUME NEW D \in SUBSET Nat, NEW m \in Nat, NEW n \in Nat, NEW p, NEW q,
           Lists(p, m, D), Lists(q, n, D)
    PROVE  m = n /\ p = q
<1>0. /\ \A j \in 1..m : p[j] \in Nat /\ p[j] \in D
      /\ \A j \in 1..n : q[j] \in Nat /\ q[j] \in D
      /\ \A d \in D : (\E j \in 1..m : p[j] = d) /\ (\E j \in 1..n : q[j] = d)
      /\ \A j, k \in 1..m : j < k => p[j] < p[k]
      /\ \A j, k \in 1..n : j < k => q[j] < q[k]
  BY DEF Lists
<1> DEFINE Odd == {j \in Nat : j \in 1..m /\ j \in 1..n /\ p[j] # q[j]}
<1>1. Odd = {}
  <2> SUFFICES ASSUME Odd # {} PROVE FALSE
    OBVIOUS
  <2>1. PICK j \in Odd : \A k \in Odd : j <= k
    BY LeastOf
  <2>2. j \in 1..m /\ j \in 1..n /\ p[j] # q[j] /\ p[j] \in D /\ q[j] \in D
    BY <1>0, <2>1
  <2>3. \A k \in Nat : k \in 1..m /\ k \in 1..n /\ k < j => p[k] = q[k]
    BY <2>1
  <2> HIDE DEF Odd
  <2>4. PICK k \in 1..n : q[k] = p[j]
    BY <1>0, <2>2
  <2>5. PICK l \in 1..m : p[l] = q[j]
    BY <1>0, <2>2
  <2>6. CASE p[j] < q[j]
    <3>1. k < j
      <4>1. ~(j < k) /\ k # j
        BY <2>2, <2>4, <2>6, <1>0
      <4> QED
        BY <2>2, <4>1
    <3>2. k \in 1..m /\ p[k] = q[k]
      BY <2>2, <2>3, <2>4, <3>1
    <3>3. p[k] < p[j]
      BY <1>0, <2>2, <3>1, <3>2
    <3> QED
      BY <2>2, <2>4, <3>2, <3>3, <1>0
  <2>7. CASE q[j] < p[j]
    <3>1. l < j
      <4>1. ~(j < l) /\ l # j
        BY <2>2, <2>5, <2>7, <1>0
      <4> QED
        BY <2>2, <4>1
    <3>2. l \in 1..n /\ p[l] = q[l]
      BY <2>2, <2>3, <2>5, <3>1
    <3>3. q[l] < q[j]
      BY <1>0, <2>2, <3>1, <3>2
    <3> QED
      BY <2>2, <2>5, <3>2, <3>3, <1>0
  <2> QED
    BY <1>0, <2>2, <2>6, <2>7
<1>2. \A j \in 1..m : j \in 1..n => p[j] = q[j]
  BY <1>1
<1> HIDE DEF Odd
<1>3. ~(m < n)
  <2> SUFFICES ASSUME m < n PROVE FALSE
    OBVIOUS
  <2>1. n \in 1..n /\ q[n] \in D
    BY <1>0
  <2>2. PICK j \in 1..m : p[j] = q[n]
    BY <1>0, <2>1
  <2>3. j \in 1..n /\ j < n /\ q[j] = q[n]
    BY <1>2, <2>2
  <2> QED
    BY <1>0, <2>1, <2>3
<1>4. ~(n < m)
  <2> SUFFICES ASSUME n < m PROVE FALSE
    OBVIOUS
  <2>1. m \in 1..m /\ p[m] \in D
    BY <1>0
  <2>2. PICK j \in 1..n : q[j] = p[m]
    BY <1>0, <2>1
  <2>3. j \in 1..m /\ j < m /\ p[j] = p[m]
    BY <1>2, <2>2
  <2> QED
    BY <1>0, <2>1, <2>3
<1>5. m = n
  BY <1>3, <1>4
<1> QED
  BY <1>2, <1>5 DEF Lists

\* And one sequence of a text's lines at some places.
LEMMA OnePick ==
    ASSUME NEW text, NEW P \in SUBSET Nat, NEW a, NEW b,
           a = [j \in 1..Len(a) |-> a[j]], b = [j \in 1..Len(b) |-> b[j]],
           Picked(a, text, P), Picked(b, text, P)
    PROVE  a = b
<1>1. PICK p : Lists(p, Len(a), P) /\ \A j \in 1..Len(a) : a[j] = text[p[j]]
  BY DEF Picked
<1>2. PICK q : Lists(q, Len(b), P) /\ \A j \in 1..Len(b) : b[j] = text[q[j]]
  BY DEF Picked
<1>3. Len(a) = Len(b) /\ p = q
  <2>1. Len(a) \in Nat /\ Len(b) \in Nat
    BY DEF Picked
  <2> DEFINE m == Len(a)
             n == Len(b)
  <2>2. Lists(p, m, P) /\ Lists(q, n, P) /\ m \in Nat /\ n \in Nat
    BY <1>1, <1>2, <2>1
  <2> HIDE DEF m, n
  <2>3. m = n /\ p = q
    BY <2>2, OneList
  <2> QED
    BY <2>3 DEF m, n
<1>4. \A j \in 1..Len(a) : a[j] = b[j]
  BY <1>1, <1>2, <1>3
<1> QED
  BY <1>3, <1>4

\* Stripping a fence keeps the lines outside it.
LEMMA UnfencedPicks ==
    ASSUME NEW S, NEW text \in Seq(S), NEW open, NEW close
    PROVE  /\ Unfenced(text, open, close) \in Seq(S)
           /\ Picked(Unfenced(text, open, close), text, {i \in DOMAIN text : ~Fenced(text, i, open, close)})
<1> DEFINE P == {i \in DOMAIN text : ~Fenced(text, i, open, close)}
           Is(o) == o = [n \in 0..Len(text) |->
                    IF n = 0 THEN <<>>
                    ELSE IF ~Fenced(text, n, open, close) THEN Append(o[n - 1], text[n])
                    ELSE o[n - 1]]
           out == CHOOSE o : Is(o)
<1>0. Len(text) \in Nat
  OBVIOUS
<1>1. \A n \in 0..Len(text) : n # 0 => (n \in P <=> ~Fenced(text, n, open, close))
  OBVIOUS
<1> HIDE DEF P
<1>2. PICK g : Run(g, text, P, Len(text))
  BY <1>0, LoopRuns
<1>3. Is(g)
  BY <1>1, <1>2 DEF Run, Step
<1> HIDE DEF Is
<1>4. Is(out)
  BY <1>3
<1> HIDE DEF out
<1>5. Loops(out, text, P, Len(text))
  BY <1>1, <1>4 DEF Loops, Step, Is
<1>6. P \in SUBSET (DOMAIN text)
  BY DEF P
<1>7. out[Len(text)] \in Seq(S) /\ Picked(out[Len(text)], text, P)
  BY <1>5, <1>6, LoopPicks
<1>8. Unfenced(text, open, close) = out[Len(text)]
  BY DEF Unfenced, Lines, out, Is
<1> QED
  BY <1>7, <1>8 DEF P

\* A sync keeps the blocks outside its fence that do not read like a generated entry.
LEMMA KeptPicks ==
    ASSUME NEW S, NEW text \in Seq(S), NEW body \in Seq(S),
           body = Unfenced(text, "nodes>>", "<<nodes")
    PROVE  /\ Kept(text) \in Seq(S)
           /\ Picked(Kept(text), body, {i \in DOMAIN body : ~Dropped(body, i)})
<1> DEFINE P == {i \in DOMAIN body : ~Dropped(body, i)}
           Is(o) == o = [n \in 0..Len(body) |->
                    IF n = 0 THEN <<>>
                    ELSE IF ~Dropped(body, n) THEN Append(o[n - 1], body[n])
                    ELSE o[n - 1]]
           out == CHOOSE o : Is(o)
<1>0. Len(body) \in Nat
  OBVIOUS
<1>1. \A n \in 0..Len(body) : n # 0 => (n \in P <=> ~Dropped(body, n))
  OBVIOUS
<1> HIDE DEF P
<1>2. PICK g : Run(g, body, P, Len(body))
  BY <1>0, LoopRuns
<1>3. Is(g)
  BY <1>1, <1>2 DEF Run, Step
<1> HIDE DEF Is
<1>4. Is(out)
  BY <1>3
<1> HIDE DEF out
<1>5. Loops(out, body, P, Len(body))
  BY <1>1, <1>4 DEF Loops, Step, Is
<1>6. P \in SUBSET (DOMAIN body)
  BY DEF P
<1>7. out[Len(body)] \in Seq(S) /\ Picked(out[Len(body)], body, P)
  BY <1>5, <1>6, LoopPicks
<1>8. Kept(text) = out[Len(body)]
  BY DEF Kept, Lines, out, Is
<1> QED
  BY <1>7, <1>8 DEF P

\* The lines of one sort, and where a text has them.
KindLine(kind) == {l \in ConfigLine : l.kind = kind}
PlainLine == {l \in ConfigLine : Plain(l)}
AlikeLine == {l \in ConfigLine : l.kind = "hand" /\ l.of \in Lookalike}
Of(text, K) == {i \in DOMAIN text : text[i] \in K}

\* What the operator wrote, in its order.
LEMMA HandPicks ==
    ASSUME NEW text \in Seq(ConfigLine)
    PROVE  /\ HandOf(text) \in Seq(ConfigLine)
           /\ Picked(HandOf(text), text, Of(text, PlainLine))
<1> DEFINE P == Of(text, PlainLine)
           Is(o) == o = [n \in 0..Len(text) |->
                    IF n = 0 THEN <<>>
                    ELSE IF Plain(text[n]) THEN Append(o[n - 1], text[n])
                    ELSE o[n - 1]]
           out == CHOOSE o : Is(o)
<1>0. Len(text) \in Nat
  OBVIOUS
<1>1. \A n \in 0..Len(text) : n # 0 => (n \in P <=> Plain(text[n]))
  BY DEF Of, PlainLine
<1> HIDE DEF P
<1>2. PICK g : Run(g, text, P, Len(text))
  BY <1>0, LoopRuns
<1>3. Is(g)
  BY <1>1, <1>2 DEF Run, Step
<1> HIDE DEF Is
<1>4. Is(out)
  BY <1>3
<1> HIDE DEF out
<1>5. Loops(out, text, P, Len(text))
  BY <1>1, <1>4 DEF Loops, Step, Is
<1>6. P \in SUBSET (DOMAIN text)
  BY DEF P, Of
<1>7. out[Len(text)] \in Seq(ConfigLine) /\ Picked(out[Len(text)], text, P)
  BY <1>5, <1>6, LoopPicks
<1>8. HandOf(text) = out[Len(text)]
  BY DEF HandOf, Lines, out, Is
<1> QED
  BY <1>7, <1>8 DEF P

-----------------------------------------------------------------------------
(* Texts whose fences are in order, and what the edits make of them.        *)

CloudKind == {"cloud>>", "cloud", "<<cloud"}
NodeKind == {"nodes>>", "node", "<<nodes"}

\* The cloud tiers' block, if there is one, is on top.
CloudOnTop(text) ==
    \A i \in DOMAIN text : text[i].kind \in CloudKind =>
        /\ i \in 1..3 /\ Len(text) >= 3
        /\ text[1].kind = "cloud>>" /\ text[2].kind = "cloud" /\ text[3].kind = "<<cloud"

Fence(text) == WellFenced(text, "nodes>>", "<<nodes", "node")

Tidy(text) == text \in Seq(ConfigLine) /\ CloudOnTop(text) /\ Fence(text)

\* A tidy text is well formed.
LEMMA TidyIsWellFormed == ASSUME NEW text, Tidy(text) PROVE WellFormed(text)
<1>0. Len(text) \in Nat /\ DOMAIN text = 1..Len(text)
  BY DEF Tidy
<1>1. CASE \A i \in DOMAIN text : text[i].kind \notin CloudKind
  <2>1. /\ Places(text, "cloud>>") = {} /\ Places(text, "<<cloud") = {}
        /\ Places(text, "cloud") = {}
    BY <1>1 DEF Places, CloudKind
  <2>2. CloudOf(text) = {}
    <3>1. ASSUME NEW c \in CloudOf(text) PROVE FALSE
      <4>1. PICK i \in Places(text, "cloud") : c = text[i].of
        BY <3>1 DEF CloudOf, Places
      <4> QED
        BY <2>1, <4>1
    <3> QED
      BY <3>1
  <2> QED
    BY <2>1, <2>2 DEF WellFormed, WellFenced, Tidy, Fence
<1>2. CASE \E i \in DOMAIN text : text[i].kind \in CloudKind
  <2>1. /\ Len(text) >= 3 /\ {1, 2, 3} \subseteq DOMAIN text
        /\ text[1].kind = "cloud>>" /\ text[2].kind = "cloud" /\ text[3].kind = "<<cloud"
        /\ \A i \in DOMAIN text : text[i].kind \in CloudKind => i \in {1, 2, 3}
    BY <1>0, <1>2 DEF Tidy, CloudOnTop
  <2>2. /\ Places(text, "cloud>>") = {1} /\ Places(text, "<<cloud") = {3}
        /\ \A i \in DOMAIN text : text[i].kind = "cloud" <=> i = 2
    BY <2>1 DEF Places, CloudKind
  <2>3. WellFenced(text, "cloud>>", "<<cloud", "cloud")
    <3>1. \A i \in DOMAIN text : text[i].kind = "cloud" <=> i \in (1 + 1)..(3 - 1)
      BY <1>0, <2>2
    <3>2. 1 < 3
      OBVIOUS
    <3> QED
      BY <2>1, <2>2, <3>1, <3>2 DEF WellFenced
  <2> QED
    BY <2>2, <2>3 DEF WellFormed, Tidy, Fence
<1> QED
  BY <1>1, <1>2

\* The first three numbers, when they are listed, are listed first.
LEMMA FirstThree ==
    ASSUME NEW D \in SUBSET Nat, 0 \notin D, {1, 2, 3} \subseteq D, NEW m \in Nat, NEW p,
           Lists(p, m, D)
    PROVE  m >= 3 /\ p[1] = 1 /\ p[2] = 2 /\ p[3] = 3
<1>1. /\ \A j \in 1..m : p[j] \in Nat /\ p[j] # 0
      /\ \A j, k \in 1..m : j < k => p[j] < p[k]
  BY DEF Lists
<1>2. PICK a \in 1..m : p[a] = 1
  BY DEF Lists
<1>3. PICK b \in 1..m : p[b] = 2
  BY DEF Lists
<1>4. PICK c \in 1..m : p[c] = 3
  BY DEF Lists
<1>5. a = 1
  <2>1. ~(1 < a)
    <3> SUFFICES ASSUME 1 < a PROVE FALSE
      OBVIOUS
    <3>1. 1 \in 1..m /\ p[1] < p[a]
      BY <1>1
    <3> QED
      BY <1>1, <1>2, <3>1
  <2> QED
    BY <2>1
<1>6. a < b /\ b < c
  <2>1. ~(b < a) /\ b # a /\ ~(c < b) /\ c # b
    BY <1>1, <1>2, <1>3, <1>4
  <2> QED
    BY <2>1
<1>7. b = 2
  <2>1. ~(2 < b)
    <3> SUFFICES ASSUME 2 < b PROVE FALSE
      OBVIOUS
    <3>1. 2 \in 1..m /\ 1 \in 1..m
      OBVIOUS
    <3>2. p[2] < p[b] /\ p[1] < p[2]
      BY <1>1, <3>1
    <3> QED
      BY <1>1, <1>2, <1>3, <1>5, <3>1, <3>2
  <2> QED
    BY <1>5, <1>6, <2>1
<1>8. c = 3
  <2>1. ~(3 < c)
    <3> SUFFICES ASSUME 3 < c PROVE FALSE
      OBVIOUS
    <3>1. 3 \in 1..m /\ 2 \in 1..m
      OBVIOUS
    <3>2. p[3] < p[c] /\ p[2] < p[3]
      BY <1>1, <3>1
    <3> QED
      BY <1>1, <1>3, <1>4, <1>7, <3>1, <3>2
  <2> QED
    BY <1>6, <1>7, <2>1
<1> QED
  BY <1>2, <1>3, <1>4, <1>5, <1>7, <1>8

\* The block on top stays there when none of its lines is left out.
LEMMA TopPicked ==
    ASSUME NEW S, NEW text \in Seq(S), NEW a \in Seq(S), NEW P \in SUBSET (DOMAIN text),
           Picked(a, text, P), CloudOnTop(text),
           \A i \in DOMAIN text : text[i].kind \in CloudKind => i \in P
    PROVE  CloudOnTop(a)
<1>1. PICK p : Lists(p, Len(a), P) /\ \A j \in 1..Len(a) : a[j] = text[p[j]]
  BY DEF Picked
<1>2. Len(a) \in Nat /\ DOMAIN a = 1..Len(a) /\ DOMAIN text = 1..Len(text) /\ Len(text) \in Nat
  OBVIOUS
<1> SUFFICES ASSUME NEW i \in DOMAIN a, a[i].kind \in CloudKind
             PROVE  /\ i \in 1..3 /\ Len(a) >= 3
                    /\ a[1].kind = "cloud>>" /\ a[2].kind = "cloud" /\ a[3].kind = "<<cloud"
  BY DEF CloudOnTop
<1>3. p[i] \in P /\ text[p[i]] = a[i]
  BY <1>1, <1>2 DEF Lists
<1>4. /\ p[i] \in 1..3 /\ Len(text) >= 3
      /\ text[1].kind = "cloud>>" /\ text[2].kind = "cloud" /\ text[3].kind = "<<cloud"
  BY <1>3 DEF CloudOnTop
<1>5. {1, 2, 3} \subseteq P
  BY <1>2, <1>4 DEF CloudKind
<1>6. P \in SUBSET Nat /\ 0 \notin P
  BY <1>2
<1>7. Len(a) >= 3 /\ p[1] = 1 /\ p[2] = 2 /\ p[3] = 3
  BY <1>1, <1>2, <1>5, <1>6, FirstThree
<1>8. i \in 1..3
  <2> SUFFICES ASSUME 3 < i PROVE FALSE
    BY <1>2
  <2>1. p[3] < p[i]
    BY <1>1, <1>2, <1>7 DEF Lists
  <2> QED
    BY <1>4, <1>7, <2>1
<1> QED
  BY <1>1, <1>2, <1>4, <1>7, <1>8

\* A fence stays well formed when none of its lines is left out.
LEMMA FencePicked ==
    ASSUME NEW S, NEW text \in Seq(S), NEW a \in Seq(S), NEW P \in SUBSET (DOMAIN text),
           Picked(a, text, P), NEW open, NEW close, NEW inside,
           WellFenced(text, open, close, inside),
           \A i \in DOMAIN text : text[i].kind \in {open, close} => i \in P
    PROVE  WellFenced(a, open, close, inside)
<1>1. PICK p : Lists(p, Len(a), P) /\ \A j \in 1..Len(a) : a[j] = text[p[j]]
  BY DEF Picked
<1>2. Len(a) \in Nat /\ DOMAIN a = 1..Len(a) /\ DOMAIN text = 1..Len(text) /\ Len(text) \in Nat
  OBVIOUS
<1>3. /\ \A j \in DOMAIN a : p[j] \in P /\ p[j] \in DOMAIN text /\ p[j] \in Nat
                             /\ a[j] = text[p[j]]
      /\ \A j, k \in DOMAIN a : j < k => p[j] < p[k]
  BY <1>1, <1>2 DEF Lists
<1>4. CASE Places(text, open) = {} /\ Places(text, close) = {}
  <2>1. \A i \in DOMAIN text : text[i].kind # open /\ text[i].kind # close
    BY <1>4 DEF Places
  <2>2. \A j \in DOMAIN a : a[j].kind # open /\ a[j].kind # close
    BY <1>3, <2>1
  <2>3. Places(a, open) = {} /\ Places(a, close) = {}
    BY <2>2 DEF Places
  <2> QED
    BY <2>3 DEF WellFenced
<1>5. CASE \E s, e \in DOMAIN text :
             /\ s < e
             /\ Places(text, open) = {s} /\ Places(text, close) = {e}
             /\ \A i \in DOMAIN text : text[i].kind = inside <=> i \in (s + 1)..(e - 1)
  <2>1. PICK s \in DOMAIN text, e \in DOMAIN text :
             /\ s < e
             /\ Places(text, open) = {s} /\ Places(text, close) = {e}
             /\ \A i \in DOMAIN text : text[i].kind = inside <=> i \in (s + 1)..(e - 1)
    BY <1>5
  <2>2. s \in P /\ e \in P /\ text[s].kind = open /\ text[e].kind = close
    BY <2>1 DEF Places
  <2>3. PICK t \in DOMAIN a : p[t] = s
    BY <1>1, <1>2, <2>2 DEF Lists
  <2>4. PICK f \in DOMAIN a : p[f] = e
    BY <1>1, <1>2, <2>2 DEF Lists
  <2>5. \A j, k \in DOMAIN a : (j < k <=> p[j] < p[k]) /\ (p[j] = p[k] => j = k)
    <3> SUFFICES ASSUME NEW j \in DOMAIN a, NEW k \in DOMAIN a
                 PROVE  (j < k <=> p[j] < p[k]) /\ (p[j] = p[k] => j = k)
      OBVIOUS
    <3>0. p[j] \in Nat /\ p[k] \in Nat /\ j \in Nat /\ k \in Nat
      BY <1>2, <1>3
    <3>1. CASE j < k
      <4>1. p[j] < p[k]
        BY <1>3, <3>1
      <4> QED
        BY <3>0, <3>1, <4>1
    <3>2. CASE k < j
      <4>1. p[k] < p[j]
        BY <1>3, <3>2
      <4> QED
        BY <3>0, <3>2, <4>1
    <3>3. CASE j = k
      BY <3>0, <3>3
    <3> QED
      BY <3>0, <3>1, <3>2, <3>3
  <2>6. t < f
    BY <2>1, <2>3, <2>4, <2>5
  <2>7. Places(a, open) = {t}
    <3>1. a[t].kind = open
      BY <1>3, <2>2, <2>3
    <3>2. ASSUME NEW j \in DOMAIN a, a[j].kind = open PROVE j = t
      <4>1. p[j] \in Places(text, open)
        BY <1>3, <3>2 DEF Places
      <4> QED
        BY <2>1, <2>3, <2>5, <4>1
    <3> QED
      BY <3>1, <3>2 DEF Places
  <2>8. Places(a, close) = {f}
    <3>1. a[f].kind = close
      BY <1>3, <2>2, <2>4
    <3>2. ASSUME NEW j \in DOMAIN a, a[j].kind = close PROVE j = f
      <4>1. p[j] \in Places(text, close)
        BY <1>3, <3>2 DEF Places
      <4> QED
        BY <2>1, <2>4, <2>5, <4>1
    <3> QED
      BY <3>1, <3>2 DEF Places
  <2>9. \A j \in DOMAIN a : a[j].kind = inside <=> j \in (t + 1)..(f - 1)
    <3> SUFFICES ASSUME NEW j \in DOMAIN a
                 PROVE  a[j].kind = inside <=> j \in (t + 1)..(f - 1)
      OBVIOUS
    <3>1. a[j].kind = inside <=> s < p[j] /\ p[j] < e
      <4>1. text[p[j]].kind = inside <=> p[j] \in (s + 1)..(e - 1)
        BY <1>3, <2>1
      <4> QED
        BY <1>2, <1>3, <4>1
    <3>2. s < p[j] /\ p[j] < e <=> t < j /\ j < f
      BY <2>3, <2>4, <2>5
    <3> QED
      BY <1>2, <3>1, <3>2
  <2> QED
    BY <2>6, <2>7, <2>8, <2>9 DEF WellFenced
<1> QED
  BY <1>4, <1>5 DEF WellFenced

\* Text that has nothing of a fence may stand before one.
LEMMA FenceBelow ==
    ASSUME NEW S, NEW a \in Seq(S), NEW b \in Seq(S), NEW open, NEW close, NEW inside,
           WellFenced(b, open, close, inside),
           \A i \in DOMAIN a : a[i].kind \notin {open, close, inside}
    PROVE  WellFenced(a \o b, open, close, inside)
<1> DEFINE n == Len(a)
           c == a \o b
<1>1. /\ n \in Nat /\ DOMAIN a = 1..n /\ Len(b) \in Nat /\ DOMAIN b = 1..Len(b)
      /\ c \in Seq(S) /\ DOMAIN c = 1..(n + Len(b))
      /\ \A i \in 1..n : c[i] = a[i]
      /\ \A i \in 1..Len(b) : c[n + i] = b[i]
  OBVIOUS
<1> HIDE DEF n, c
<1>2. \A i \in DOMAIN c : c[i].kind \in {open, close, inside} =>
          i - n \in DOMAIN b /\ c[i] = b[i - n]
  <2> SUFFICES ASSUME NEW i \in DOMAIN c, c[i].kind \in {open, close, inside}
               PROVE  i - n \in DOMAIN b /\ c[i] = b[i - n]
    OBVIOUS
  <2>1. i \notin 1..n
    BY <1>1
  <2>2. i - n \in 1..Len(b) /\ n + (i - n) = i
    BY <1>1, <2>1
  <2> QED
    BY <1>1, <2>2
<1>3. \A i \in DOMAIN b : n + i \in DOMAIN c /\ c[n + i] = b[i] /\ (n + i) - n = i
  BY <1>1
<1>4. \A i \in DOMAIN c : i \in Int
  BY <1>1
<1>5. CASE Places(b, open) = {} /\ Places(b, close) = {}
  <2>1. \A i \in DOMAIN b : b[i].kind # open /\ b[i].kind # close
    BY <1>5 DEF Places
  <2>2. \A i \in DOMAIN c : c[i].kind # open /\ c[i].kind # close
    BY <1>2, <2>1
  <2>3. Places(c, open) = {} /\ Places(c, close) = {}
    BY <2>2 DEF Places
  <2> QED
    BY <2>3 DEF WellFenced, c
<1>6. CASE \E s, e \in DOMAIN b :
             /\ s < e
             /\ Places(b, open) = {s} /\ Places(b, close) = {e}
             /\ \A i \in DOMAIN b : b[i].kind = inside <=> i \in (s + 1)..(e - 1)
  <2>1. PICK s \in DOMAIN b, e \in DOMAIN b :
             /\ s < e
             /\ Places(b, open) = {s} /\ Places(b, close) = {e}
             /\ \A i \in DOMAIN b : b[i].kind = inside <=> i \in (s + 1)..(e - 1)
    BY <1>6
  <2>2. n + s \in DOMAIN c /\ n + e \in DOMAIN c /\ n + s < n + e
    BY <1>1, <1>3, <2>1
  <2>3. Places(c, open) = {n + s}
    <3>1. c[n + s].kind = open
      BY <1>3, <2>1 DEF Places
    <3>2. ASSUME NEW i \in DOMAIN c, c[i].kind = open PROVE i = n + s
      <4>1. i - n \in Places(b, open)
        BY <1>2, <3>2 DEF Places
      <4> QED
        BY <1>1, <1>4, <2>1, <4>1
    <3> QED
      BY <2>2, <3>1, <3>2 DEF Places
  <2>4. Places(c, close) = {n + e}
    <3>1. c[n + e].kind = close
      BY <1>3, <2>1 DEF Places
    <3>2. ASSUME NEW i \in DOMAIN c, c[i].kind = close PROVE i = n + e
      <4>1. i - n \in Places(b, close)
        BY <1>2, <3>2 DEF Places
      <4> QED
        BY <1>1, <1>4, <2>1, <4>1
    <3> QED
      BY <2>2, <3>1, <3>2 DEF Places
  <2>5. \A i \in DOMAIN c : c[i].kind = inside <=> i \in ((n + s) + 1)..((n + e) - 1)
    <3> SUFFICES ASSUME NEW i \in DOMAIN c
                 PROVE  c[i].kind = inside <=> i \in ((n + s) + 1)..((n + e) - 1)
      OBVIOUS
    <3>0. i \in Int /\ n \in Int /\ s \in Int /\ e \in Int
          /\ s \in 1..Len(b) /\ e \in 1..Len(b) /\ Len(b) \in Int
      BY <1>1, <1>4
    <3>1. ASSUME c[i].kind = inside PROVE i \in ((n + s) + 1)..((n + e) - 1)
      <4>1. i - n \in (s + 1)..(e - 1)
        BY <1>2, <2>1, <3>1
      <4>2. s + 1 <= i - n /\ i - n <= e - 1
        BY <3>0, <4>1
      <4>3. (n + s) + 1 <= i /\ i <= (n + e) - 1 /\ (n + s) + 1 \in Int /\ (n + e) - 1 \in Int
        BY <3>0, <4>2
      <4> QED
        BY <3>0, <4>3
    <3>2. ASSUME i \in ((n + s) + 1)..((n + e) - 1) PROVE c[i].kind = inside
      <4>1. i - n \in (s + 1)..(e - 1) /\ i - n \in DOMAIN b /\ n + (i - n) = i
        BY <1>1, <3>0, <3>2
      <4>2. c[i] = b[i - n]
        BY <1>3, <4>1
      <4> QED
        BY <2>1, <4>1, <4>2
    <3> QED
      BY <3>1, <3>2
  <2> QED
    BY <2>2, <2>3, <2>4, <2>5 DEF WellFenced, c
<1> QED
  BY <1>5, <1>6 DEF WellFenced

\* And a line that is none of it after one.
LEMMA FenceAbove ==
    ASSUME NEW S, NEW a \in Seq(S), NEW l \in S, NEW open, NEW close, NEW inside,
           WellFenced(a, open, close, inside), l.kind \notin {open, close, inside}
    PROVE  WellFenced(Append(a, l), open, close, inside)
<1> DEFINE n == Len(a)
           c == Append(a, l)
<1>1. /\ n \in Nat /\ DOMAIN a = 1..n /\ DOMAIN c = 1..(n + 1)
      /\ \A i \in 1..n : c[i] = a[i]
      /\ c[n + 1] = l
  OBVIOUS
<1> HIDE DEF n, c
<1>2. \A i \in DOMAIN c : c[i].kind \in {open, close, inside} => i \in DOMAIN a /\ c[i] = a[i]
  BY <1>1
<1>3. \A i \in DOMAIN a : i \in DOMAIN c /\ c[i] = a[i]
  BY <1>1
<1>4. CASE Places(a, open) = {} /\ Places(a, close) = {}
  <2>1. Places(c, open) = {} /\ Places(c, close) = {}
    BY <1>2, <1>4 DEF Places
  <2> QED
    BY <2>1 DEF WellFenced, c
<1>5. CASE \E s, e \in DOMAIN a :
             /\ s < e
             /\ Places(a, open) = {s} /\ Places(a, close) = {e}
             /\ \A i \in DOMAIN a : a[i].kind = inside <=> i \in (s + 1)..(e - 1)
  <2>1. PICK s \in DOMAIN a, e \in DOMAIN a :
             /\ s < e
             /\ Places(a, open) = {s} /\ Places(a, close) = {e}
             /\ \A i \in DOMAIN a : a[i].kind = inside <=> i \in (s + 1)..(e - 1)
    BY <1>5
  <2>2. Places(c, open) = Places(a, open) /\ Places(c, close) = Places(a, close)
    BY <1>2, <1>3 DEF Places
  <2>3. \A i \in DOMAIN c : c[i].kind = inside <=> i \in (s + 1)..(e - 1)
    <3> SUFFICES ASSUME NEW i \in DOMAIN c
                 PROVE  c[i].kind = inside <=> i \in (s + 1)..(e - 1)
      OBVIOUS
    <3>1. i \in (s + 1)..(e - 1) => i \in DOMAIN a
      BY <1>1, <2>1
    <3> QED
      BY <1>2, <1>3, <2>1, <3>1
  <2> QED
    BY <1>3, <2>1, <2>2, <2>3 DEF WellFenced, c
<1> QED
  BY <1>4, <1>5 DEF WellFenced

\* Two texts one after the other.
Join(S, a, b, n, c) ==
           /\ n \in Nat /\ Len(b) \in Nat /\ c \in Seq(S) /\ Len(c) = n + Len(b)
           /\ DOMAIN a = 1..n /\ DOMAIN b = 1..Len(b) /\ DOMAIN c = 1..(n + Len(b))
           /\ \A i \in DOMAIN a : c[i] = a[i]
           /\ \A i \in DOMAIN b : c[n + i] = b[i]
           /\ \A i \in DOMAIN c : i \in Int /\ (i \in DOMAIN a \/ (i - n \in DOMAIN b /\ c[i] = b[i - n]))

LEMMA Joined ==
    ASSUME NEW S, NEW a \in Seq(S), NEW b \in Seq(S), NEW n, n = Len(a), NEW c, c = a \o b
    PROVE  Join(S, a, b, n, c)
<1>1. /\ n \in Nat /\ Len(b) \in Nat /\ c \in Seq(S) /\ Len(c) = n + Len(b)
      /\ DOMAIN a = 1..n /\ DOMAIN b = 1..Len(b) /\ DOMAIN c = 1..(n + Len(b))
      /\ \A i \in 1..n : c[i] = a[i]
      /\ \A i \in 1..Len(b) : c[n + i] = b[i]
  OBVIOUS
<1>2. ASSUME NEW i \in DOMAIN c, i \notin 1..n
      PROVE  i - n \in 1..Len(b) /\ c[i] = b[i - n]
  <2>1. i - n \in 1..Len(b) /\ n + (i - n) = i
    BY <1>1, <1>2
  <2> QED
    BY <1>1, <2>1
<1> QED
  BY <1>1, <1>2 DEF Join

\* The operator's first file has no fence.
LEMMA TidyFirst == Tidy(FirstText)
<1> DEFINE T == [kind : {"hand"}, of : Hand] \cup [kind : {"node"}, of : Node] \cup {Mark("note")}
<1>1. FirstText \in Seq(T)
  BY FilesAssumption
<1>2. \A l \in T : l \in ConfigLine /\ l.kind \in {"hand", "node", "note"}
  BY DEF ConfigLine, Mark, Line, Kind
<1> HIDE DEF T
<1>3. FirstText \in Seq(ConfigLine)
  BY <1>1, <1>2
<1>4. \A i \in DOMAIN FirstText : FirstText[i].kind \in {"hand", "node", "note"}
  BY <1>1, <1>2
<1>5. CloudOnTop(FirstText)
  BY <1>4 DEF CloudOnTop, CloudKind
<1>6. Places(FirstText, "nodes>>") = {} /\ Places(FirstText, "<<nodes") = {}
  BY <1>4 DEF Places
<1> QED
  BY <1>3, <1>5, <1>6 DEF Tidy, Fence, WellFenced

\* The operator may add an entry at the end.
LEMMA TidyAppend ==
    ASSUME NEW text, Tidy(text), NEW h \in Hand
    PROVE  Tidy(Append(text, Line("hand", h)))
<1> DEFINE l == Line("hand", h)
<1>1. l \in ConfigLine /\ l.kind = "hand"
  BY DEF ConfigLine, Line
<1> HIDE DEF l
<1>2. text \in Seq(ConfigLine)
  BY DEF Tidy
<1>3. Append(text, l) \in Seq(ConfigLine)
  BY <1>1, <1>2
<1>4. CloudOnTop(Append(text, l))
  <2>1. \A i \in DOMAIN Append(text, l) : i \in DOMAIN text \/ Append(text, l)[i] = l
    BY <1>2
  <2>2. \A i \in DOMAIN text : Append(text, l)[i] = text[i]
    BY <1>2
  <2>3. Len(Append(text, l)) = Len(text) + 1 /\ Len(text) \in Nat /\ DOMAIN text = 1..Len(text)
    BY <1>2
  <2> SUFFICES ASSUME NEW i \in DOMAIN Append(text, l), Append(text, l)[i].kind \in CloudKind
               PROVE  /\ i \in 1..3 /\ Len(Append(text, l)) >= 3
                      /\ Append(text, l)[1].kind = "cloud>>" /\ Append(text, l)[2].kind = "cloud"
                      /\ Append(text, l)[3].kind = "<<cloud"
    BY DEF CloudOnTop
  <2>4. i \in DOMAIN text /\ text[i].kind \in CloudKind
    BY <1>1, <2>1, <2>2 DEF CloudKind
  <2>5. /\ i \in 1..3 /\ Len(text) >= 3
        /\ text[1].kind = "cloud>>" /\ text[2].kind = "cloud" /\ text[3].kind = "<<cloud"
    BY <2>4 DEF Tidy, CloudOnTop
  <2>6. 1 \in DOMAIN text /\ 2 \in DOMAIN text /\ 3 \in DOMAIN text
    BY <2>3, <2>5
  <2> QED
    BY <2>2, <2>3, <2>5, <2>6
<1>5. Fence(Append(text, l))
  BY <1>1, <1>2, FenceAbove DEF Fence, Tidy
<1> QED
  BY <1>3, <1>4, <1>5 DEF Tidy, l

\* Applying the tiers drops the old block, which is on top, and nothing else.
LEMMA OldBlock ==
    ASSUME NEW text, Tidy(text), NEW i \in DOMAIN text
    PROVE  Fenced(text, i, "cloud>>", "<<cloud") <=> text[i].kind \in CloudKind
<1>0. DOMAIN text = 1..Len(text) /\ Len(text) \in Nat
  BY DEF Tidy
<1>1. ASSUME Fenced(text, i, "cloud>>", "<<cloud"), text[i].kind # "<<cloud"
      PROVE  text[i].kind \in CloudKind
  <2>1. PICK s \in 1..i : text[s].kind = "cloud>>"
                          /\ \A e \in s..(i - 1) : text[e].kind # "<<cloud"
    BY <1>1 DEF Fenced
  <2>2. s \in DOMAIN text
    BY <1>0
  <2>3. /\ s \in 1..3 /\ Len(text) >= 3
        /\ text[1].kind = "cloud>>" /\ text[2].kind = "cloud" /\ text[3].kind = "<<cloud"
    BY <2>1, <2>2 DEF Tidy, CloudOnTop, CloudKind
  <2>4. ~(3 < i)
    <3> SUFFICES ASSUME 3 < i PROVE FALSE
      OBVIOUS
    <3>1. 3 \in s..(i - 1)
      BY <1>0, <2>2, <2>3
    <3> QED
      BY <2>1, <2>3, <3>1
  <2>5. i = 1 \/ i = 2 \/ i = 3
    BY <1>0, <2>4
  <2> QED
    BY <2>3, <2>5 DEF CloudKind
<1>2. ASSUME text[i].kind \in CloudKind
      PROVE  Fenced(text, i, "cloud>>", "<<cloud")
  <2>1. /\ i \in 1..3 /\ Len(text) >= 3
        /\ text[1].kind = "cloud>>" /\ text[2].kind = "cloud" /\ text[3].kind = "<<cloud"
    BY <1>2 DEF Tidy, CloudOnTop
  <2>2. 1 \in 1..i /\ \A e \in 1..(i - 1) : e = 1 \/ e = 2
    BY <2>1
  <2>3. \A e \in 1..(i - 1) : text[e].kind # "<<cloud"
    BY <2>1, <2>2
  <2> QED
    BY <2>1, <2>2, <2>3 DEF Fenced
<1> QED
  BY <1>1, <1>2 DEF CloudKind

LEMMA AppliedLines ==
    ASSUME NEW text, Tidy(text), NEW body, body = Unfenced(text, "cloud>>", "<<cloud")
    PROVE  /\ body \in Seq(ConfigLine)
           /\ Picked(body, text, {i \in DOMAIN text : text[i].kind \notin CloudKind})
           /\ \A i \in DOMAIN body : body[i].kind \notin CloudKind
<1> DEFINE P == {i \in DOMAIN text : text[i].kind \notin CloudKind}
<1>1. P = {i \in DOMAIN text : ~Fenced(text, i, "cloud>>", "<<cloud")}
  BY OldBlock
<1>2. body \in Seq(ConfigLine) /\ Picked(body, text, P)
  BY <1>1, UnfencedPicks DEF Tidy
<1>3. \A i \in DOMAIN body : body[i].kind \notin CloudKind
  <2>1. PICK p : Lists(p, Len(body), P) /\ \A j \in 1..Len(body) : body[j] = text[p[j]]
    BY <1>2 DEF Picked
  <2>2. \A j \in 1..Len(body) : p[j] \in P /\ body[j] = text[p[j]]
    BY <2>1 DEF Lists
  <2>3. \A k \in P : text[k].kind \notin CloudKind
    OBVIOUS
  <2> HIDE DEF P
  <2>4. DOMAIN body = 1..Len(body)
    BY <1>2
  <2> QED
    BY <2>2, <2>3, <2>4
<1> QED
  BY <1>2, <1>3

LEMMA TidyApplied ==
    ASSUME NEW text, Tidy(text), NEW tiers \in Choice
    PROVE  Tidy(Applied(text, tiers))
<1> DEFINE top == <<Mark("cloud>>"), Line("cloud", tiers), Mark("<<cloud")>>
           body == Unfenced(text, "cloud>>", "<<cloud")
           P == {i \in DOMAIN text : text[i].kind \notin CloudKind}
<1>1. /\ top \in Seq(ConfigLine) /\ Len(top) = 3 /\ DOMAIN top = 1..3
      /\ top[1].kind = "cloud>>" /\ top[2].kind = "cloud" /\ top[3].kind = "<<cloud"
  <2>1. Mark("cloud>>") \in ConfigLine /\ Line("cloud", tiers) \in ConfigLine /\ Mark("<<cloud") \in ConfigLine
    BY DEF ConfigLine, Mark, Line, Kind
  <2>2. Mark("cloud>>").kind = "cloud>>" /\ Line("cloud", tiers).kind = "cloud" /\ Mark("<<cloud").kind = "<<cloud"
    BY DEF Mark, Line
  <2> QED
    BY <2>1, <2>2
<1>2. /\ body \in Seq(ConfigLine) /\ Picked(body, text, P)
      /\ \A i \in DOMAIN body : body[i].kind \notin CloudKind
  BY AppliedLines
<1>3. Applied(text, tiers) = top \o body
  BY DEF Applied
<1> HIDE DEF top, body
<1>4. Fence(body)
  <2>1. P \in SUBSET (DOMAIN text) /\ \A i \in DOMAIN text : text[i].kind \in {"nodes>>", "<<nodes"} => i \in P
    BY DEF CloudKind
  <2> HIDE DEF P
  <2> QED
    BY <1>2, <2>1, FencePicked DEF Tidy, Fence
<1>5. Fence(top \o body)
  <2>1. \A i \in DOMAIN top : top[i].kind \notin {"nodes>>", "<<nodes", "node"}
    <3>1. \A i \in 1..3 : i = 1 \/ i = 2 \/ i = 3
      OBVIOUS
    <3> QED
      BY <1>1, <3>1
  <2> QED
    BY <1>1, <1>2, <1>4, <2>1, FenceBelow DEF Fence
<1>6. CloudOnTop(top \o body)
  <2> DEFINE c == top \o body
             n == Len(top)
  <2>1. /\ \A i \in DOMAIN top : c[i] = top[i]
        /\ Len(c) = n + Len(body) /\ Len(body) \in Nat
        /\ \A i \in DOMAIN c : i \in DOMAIN top \/ (i - n \in DOMAIN body /\ c[i] = body[i - n])
    <3> HIDE DEF c, n
    <3>1. c = top \o body /\ n = Len(top)
      BY DEF c, n
    <3>2. top \in Seq(ConfigLine) /\ body \in Seq(ConfigLine)
      BY <1>1, <1>2
    <3>3. Join(ConfigLine, top, body, n, c)
      BY <3>1, <3>2, Joined
    <3> QED
      BY <3>3 DEF Join
  <2>2. n = 3
    BY <1>1
  <2> HIDE DEF c, n
  <2>3. \A i \in DOMAIN c : c[i].kind \in CloudKind => i \in 1..3
    BY <1>1, <1>2, <2>1
  <2>4. 1 \in 1..3 /\ 2 \in 1..3 /\ 3 \in 1..3
    OBVIOUS
  <2>5. Len(c) >= 3 /\ c[1].kind = "cloud>>" /\ c[2].kind = "cloud" /\ c[3].kind = "<<cloud"
    BY <1>1, <2>1, <2>2, <2>4
  <2> QED
    BY <2>3, <2>5 DEF CloudOnTop, c
<1>7. top \o body \in Seq(ConfigLine)
  BY <1>1, <1>2
<1> QED
  BY <1>3, <1>5, <1>6, <1>7 DEF Tidy

\* A sync's own block: what its fence hides belongs to the fleet.
LEMMA OldNodes ==
    ASSUME NEW text, Tidy(text), NEW i \in DOMAIN text
    PROVE  /\ Fenced(text, i, "nodes>>", "<<nodes") => text[i].kind \in NodeKind
           /\ text[i].kind \in {"nodes>>", "<<nodes"} => Fenced(text, i, "nodes>>", "<<nodes")
<1>0. DOMAIN text = 1..Len(text) /\ Len(text) \in Nat /\ i \in Nat
  BY DEF Tidy
<1>1. ASSUME text[i].kind \in {"nodes>>", "<<nodes"} PROVE Fenced(text, i, "nodes>>", "<<nodes")
  <2>1. CASE text[i].kind = "nodes>>"
    <3>1. i \in 1..i /\ \A e \in i..(i - 1) : FALSE
      BY <1>0
    <3> QED
      BY <2>1, <3>1 DEF Fenced
  <2> QED
    BY <1>1, <2>1 DEF Fenced
<1>2. ASSUME Fenced(text, i, "nodes>>", "<<nodes"), text[i].kind # "<<nodes"
      PROVE  text[i].kind \in NodeKind
  <2>1. PICK b \in 1..i : text[b].kind = "nodes>>" /\ \A e \in b..(i - 1) : text[e].kind # "<<nodes"
    BY <1>2 DEF Fenced
  <2>2. b \in Places(text, "nodes>>")
    BY <1>0, <2>1 DEF Places
  <2>3. PICK s \in DOMAIN text, e \in DOMAIN text :
             /\ s < e
             /\ Places(text, "nodes>>") = {s} /\ Places(text, "<<nodes") = {e}
             /\ \A j \in DOMAIN text : text[j].kind = "node" <=> j \in (s + 1)..(e - 1)
    BY <2>2 DEF Tidy, Fence, WellFenced
  <2>4. b = s /\ s \in Nat /\ e \in Nat /\ text[e].kind = "<<nodes"
    BY <1>0, <2>2, <2>3 DEF Places
  <2>5. i # e /\ ~(e < i)
    BY <1>0, <1>2, <2>1, <2>3, <2>4
  <2>6. i = s \/ i \in (s + 1)..(e - 1)
    BY <1>0, <2>1, <2>4, <2>5
  <2> QED
    BY <2>1, <2>3, <2>4, <2>6 DEF NodeKind
<1> QED
  BY <1>1, <1>2 DEF NodeKind

\* What a sync finds outside its fence.
LEMMA BodyLines ==
    ASSUME NEW text, Tidy(text), NEW body, body = Unfenced(text, "nodes>>", "<<nodes")
    PROVE  /\ body \in Seq(ConfigLine)
           /\ Picked(body, text, {i \in DOMAIN text : ~Fenced(text, i, "nodes>>", "<<nodes")})
           /\ CloudOnTop(body)
           /\ \A i \in DOMAIN body : body[i].kind \notin {"nodes>>", "<<nodes"}
<1> DEFINE P == {i \in DOMAIN text : ~Fenced(text, i, "nodes>>", "<<nodes")}
<1>1. body \in Seq(ConfigLine) /\ Picked(body, text, P)
  BY UnfencedPicks DEF Tidy
<1>2. /\ P \in SUBSET (DOMAIN text)
      /\ \A i \in DOMAIN text : text[i].kind \in CloudKind => i \in P
      /\ \A i \in P : text[i].kind \notin {"nodes>>", "<<nodes"}
  BY OldNodes DEF NodeKind, CloudKind
<1> HIDE DEF P
<1>3. CloudOnTop(body)
  BY <1>1, <1>2, TopPicked DEF Tidy
<1>4. PICK p : Lists(p, Len(body), P) /\ \A j \in 1..Len(body) : body[j] = text[p[j]]
  BY <1>1 DEF Picked
<1>5. \A j \in 1..Len(body) : p[j] \in P /\ body[j] = text[p[j]]
  BY <1>4 DEF Lists
<1>6. DOMAIN body = 1..Len(body)
  BY <1>1
<1> QED
  BY <1>1, <1>2, <1>3, <1>5, <1>6 DEF P

\* What a sync keeps has no line of the fleet, and the cloud tiers' block is still on top.
LEMMA KeptLines ==
    ASSUME NEW text, Tidy(text)
    PROVE  /\ Kept(text) \in Seq(ConfigLine)
           /\ CloudOnTop(Kept(text))
           /\ \A i \in DOMAIN Kept(text) :
                  Kept(text)[i].kind \notin NodeKind /\ ~IsNodeEntry(Kept(text)[i])
<1> DEFINE body == Unfenced(text, "nodes>>", "<<nodes")
           P == {i \in DOMAIN body : ~Dropped(body, i)}
           a == Kept(text)
<1>1. /\ body \in Seq(ConfigLine) /\ CloudOnTop(body)
      /\ \A i \in DOMAIN body : body[i].kind \notin {"nodes>>", "<<nodes"}
  BY BodyLines
<1>2. a \in Seq(ConfigLine) /\ Picked(a, body, P)
  BY <1>1, KeptPicks DEF Tidy
<1> HIDE DEF body, a
<1>3. DOMAIN body = 1..Len(body) /\ Len(body) \in Nat /\ DOMAIN a = 1..Len(a)
  BY <1>1, <1>2
<1>4. \A i \in P : body[i].kind \notin NodeKind /\ ~IsNodeEntry(body[i])
  <2> SUFFICES ASSUME NEW i \in DOMAIN body, IsNodeEntry(body[i]) PROVE Dropped(body, i)
    BY <1>1 DEF NodeKind, IsNodeEntry
  <2>1. i \in 1..i /\ \A k \in (i + 1)..i : FALSE
    BY <1>3
  <2> QED
    BY <2>1 DEF Dropped
<1>5. \A i \in DOMAIN body : body[i].kind \in CloudKind => i \in P
  <2> SUFFICES ASSUME NEW i \in DOMAIN body, body[i].kind \in CloudKind PROVE ~Dropped(body, i)
    OBVIOUS
  <2>1. /\ i \in 1..3 /\ Len(body) >= 3
        /\ body[1].kind = "cloud>>" /\ body[2].kind = "cloud" /\ body[3].kind = "<<cloud"
    BY <1>1 DEF CloudOnTop
  <2>2. \A j \in 1..i : j = 1 \/ j = 2 \/ j = 3
    BY <2>1
  <2>3. \A j \in 1..i : ~IsNodeEntry(body[j])
    BY <2>1, <2>2 DEF IsNodeEntry
  <2> QED
    BY <2>3 DEF Dropped
<1>6. P \in SUBSET (DOMAIN body)
  OBVIOUS
<1> HIDE DEF P
<1>7. CloudOnTop(a)
  BY <1>1, <1>2, <1>5, <1>6, TopPicked
<1>8. PICK p : Lists(p, Len(a), P) /\ \A j \in 1..Len(a) : a[j] = body[p[j]]
  BY <1>2 DEF Picked
<1>9. \A j \in 1..Len(a) : p[j] \in P /\ a[j] = body[p[j]]
  BY <1>8 DEF Lists
<1> QED
  BY <1>2, <1>3, <1>4, <1>7, <1>9 DEF a

\* The nodes are listed, each once.
LEMMA NodesListed ==
    ASSUME NEW nodes \in SUBSET Node
    PROVE  \E n \in Nat : SetToSeq(nodes) \in [1..n -> nodes]
                          /\ \A v \in nodes : \E i \in 1..n : SetToSeq(nodes)[i] = v
<1> DEFINE n == Cardinality(nodes)
           f == SetToSeq(nodes)
<1>1. IsFiniteSet(nodes) /\ n \in Nat
  BY TextAssumption, FS_Subset, FS_CardinalityType
<1>2. PICK m \in Nat : ExistsBijection(1..m, nodes)
  BY <1>1, FS_NatBijection
<1>3. m = n
  BY <1>2, FS_CountingElements
<1>4. PICK g : g \in Bijection(1..n, nodes)
  BY <1>2, <1>3 DEF ExistsBijection
<1>5. g \in [1..n -> nodes] /\ IsInjective(g)
  BY <1>4 DEF Bijection, Injection
<1>6. f \in [1..n -> nodes] /\ IsInjective(f)
  BY <1>5 DEF SetToSeq
<1> HIDE DEF f, n
<1>7. \A v \in nodes : \E i \in 1..n : f[i] = v
  <2>1. f \in Injection(1..n, nodes)
    BY <1>6 DEF Injection
  <2>2. IsFiniteSet(1..n) /\ Cardinality(1..n) = n
    BY <1>1, FS_Interval
  <2>3. f \in Surjection(1..n, nodes)
    <3>1. IsFiniteSet(nodes) /\ Cardinality(1..n) = Cardinality(nodes)
      BY <1>1, <2>2 DEF n
    <3> QED
      BY <2>1, <3>1, FS_Injection
  <2> QED
    BY <2>3 DEF Surjection
<1> QED
  BY <1>1, <1>6, <1>7 DEF f

\* A text whose first m lines are a, and whose others are a block of n nodes.
SyncedFrom(a, m, nodes, n, c) ==
    /\ m \in Nat /\ DOMAIN a = 1..m
    /\ c \in Seq(ConfigLine) /\ Len(c) = m + n + 2 /\ DOMAIN c = 1..(m + n + 2)
    /\ \A i \in 1..m : c[i] = a[i]
    /\ c[m + 1] = Mark("nodes>>") /\ c[m + n + 2] = Mark("<<nodes")
    /\ \A i \in (m + 2)..(m + n + 1) : c[i].kind = "node" /\ c[i].of \in nodes
    /\ \A v \in nodes : \E i \in (m + 2)..(m + n + 1) : c[i].of = v

\* The text of a sync: what it keeps, and the block it generates below.
LEMMA SyncedLines ==
    ASSUME NEW text, Tidy(text), NEW nodes \in SUBSET Node,
           NEW a, a = Kept(text), NEW m, m = Len(a), NEW c, c = Synced(text, nodes)
    PROVE  \E n \in Nat : SyncedFrom(a, m, nodes, n, c)
<1> DEFINE f == SetToSeq(nodes)
           g == [i \in DOMAIN f |-> Line("node", f[i])]
           open == <<Mark("nodes>>")>>
           close == <<Mark("<<nodes")>>
<1>1. PICK n \in Nat : f \in [1..n -> nodes] /\ \A v \in nodes : \E i \in 1..n : f[i] = v
  BY NodesListed
<1>2. c = ((a \o open) \o g) \o close
  BY DEF Synced
<1>3. a \in Seq(ConfigLine)
  BY KeptLines
<1>4. /\ open \in Seq(ConfigLine) /\ Len(open) = 1 /\ open[1] = Mark("nodes>>")
      /\ close \in Seq(ConfigLine) /\ Len(close) = 1 /\ close[1] = Mark("<<nodes")
  <2>1. Mark("nodes>>") \in ConfigLine /\ Mark("<<nodes") \in ConfigLine
    BY DEF ConfigLine, Mark, Line, Kind
  <2> QED
    BY <2>1
<1>5. /\ g \in Seq(ConfigLine) /\ Len(g) = n /\ DOMAIN g = 1..n
      /\ \A i \in 1..n : g[i] = [kind |-> "node", of |-> f[i]]
  <2>1. DOMAIN f = 1..n /\ \A i \in 1..n : f[i] \in nodes
    BY <1>1
  <2> HIDE DEF f
  <2>2. g = [i \in 1..n |-> [kind |-> "node", of |-> f[i]]]
    BY <2>1 DEF Line
  <2>3. \A i \in 1..n : [kind |-> "node", of |-> f[i]] \in ConfigLine
    BY <2>1 DEF ConfigLine
  <2> HIDE DEF g
  <2> QED
    BY <2>2, <2>3
<1> HIDE DEF f, g, open, close
<1> DEFINE a1 == a \o open
           a2 == a1 \o g
<1>6. a1 = a \o open /\ a2 = a1 \o g /\ c = a2 \o close
  BY <1>2
<1> HIDE DEF a1, a2
<1>7. /\ m \in Nat /\ DOMAIN a = 1..m /\ a1 \in Seq(ConfigLine) /\ Len(a1) = m + 1
      /\ \A i \in 1..m : a1[i] = a[i]
      /\ a1[m + 1] = Mark("nodes>>")
  <2>1. open \in Seq(ConfigLine) /\ DOMAIN open = 1..1
    BY <1>4
  <2> QED
    <3>1. Join(ConfigLine, a, open, m, a1)
      BY <1>3, <1>6, <2>1, Joined
    <3> QED
      BY <1>4, <2>1, <3>1 DEF Join
<1>8. /\ a2 \in Seq(ConfigLine) /\ Len(a2) = m + 1 + n
      /\ \A i \in 1..(m + 1) : a2[i] = a1[i]
      /\ \A i \in 1..n : a2[(m + 1) + i] = g[i]
  <2>1. DOMAIN a1 = 1..(m + 1) /\ m + 1 = Len(a1) /\ a1 \in Seq(ConfigLine) /\ g \in Seq(ConfigLine)
    BY <1>5, <1>7
  <2> QED
    <3>1. Join(ConfigLine, a1, g, m + 1, a2)
      BY <1>6, <2>1, Joined
    <3> QED
      BY <1>5, <2>1, <3>1 DEF Join
<1>9. /\ c \in Seq(ConfigLine) /\ Len(c) = m + n + 2 /\ DOMAIN c = 1..(m + n + 2)
      /\ \A i \in 1..(m + 1 + n) : c[i] = a2[i]
      /\ c[m + n + 2] = Mark("<<nodes")
  <2> DEFINE k == m + 1 + n
  <2>1. /\ DOMAIN a2 = 1..k /\ k = Len(a2) /\ a2 \in Seq(ConfigLine) /\ close \in Seq(ConfigLine)
        /\ DOMAIN close = 1..1
    BY <1>4, <1>7, <1>8
  <2>2. k \in Nat /\ k + 1 = m + n + 2 /\ 1..(m + 1 + n) = 1..k
    BY <1>7
  <2> HIDE DEF k
  <2>3. /\ c \in Seq(ConfigLine) /\ Len(c) = k + Len(close) /\ DOMAIN c = 1..(k + Len(close))
        /\ \A i \in DOMAIN a2 : c[i] = a2[i]
        /\ \A i \in DOMAIN close : c[k + i] = close[i]
    <3>1. Join(ConfigLine, a2, close, k, c)
      BY <1>6, <2>1, Joined
    <3> QED
      BY <2>1, <3>1 DEF Join
  <2>4. Len(c) = k + 1 /\ DOMAIN c = 1..(k + 1) /\ c[k + 1] = Mark("<<nodes")
    BY <1>4, <2>1, <2>3
  <2>5. \A i \in 1..k : c[i] = a2[i]
    BY <2>1, <2>3
  <2> QED
    BY <2>2, <2>3, <2>4, <2>5
<1>10. \A i \in 1..(m + 1) : c[i] = a1[i]
  <2>1. \A i \in 1..(m + 1) : i \in 1..(m + 1 + n)
    BY <1>7
  <2> QED
    BY <1>8, <1>9, <2>1
<1>11. \A i \in 1..n : c[(m + 1) + i] = g[i] /\ (m + 1) + i \in (m + 2)..(m + n + 1)
  <2> SUFFICES ASSUME NEW i \in 1..n
               PROVE  c[(m + 1) + i] = g[i] /\ (m + 1) + i \in (m + 2)..(m + n + 1)
    OBVIOUS
  <2>1. (m + 1) + i \in 1..(m + 1 + n) /\ (m + 1) + i \in (m + 2)..(m + n + 1)
    BY <1>7
  <2> QED
    BY <1>8, <1>9, <2>1
<1>12. ASSUME NEW i \in (m + 2)..(m + n + 1) PROVE c[i].kind = "node" /\ c[i].of \in nodes
  <2>1. i - (m + 1) \in 1..n /\ (m + 1) + (i - (m + 1)) = i
    BY <1>7
  <2>2. c[i] = g[i - (m + 1)]
    BY <1>11, <2>1
  <2> QED
    BY <1>1, <1>5, <2>1, <2>2
<1>13. ASSUME NEW v \in nodes PROVE \E i \in (m + 2)..(m + n + 1) : c[i].of = v
  <2>1. PICK j \in 1..n : f[j] = v
    BY <1>1
  <2>2. c[(m + 1) + j].of = v
    BY <1>5, <1>11, <2>1
  <2> QED
    BY <1>11, <2>2
<1>14. \A i \in 1..m : c[i] = a[i]
  BY <1>7, <1>10
<1>15. c[m + 1] = Mark("nodes>>")
  BY <1>7, <1>10
<1> QED
  BY <1>7, <1>9, <1>12, <1>13, <1>14, <1>15 DEF SyncedFrom

LEMMA TidySynced ==
    ASSUME NEW text, Tidy(text), NEW nodes \in SUBSET Node
    PROVE  Tidy(Synced(text, nodes))
<1> DEFINE a == Kept(text)
           m == Len(a)
           c == Synced(text, nodes)
<1>1. CloudOnTop(a) /\ \A i \in DOMAIN a : a[i].kind \notin NodeKind
  BY KeptLines
<1>2. PICK n \in Nat : SyncedFrom(a, m, nodes, n, c)
  <2> HIDE DEF a, m, c
  <2>1. a = Kept(text) /\ m = Len(a) /\ c = Synced(text, nodes)
    BY DEF a, m, c
  <2> QED
    BY <2>1, SyncedLines
<1>3. m = Len(a)
  OBVIOUS
<1> HIDE DEF a, m, c
<1> USE DEF SyncedFrom
<1>4. c[m + 1].kind = "nodes>>" /\ c[m + n + 2].kind = "<<nodes"
  BY <1>2 DEF Mark, Line
<1>5. \A i \in DOMAIN c : i \in Int /\ (i \in 1..m \/ i = m + 1 \/ i \in (m + 2)..(m + n + 1) \/ i = m + n + 2)
  BY <1>2
<1>6. \A i \in 1..m : c[i].kind \notin NodeKind
  BY <1>1, <1>2
<1>7. CloudOnTop(c)
  <2> SUFFICES ASSUME NEW i \in DOMAIN c, c[i].kind \in CloudKind
               PROVE  /\ i \in 1..3 /\ Len(c) >= 3
                      /\ c[1].kind = "cloud>>" /\ c[2].kind = "cloud" /\ c[3].kind = "<<cloud"
    BY DEF CloudOnTop
  <2>1. i \in 1..m /\ a[i].kind \in CloudKind
    BY <1>2, <1>4, <1>5 DEF CloudKind
  <2>2. /\ i \in 1..3 /\ m >= 3
        /\ a[1].kind = "cloud>>" /\ a[2].kind = "cloud" /\ a[3].kind = "<<cloud"
    BY <1>1, <1>2, <1>3, <2>1 DEF CloudOnTop
  <2>3. 1 \in 1..m /\ 2 \in 1..m /\ 3 \in 1..m /\ Len(c) >= 3
    BY <1>2, <2>2
  <2> QED
    BY <1>2, <2>2, <2>3
<1>8. Fence(c)
  <2>1. m + 1 \in DOMAIN c /\ m + n + 2 \in DOMAIN c /\ m + 1 < m + n + 2
    BY <1>2
  <2>2. Places(c, "nodes>>") = {m + 1}
    <3>1. \A i \in DOMAIN c : c[i].kind = "nodes>>" => i = m + 1
      BY <1>2, <1>4, <1>5, <1>6 DEF NodeKind
    <3> QED
      BY <1>4, <2>1, <3>1 DEF Places
  <2>3. Places(c, "<<nodes") = {m + n + 2}
    <3>1. \A i \in DOMAIN c : c[i].kind = "<<nodes" => i = m + n + 2
      BY <1>2, <1>4, <1>5, <1>6 DEF NodeKind
    <3> QED
      BY <1>4, <2>1, <3>1 DEF Places
  <2>4. ASSUME NEW i \in DOMAIN c
        PROVE  c[i].kind = "node" <=> i \in ((m + 1) + 1)..((m + n + 2) - 1)
    <3>1. ((m + 1) + 1)..((m + n + 2) - 1) = (m + 2)..(m + n + 1)
      BY <1>2
    <3>2. c[i].kind = "node" => i \in (m + 2)..(m + n + 1)
      BY <1>4, <1>5, <1>6 DEF NodeKind
    <3> QED
      BY <1>2, <3>1, <3>2
  <2> QED
    BY <2>1, <2>2, <2>3, <2>4 DEF Fence, WellFenced
<1> QED
  BY <1>2, <1>7, <1>8 DEF Tidy, c, SyncedFrom

-----------------------------------------------------------------------------
(* What an edit leaves alone.                                               *)

\* e takes the lines of one sort in w to those of text, one to one and in their order.
Matches(e, w, text, K) ==
    /\ \A i \in Of(w, K) : e[i] \in Of(text, K) /\ w[i] = text[e[i]]
    /\ \A d \in Of(text, K) : \E i \in Of(w, K) : e[i] = d
    /\ \A i, k \in Of(w, K) : i < k => e[i] < e[k]

\* Lines that are picked match, when none of the sort is left out.
LEMMA MatchPicked ==
    ASSUME NEW S, NEW text \in Seq(S), NEW a \in Seq(S), NEW P \in SUBSET (DOMAIN text),
           Picked(a, text, P), NEW K, Of(text, K) \subseteq P
    PROVE  \E e : Matches(e, a, text, K)
<1>1. PICK p : Lists(p, Len(a), P) /\ \A j \in 1..Len(a) : a[j] = text[p[j]]
  BY DEF Picked
<1>2. DOMAIN a = 1..Len(a)
  OBVIOUS
<1>3. \A i \in Of(a, K) : p[i] \in Of(text, K) /\ a[i] = text[p[i]]
  BY <1>1, <1>2 DEF Lists, Of
<1>4. \A d \in Of(text, K) : \E i \in Of(a, K) : p[i] = d
  <2> SUFFICES ASSUME NEW d \in Of(text, K) PROVE \E i \in Of(a, K) : p[i] = d
    OBVIOUS
  <2>1. PICK i \in 1..Len(a) : p[i] = d
    BY <1>1 DEF Lists
  <2>2. a[i] \in K
    BY <1>1, <2>1 DEF Of
  <2> QED
    BY <1>2, <2>1, <2>2 DEF Of
<1>5. \A i, k \in Of(a, K) : i < k => p[i] < p[k]
  BY <1>1, <1>2 DEF Lists, Of
<1> QED
  BY <1>3, <1>4, <1>5 DEF Matches

LEMMA MatchTwice ==
    ASSUME NEW c, NEW a, NEW text, NEW K, NEW e, NEW f,
           Matches(e, c, a, K), Matches(f, a, text, K)
    PROVE  \E g : Matches(g, c, text, K)
<1> DEFINE g == [i \in Of(c, K) |-> f[e[i]]]
<1>1. \A i \in Of(c, K) : g[i] \in Of(text, K) /\ c[i] = text[g[i]]
  BY DEF Matches
<1>2. ASSUME NEW d \in Of(text, K) PROVE \E i \in Of(c, K) : g[i] = d
  <2>1. PICK j \in Of(a, K) : f[j] = d
    BY DEF Matches
  <2>2. PICK i \in Of(c, K) : e[i] = j
    BY DEF Matches
  <2> QED
    BY <2>1, <2>2
<1>3. ASSUME NEW i \in Of(c, K), NEW k \in Of(c, K), i < k PROVE g[i] < g[k]
  <2>1. e[i] \in Of(a, K) /\ e[k] \in Of(a, K) /\ e[i] < e[k]
    BY <1>3 DEF Matches
  <2> QED
    BY <2>1 DEF Matches
<1> HIDE DEF g
<1> QED
  BY <1>1, <1>2, <1>3 DEF Matches

\* Matching lines are the same.
LEMMA SameLines ==
    ASSUME NEW w, NEW text, NEW K, NEW e, Matches(e, w, text, K)
    PROVE  /\ \A i \in Of(w, K) : \E j \in Of(text, K) : w[i] = text[j]
           /\ \A j \in Of(text, K) : \E i \in Of(w, K) : w[i] = text[j]
<1>1. ASSUME NEW i \in Of(w, K) PROVE \E j \in Of(text, K) : w[i] = text[j]
  BY DEF Matches
<1>2. ASSUME NEW j \in Of(text, K) PROVE \E i \in Of(w, K) : w[i] = text[j]
  <2>1. PICK i \in Of(w, K) : e[i] = j
    BY DEF Matches
  <2> QED
    BY <2>1 DEF Matches
<1> QED
  BY <1>1, <1>2

\* Where a text has the lines of the operator, of the nodes and of the tiers.
LEMMA Found ==
    ASSUME NEW text \in Seq(ConfigLine)
    PROVE  /\ AlikeOf(text) = {text[i] : i \in Of(text, AlikeLine)}
           /\ NodesOf(text) = {text[i].of : i \in Of(text, KindLine("node"))}
           /\ CloudOf(text) = {text[i].of : i \in Of(text, KindLine("cloud"))}
<1>1. \A i \in DOMAIN text : text[i] \in ConfigLine
  OBVIOUS
<1>2. {k \in DOMAIN text : text[k].kind = "hand" /\ text[k].of \in Lookalike} = Of(text, AlikeLine)
  BY <1>1 DEF Of, AlikeLine
<1>3. ASSUME NEW kind PROVE {k \in DOMAIN text : text[k].kind = kind} = Of(text, KindLine(kind))
  BY <1>1 DEF Of, KindLine
<1> QED
  BY <1>2, <1>3 DEF AlikeOf, NodesOf, CloudOf

LEMMA SameHand ==
    ASSUME NEW text \in Seq(ConfigLine), NEW w \in Seq(ConfigLine), NEW e,
           Matches(e, w, text, PlainLine)
    PROVE  HandOf(w) = HandOf(text)
<1> DEFINE a == HandOf(w)
           b == HandOf(text)
           P == Of(text, PlainLine)
           m == Len(a)
<1>1. a \in Seq(ConfigLine) /\ Picked(a, w, Of(w, PlainLine)) /\ b \in Seq(ConfigLine) /\ Picked(b, text, P)
  BY HandPicks
<1> HIDE DEF a, b
<1>2. m \in Nat /\ DOMAIN a = 1..m
  BY <1>1
<1>3. PICK p : Lists(p, m, Of(w, PlainLine)) /\ \A j \in 1..m : a[j] = w[p[j]]
  BY <1>1 DEF Picked
<1> DEFINE q == [j \in 1..m |-> e[p[j]]]
<1>4. \A j \in 1..m : p[j] \in Of(w, PlainLine)
  BY <1>3 DEF Lists
<1>5. q \in [1..m -> P] /\ \A j \in 1..m : w[p[j]] = text[q[j]]
  BY <1>4 DEF Matches
<1>6. ASSUME NEW d \in P PROVE \E j \in 1..m : q[j] = d
  <2>1. PICK i \in Of(w, PlainLine) : e[i] = d
    BY DEF Matches
  <2>2. PICK j \in 1..m : p[j] = i
    BY <1>3 DEF Lists
  <2> QED
    BY <2>1, <2>2
<1>7. ASSUME NEW j \in 1..m, NEW k \in 1..m, j < k PROVE q[j] < q[k]
  <2>1. p[j] < p[k]
    BY <1>3, <1>7 DEF Lists
  <2> QED
    BY <1>4, <2>1 DEF Matches
<1> HIDE DEF q
<1>8. Lists(q, m, P)
  BY <1>5, <1>6, <1>7 DEF Lists
<1>9. Picked(a, text, P)
  BY <1>2, <1>3, <1>5, <1>8 DEF Picked
<1>10. P \in SUBSET Nat
  BY DEF Of
<1>11. a = [j \in 1..Len(a) |-> a[j]] /\ b = [j \in 1..Len(b) |-> b[j]]
  BY <1>1
<1> HIDE DEF P, m
<1>12. a = b
  BY <1>1, <1>9, <1>10, <1>11, OnePick
<1> QED
  BY <1>12 DEF a, b

\* What the tiers do not touch.
LEMMA AppliedMatches ==
    ASSUME NEW text, Tidy(text), NEW tiers \in Choice,
           NEW K, \A l \in K : l.kind \notin CloudKind
    PROVE  \E e : Matches(e, Applied(text, tiers), text, K)
<1> DEFINE top == <<Mark("cloud>>"), Line("cloud", tiers), Mark("<<cloud")>>
           body == Unfenced(text, "cloud>>", "<<cloud")
           P == {i \in DOMAIN text : text[i].kind \notin CloudKind}
           c == Applied(text, tiers)
           n == Len(top)
<1>1. top \in Seq(ConfigLine) /\ n = 3 /\ \A i \in DOMAIN top : top[i].kind \in CloudKind
  <2>1. Mark("cloud>>") \in ConfigLine /\ Line("cloud", tiers) \in ConfigLine /\ Mark("<<cloud") \in ConfigLine
    BY DEF ConfigLine, Mark, Line, Kind
  <2>2. Mark("cloud>>").kind \in CloudKind /\ Line("cloud", tiers).kind \in CloudKind /\ Mark("<<cloud").kind \in CloudKind
    BY DEF Mark, Line, CloudKind
  <2> QED
    BY <2>1, <2>2
<1>2. body \in Seq(ConfigLine) /\ Picked(body, text, P)
  BY AppliedLines
<1>3. c = top \o body
  BY DEF Applied
<1> HIDE DEF top, body, c
<1>4. PICK f : Matches(f, body, text, K)
  <2>1. P \in SUBSET (DOMAIN text) /\ Of(text, K) \subseteq P /\ text \in Seq(ConfigLine)
    BY DEF Of, Tidy
  <2> HIDE DEF P
  <2> QED
    BY <1>2, <2>1, MatchPicked
<1>5. Join(ConfigLine, top, body, n, c)
  BY <1>1, <1>2, <1>3, Joined
<1> DEFINE e == [i \in Of(c, K) |-> i - n]
<1>6. \A i \in Of(c, K) : i \in Int /\ i - n \in Of(body, K) /\ c[i] = body[i - n]
  BY <1>1, <1>5 DEF Of, Join
<1>7. ASSUME NEW d \in Of(body, K) PROVE n + d \in Of(c, K) /\ (n + d) - n = d
  BY <1>1, <1>5 DEF Of, Join
<1> HIDE DEF n
<1>8. n \in Nat
  BY <1>5 DEF Join
<1>9. Matches(e, c, body, K)
  <2>1. \A i \in Of(c, K) : e[i] = i - n
    OBVIOUS
  <2>2. \A d \in Of(body, K) : \E i \in Of(c, K) : e[i] = d
    BY <1>7
  <2>3. \A i, k \in Of(c, K) : i < k => e[i] < e[k]
    BY <1>6, <1>8
  <2> HIDE DEF e
  <2> QED
    BY <1>6, <2>1, <2>2, <2>3 DEF Matches
<1>10. \E g : Matches(g, c, text, K)
  <2> HIDE DEF e
  <2> QED
    BY <1>4, <1>9, MatchTwice
<1> QED
  BY <1>10 DEF c

LEMMA AppliedReads ==
    ASSUME NEW text, Tidy(text), NEW tiers \in Choice
    PROVE  /\ HandOf(Applied(text, tiers)) = HandOf(text)
           /\ AlikeOf(Applied(text, tiers)) = AlikeOf(text)
           /\ NodesOf(Applied(text, tiers)) = NodesOf(text)
           /\ CloudOf(Applied(text, tiers)) = {tiers}
<1>1. Applied(text, tiers) \in Seq(ConfigLine) /\ text \in Seq(ConfigLine)
  BY TidyApplied DEF Tidy
<1>2. HandOf(Applied(text, tiers)) = HandOf(text)
  <2>1. PICK e : Matches(e, Applied(text, tiers), text, PlainLine)
    BY AppliedMatches DEF PlainLine, Plain, CloudKind
  <2> QED
    BY <1>1, <2>1, SameHand
<1>3. /\ AlikeOf(Applied(text, tiers)) = AlikeOf(text)
      /\ NodesOf(Applied(text, tiers)) = NodesOf(text)
  <2> DEFINE c == Applied(text, tiers)
  <2>1. (\E e : Matches(e, c, text, AlikeLine)) /\ \E e : Matches(e, c, text, KindLine("node"))
    BY AppliedMatches DEF AlikeLine, KindLine, CloudKind
  <2>2. c \in Seq(ConfigLine)
    BY <1>1
  <2> HIDE DEF c
  <2>3. {c[i] : i \in Of(c, AlikeLine)} = {text[i] : i \in Of(text, AlikeLine)}
    <3>1. /\ \A i \in Of(c, AlikeLine) : \E j \in Of(text, AlikeLine) : c[i] = text[j]
          /\ \A j \in Of(text, AlikeLine) : \E i \in Of(c, AlikeLine) : c[i] = text[j]
      BY <2>1, SameLines
    <3> QED
      BY <3>1
  <2>4. {c[i].of : i \in Of(c, KindLine("node"))} = {text[i].of : i \in Of(text, KindLine("node"))}
    <3>1. PICK K, e : K = KindLine("node") /\ Matches(e, c, text, K)
      BY <2>1
    <3>2. /\ \A i \in Of(c, K) : \E j \in Of(text, K) : c[i] = text[j]
          /\ \A j \in Of(text, K) : \E i \in Of(c, K) : c[i] = text[j]
      BY <3>1, SameLines
    <3> QED
      BY <3>1, <3>2
  <2>5. AlikeOf(c) = AlikeOf(text) /\ NodesOf(c) = NodesOf(text)
    BY <1>1, <2>2, <2>3, <2>4, Found
  <2> QED
    BY <2>5 DEF c
<1>4. CloudOf(Applied(text, tiers)) = {tiers}
  <2> DEFINE top == <<Mark("cloud>>"), Line("cloud", tiers), Mark("<<cloud")>>
             body == Unfenced(text, "cloud>>", "<<cloud")
             c == Applied(text, tiers)
             n == Len(top)
  <2>1. body \in Seq(ConfigLine) /\ \A i \in DOMAIN body : body[i].kind \notin CloudKind
    BY AppliedLines
  <2>2. top \in Seq(ConfigLine) /\ n = 3 /\ top[2] = Line("cloud", tiers) /\ top[1] = Mark("cloud>>") /\ top[3] = Mark("<<cloud")
    <3>1. Mark("cloud>>") \in ConfigLine /\ Line("cloud", tiers) \in ConfigLine /\ Mark("<<cloud") \in ConfigLine
      BY DEF ConfigLine, Mark, Line, Kind
    <3> QED
      BY <3>1
  <2>3. c = top \o body
    BY DEF Applied
  <2> HIDE DEF top, body, c
  <2>4. Join(ConfigLine, top, body, n, c)
    BY <2>1, <2>2, <2>3, Joined
  <2>5. DOMAIN top = 1..3 /\ 2 \in DOMAIN top
    BY <2>2, <2>4 DEF Join
  <2>6. c[2] = Line("cloud", tiers) /\ 2 \in DOMAIN c
    BY <2>2, <2>4, <2>5 DEF Join
  <2>7. \A i \in DOMAIN c : c[i].kind = "cloud" => i = 2
    <3> SUFFICES ASSUME NEW i \in DOMAIN c, c[i].kind = "cloud" PROVE i = 2
      OBVIOUS
    <3>1. i \in DOMAIN top
      BY <2>1, <2>4 DEF Join, CloudKind
    <3>2. c[i] = top[i]
      BY <2>4, <3>1 DEF Join
    <3>3. i \in 1..3
      BY <2>5, <3>1
    <3>4. i = 1 \/ i = 2 \/ i = 3
      BY <3>3
    <3> QED
      BY <2>2, <3>2, <3>4 DEF Mark, Line
  <2>8. CloudOf(c) = {tiers}
    BY <2>6, <2>7 DEF CloudOf, Line
  <2> QED
    BY <2>8 DEF c
<1> QED
  BY <1>2, <1>3, <1>4

\* What a sync does not touch.
LEMMA SyncedMatches ==
    ASSUME NEW text, Tidy(text), NEW nodes \in SUBSET Node, NEW K,
           \A l \in K : IsEntry(l) /\ ~IsNodeEntry(l)
    PROVE  \E e : Matches(e, Synced(text, nodes), text, K)
<1> DEFINE body == Unfenced(text, "nodes>>", "<<nodes")
           a == Kept(text)
           m == Len(a)
           c == Synced(text, nodes)
           P == {i \in DOMAIN text : ~Fenced(text, i, "nodes>>", "<<nodes")}
           Q == {i \in DOMAIN body : ~Dropped(body, i)}
<1>1. body \in Seq(ConfigLine) /\ Picked(body, text, P) /\ text \in Seq(ConfigLine)
  BY BodyLines DEF Tidy
<1>2. a \in Seq(ConfigLine) /\ Picked(a, body, Q)
  BY <1>1, KeptPicks
<1>3. PICK n \in Nat : SyncedFrom(a, m, nodes, n, c)
  <2>1. a = Kept(text) /\ m = Len(a) /\ c = Synced(text, nodes)
    OBVIOUS
  <2> HIDE DEF a, m, c
  <2> QED
    BY <2>1, SyncedLines
<1> HIDE DEF body, a, m, c
<1>4. PICK f : Matches(f, body, text, K)
  <2>1. P \in SUBSET (DOMAIN text)
    OBVIOUS
  <2>2. Of(text, K) \subseteq P
    BY OldNodes DEF Of, NodeKind, IsEntry, IsNodeEntry
  <2> HIDE DEF P
  <2> QED
    BY <1>1, <2>1, <2>2, MatchPicked
<1>5. PICK g : Matches(g, a, body, K)
  <2>1. Q \in SUBSET (DOMAIN body)
    OBVIOUS
  <2>2. ASSUME NEW i \in DOMAIN body, body[i] \in K, Dropped(body, i) PROVE FALSE
    <3>1. PICK j \in 1..i : IsNodeEntry(body[j]) /\ \A k \in (j + 1)..i : ~IsEntry(body[k])
      BY <2>2 DEF Dropped
    <3>2. i \in Nat /\ IsEntry(body[i])
      BY <1>1, <2>2
    <3>3. i \notin (j + 1)..i
      BY <3>1, <3>2
    <3>4. i = j
      BY <3>2, <3>3
    <3> QED
      BY <2>2, <3>1, <3>4
  <2>3. Of(body, K) \subseteq Q
    BY <2>2 DEF Of
  <2> HIDE DEF Q
  <2> QED
    BY <1>1, <1>2, <2>1, <2>3, MatchPicked
<1> DEFINE e == [i \in Of(c, K) |-> i]
<1>6. \A i \in Of(c, K) : i \in 1..m
  <2> SUFFICES ASSUME NEW i \in DOMAIN c, c[i] \in K PROVE i \in 1..m
    BY DEF Of
  <2>1. i \in 1..m \/ i = m + 1 \/ i \in (m + 2)..(m + n + 1) \/ i = m + n + 2
    BY <1>3 DEF SyncedFrom
  <2> QED
    BY <1>3, <2>1 DEF SyncedFrom, Mark, Line, IsEntry, IsNodeEntry
<1>7. \A i \in 1..m : i \in DOMAIN c /\ i \in DOMAIN a /\ c[i] = a[i]
  BY <1>3 DEF SyncedFrom
<1>8. \A i \in 1..m : i \in Of(c, K) <=> i \in Of(a, K)
  BY <1>7 DEF Of
<1>9. \A i \in Of(a, K) : i \in 1..m
  BY <1>3 DEF SyncedFrom, Of
<1>10. Matches(e, c, a, K)
  BY <1>6, <1>7, <1>8, <1>9 DEF Matches
<1> HIDE DEF e
<1>11. PICK h : Matches(h, c, body, K)
  BY <1>5, <1>10, MatchTwice
<1>12. \E k : Matches(k, c, text, K)
  BY <1>4, <1>11, MatchTwice
<1> QED
  BY <1>12 DEF c

LEMMA SyncedReads ==
    ASSUME NEW text, Tidy(text), NEW nodes \in SUBSET Node
    PROVE  /\ HandOf(Synced(text, nodes)) = HandOf(text)
           /\ AlikeOf(Synced(text, nodes)) = {}
           /\ NodesOf(Synced(text, nodes)) = nodes
           /\ CloudOf(Synced(text, nodes)) = CloudOf(text)
<1>1. Synced(text, nodes) \in Seq(ConfigLine) /\ text \in Seq(ConfigLine)
  BY TidySynced DEF Tidy
<1>2. HandOf(Synced(text, nodes)) = HandOf(text)
  <2>1. PICK e : Matches(e, Synced(text, nodes), text, PlainLine)
    BY SyncedMatches DEF PlainLine, Plain, IsEntry, IsNodeEntry
  <2> QED
    BY <1>1, <2>1, SameHand
<1>3. CloudOf(Synced(text, nodes)) = CloudOf(text)
  <2>1. PICK e : Matches(e, Synced(text, nodes), text, KindLine("cloud"))
    BY SyncedMatches DEF KindLine, IsEntry, IsNodeEntry
  <2> DEFINE c == Synced(text, nodes)
  <2>2. {c[i].of : i \in Of(c, KindLine("cloud"))} = {text[i].of : i \in Of(text, KindLine("cloud"))}
    <3>1. PICK K, w : K = KindLine("cloud") /\ Matches(w, c, text, K)
      BY <2>1
    <3>2. /\ \A i \in Of(c, K) : \E j \in Of(text, K) : c[i] = text[j]
          /\ \A j \in Of(text, K) : \E i \in Of(c, K) : c[i] = text[j]
      BY <3>1, SameLines
    <3> QED
      BY <3>1, <3>2
  <2> HIDE DEF c
  <2>3. CloudOf(c) = CloudOf(text)
    BY <1>1, <2>2, Found DEF c
  <2> QED
    BY <2>3 DEF c
<1>4. NodesOf(Synced(text, nodes)) = nodes /\ AlikeOf(Synced(text, nodes)) = {}
  <2> DEFINE a == Kept(text)
             m == Len(a)
             c == Synced(text, nodes)
  <2>1. PICK n \in Nat : SyncedFrom(a, m, nodes, n, c)
    <3>1. a = Kept(text) /\ m = Len(a) /\ c = Synced(text, nodes)
      OBVIOUS
    <3> HIDE DEF a, m, c
    <3> QED
      BY <3>1, SyncedLines
  <2>2. \A i \in DOMAIN a : a[i].kind \notin NodeKind /\ ~IsNodeEntry(a[i])
    BY KeptLines
  <2> HIDE DEF a, m, c
  <2>3. \A i \in DOMAIN c : i \in 1..m \/ i = m + 1 \/ i \in (m + 2)..(m + n + 1) \/ i = m + n + 2
    BY <2>1 DEF SyncedFrom
  <2>4. \A i \in DOMAIN c : c[i].kind = "node" => c[i].of \in nodes
    BY <2>1, <2>2, <2>3 DEF SyncedFrom, NodeKind, Mark, Line
  <2>5. ASSUME NEW v \in nodes PROVE \E i \in DOMAIN c : c[i].kind = "node" /\ c[i].of = v
    <3>1. PICK i \in (m + 2)..(m + n + 1) : c[i].of = v
      BY <2>1 DEF SyncedFrom
    <3>2. i \in DOMAIN c /\ c[i].kind = "node"
      BY <2>1 DEF SyncedFrom
    <3> QED
      BY <3>1, <3>2
  <2>6. NodesOf(c) = nodes
    BY <2>4, <2>5 DEF NodesOf
  <2>7. ASSUME NEW i \in DOMAIN c, c[i].kind = "hand" PROVE c[i].of \notin Lookalike
    <3>1. i \in 1..m
      BY <2>1, <2>3, <2>7 DEF SyncedFrom, Mark, Line
    <3> QED
      BY <2>1, <2>2, <2>7, <3>1 DEF SyncedFrom, IsNodeEntry
  <2>8. AlikeOf(c) = {}
    BY <2>7 DEF AlikeOf
  <2> QED
    BY <2>6, <2>8 DEF c
<1> QED
  BY <1>2, <1>3, <1>4

\* What the operator adds is read after what was there.
LEMMA AppendReads ==
    ASSUME NEW text, Tidy(text), NEW l \in ConfigLine, l.kind = "hand"
    PROVE  /\ Plain(l) => /\ HandOf(Append(text, l)) = Append(HandOf(text), l)
                          /\ AlikeOf(Append(text, l)) = AlikeOf(text)
           /\ ~Plain(l) => /\ HandOf(Append(text, l)) = HandOf(text)
                           /\ AlikeOf(Append(text, l)) = AlikeOf(text) \cup {l}
           /\ NodesOf(Append(text, l)) = NodesOf(text)
           /\ CloudOf(Append(text, l)) = CloudOf(text)
<1> DEFINE n == Len(text)
           c == Append(text, l)
<1>1. text \in Seq(ConfigLine)
  BY DEF Tidy
<1>2. /\ n \in Nat /\ DOMAIN text = 1..n /\ DOMAIN c = 1..(n + 1) /\ c \in Seq(ConfigLine)
      /\ c[n + 1] = l /\ \A i \in 1..n : c[i] = text[i]
  BY <1>1
<1> HIDE DEF n, c
<1>3. \A i \in DOMAIN c : i \in 1..n \/ i = n + 1
  BY <1>2
<1>4. NodesOf(c) = NodesOf(text) /\ CloudOf(c) = CloudOf(text)
  <2>1. ASSUME NEW kind \in {"node", "cloud"}
        PROVE  {k \in DOMAIN c : c[k].kind = kind} = {k \in DOMAIN text : text[k].kind = kind}
    BY <1>2, <1>3
  <2>2. \A k \in DOMAIN text : c[k] = text[k]
    BY <1>2
  <2> QED
    BY <2>1, <2>2 DEF NodesOf, CloudOf
<1>6. ASSUME Plain(l) PROVE HandOf(c) = Append(HandOf(text), l)
  <2> DEFINE b == HandOf(text)
             m == Len(b)
             a == Append(b, l)
             P == Of(text, PlainLine)
             R == Of(c, PlainLine)
  <2>1. b \in Seq(ConfigLine) /\ Picked(b, text, P)
    BY <1>1, HandPicks
  <2>2. HandOf(c) \in Seq(ConfigLine) /\ Picked(HandOf(c), c, R)
    BY <1>2, HandPicks
  <2> HIDE DEF b
  <2>3. /\ m \in Nat /\ DOMAIN b = 1..m /\ a \in Seq(ConfigLine) /\ Len(a) = m + 1
        /\ DOMAIN a = 1..(m + 1) /\ a[m + 1] = l /\ \A i \in 1..m : a[i] = b[i]
    BY <2>1
  <2>4. PICK p : Lists(p, m, P) /\ \A j \in 1..m : b[j] = text[p[j]]
    BY <2>1 DEF Picked
  <2> HIDE DEF a, m
  <2>5. R = P \cup {n + 1}
    BY <1>2, <1>3, <1>6 DEF Of, PlainLine
  <2>6. \A d \in P : d \in 1..n
    BY <1>2 DEF Of
  <2> HIDE DEF P, R
  <2> DEFINE q == [j \in 1..(m + 1) |-> IF j = m + 1 THEN n + 1 ELSE p[j]]
  <2>7. \A j \in 1..m : q[j] = p[j] /\ p[j] \in P /\ j \in 1..(m + 1)
    BY <2>3, <2>4 DEF Lists
  <2>8. q[m + 1] = n + 1 /\ m + 1 \in 1..(m + 1)
    BY <2>3
  <2>9. \A j \in 1..(m + 1) : j \in 1..m \/ j = m + 1
    BY <2>3
  <2>10. q \in [1..(m + 1) -> R]
    BY <2>4, <2>5, <2>9 DEF Lists
  <2> HIDE DEF q
  <2>11. \A d \in R : \E j \in 1..(m + 1) : q[j] = d
    <3> SUFFICES ASSUME NEW d \in R PROVE \E j \in 1..(m + 1) : q[j] = d
      OBVIOUS
    <3>1. CASE d \in P
      <4>1. PICK j \in 1..m : p[j] = d
        BY <2>4, <3>1 DEF Lists
      <4> QED
        BY <2>7, <4>1
    <3> QED
      BY <2>5, <2>8, <3>1
  <2>12. ASSUME NEW j \in 1..(m + 1), NEW k \in 1..(m + 1), j < k PROVE q[j] < q[k]
    <3>1. j \in 1..m /\ q[j] = p[j] /\ p[j] \in 1..n
      BY <2>3, <2>6, <2>7, <2>12
    <3>2. CASE k \in 1..m
      <4>1. p[j] < p[k]
        BY <2>4, <2>12, <3>1, <3>2 DEF Lists
      <4> QED
        BY <2>7, <3>1, <3>2, <4>1
    <3>3. CASE k = m + 1
      BY <1>2, <2>8, <3>1, <3>3
    <3> QED
      BY <2>9, <3>2, <3>3
  <2>13. \A j \in 1..(m + 1) : a[j] = c[q[j]]
    <3> SUFFICES ASSUME NEW j \in 1..(m + 1) PROVE a[j] = c[q[j]]
      OBVIOUS
    <3>1. CASE j \in 1..m
      <4>1. a[j] = b[j] /\ b[j] = text[p[j]] /\ q[j] = p[j] /\ p[j] \in 1..n
        BY <2>3, <2>4, <2>6, <2>7, <3>1
      <4> QED
        BY <1>2, <4>1
    <3> QED
      BY <1>2, <2>3, <2>8, <2>9, <3>1
  <2>14. Lists(q, m + 1, R)
    BY <2>10, <2>11, <2>12 DEF Lists
  <2>15. Picked(a, c, R)
    <3>1. Len(a) = m + 1 /\ Len(a) \in Nat /\ DOMAIN a = 1..Len(a)
      BY <2>3
    <3> QED
      BY <2>13, <2>14, <3>1 DEF Picked
  <2>16. R \in SUBSET Nat
    BY <1>2 DEF R, Of
  <2>17. a = [j \in 1..Len(a) |-> a[j]]
    BY <2>3
  <2>18. HandOf(c) = [j \in 1..Len(HandOf(c)) |-> HandOf(c)[j]]
    BY <2>2
  <2>19. HandOf(c) = a
    BY <2>2, <2>15, <2>16, <2>17, <2>18, OnePick
  <2> QED
    BY <2>19 DEF a, b
<1>7. ASSUME ~Plain(l) PROVE HandOf(c) = HandOf(text)
  <2>1. Of(c, PlainLine) = Of(text, PlainLine)
    BY <1>2, <1>3, <1>7 DEF Of, PlainLine
  <2>2. Matches([i \in Of(c, PlainLine) |-> i], c, text, PlainLine)
    BY <1>2, <2>1 DEF Matches, Of
  <2> QED
    BY <1>1, <1>2, <2>2, SameHand
<1>8. Plain(l) => AlikeOf(c) = AlikeOf(text)
  <2>1. Plain(l) => {k \in DOMAIN c : c[k].kind = "hand" /\ c[k].of \in Lookalike}
                      = {k \in DOMAIN text : text[k].kind = "hand" /\ text[k].of \in Lookalike}
    BY <1>2, <1>3 DEF Plain
  <2> QED
    BY <1>2, <2>1 DEF AlikeOf
<1>9. ASSUME ~Plain(l) PROVE AlikeOf(c) = AlikeOf(text) \cup {l}
  <2>1. {k \in DOMAIN c : c[k].kind = "hand" /\ c[k].of \in Lookalike}
          = {k \in DOMAIN text : text[k].kind = "hand" /\ text[k].of \in Lookalike} \cup {n + 1}
    BY <1>2, <1>3, <1>9 DEF Plain
  <2> QED
    BY <1>2, <2>1 DEF AlikeOf
<1> QED
  BY <1>4, <1>6, <1>7, <1>8, <1>9 DEF c

-----------------------------------------------------------------------------
(* The requests and their files.                                            *)

Pc == {"idle", "config", "open", "fill", "replace", "restart"}

\* What a path may hold, the configuration being tidy.
Good(f, c) ==
    \/ c \in {Absent, Empty, Torn}
    \/ c.is = "whole" /\ IF f = "litellm" THEN Tidy(c.text) ELSE c.text \in Text(f)

\* What a request is about to write is one change of what it read.
Means(v) ==
    /\ v.path = "litellm" => v.op \in {"sync", "apply"}
    /\ v.path = "tiers" => v.new = Whole(v.cfg) /\ v.op \in {"tiers", "apply"}
    /\ v.path \in {"tiers", "litellm"} /\ v.op # "sync" => v.cfg \in Choice
    /\ v.read # Torn => v.new.is = "whole"
    /\ v.read # Torn /\ v.path = "nodes" =>
           \E n \in Node, s \in {"s3", "other", "none"} :
               v.new.text = [Registry(v.read) EXCEPT ![n] = s]
    /\ v.read # Torn /\ v.path = "env" => \E k \in Key : v.new.text = Keys(v.read) \cup {k}
    /\ v.read # Torn /\ v.path = "litellm" /\ v.op = "sync" =>
           Says(v.new.text) = [Says(Config(v.read)) EXCEPT !.fleet = v.s3, !.alike = {}]
    /\ v.read # Torn /\ v.path = "litellm" /\ v.op = "apply" =>
           Says(v.new.text) = [Says(Config(v.read)) EXCEPT !.cloud = {v.cfg}]

\* The fields of a request.
Legal(v) ==
    /\ DOMAIN v = DOMAIN Idle
    /\ v.pc \in Pc /\ v.op \in Op \cup {"none"} /\ v.path \in File
    /\ v.s3 \in SUBSET Node
    /\ v.fd \in {"none", "tmp", "live", "gone"} /\ (v.fd # "none" <=> v.pc = "fill")
    /\ v.pc = "config" => v.op \in {"sync", "apply"} /\ (v.op = "apply" => v.cfg \in Choice)
    /\ v.pc \in Writing => Good(v.path, v.read) /\ Good(v.path, v.new) /\ Means(v)

\* The variables keep their types, and every text of a file is one of its writers'.
Shape ==
    /\ file = [f \in File |-> file[f]] /\ \A f \in File : Good(f, file[f])
    /\ tmp = [f \in File |-> tmp[f]] /\ \A f \in File : Good(f, tmp[f])
    /\ req = [q \in Request |-> req[q]] /\ \A q \in Request : Legal(req[q])
    /\ acts \in 0..MaxActs /\ shared \subseteq File

\* A request has the temporary name of its file for itself until it is shared.
Putting == {"fill", "replace"}
Own ==
    \A q \in Request : req[q].pc \in Putting /\ req[q].path \notin shared =>
        /\ \A r \in Request : req[r].pc \in Putting /\ req[r].path = req[q].path => r = q
        /\ req[q].pc = "fill" => req[q].fd = "tmp" /\ tmp[req[q].path] = Empty
        /\ req[q].pc = "replace" => tmp[req[q].path] = req[q].new

\* What was read under such a name was whole.
Sound == \A q \in Request : req[q].pc \in Writing /\ req[q].path \notin shared => req[q].read # Torn

IInv == Shape /\ Own /\ Sound /\ WholeFiles

-----------------------------------------------------------------------------
(* Requests, one at a time.                                                 *)

LEMMA IdleIsLegal == Legal(Idle)
  BY DEF Legal, Idle, Pc, Op, File, Writing

\* What a path may hold, and what is told apart there.
LEMMA Marks ==
    /\ \A f : Good(f, Absent) /\ Good(f, Empty) /\ Good(f, Torn)
    /\ Absent.is # "whole" /\ Empty.is # "whole" /\ Torn.is # "whole"
    /\ \A text : Whole(text).is = "whole" /\ Whole(text).text = text
    /\ \A text : Whole(text) \notin {Absent, Empty, Torn}
    /\ Absent # Empty /\ Absent # Torn /\ Empty # Torn
  BY DEF Good, Absent, Empty, Torn, Whole

\* The texts of the other files.
LEMMA TextOf ==
    /\ Text("nodes") = [Node -> {"none", "s3", "other"}]
    /\ Text("tiers") = Choice
    /\ Text("env") = SUBSET Key
    /\ Choice = [provider : Provider, own : BOOLEAN]
  BY DEF Text, Choice

\* What a reader makes of a file.
LEMMA Reading ==
    ASSUME NEW c
    PROVE  /\ Good("nodes", c) => Registry(c) \in [Node -> {"none", "s3", "other"}]
           /\ Good("env", c) => Keys(c) \in SUBSET Key
           /\ Good("tiers", c) => Tiers(c) \in Choice
           /\ Good("litellm", c) => Tidy(Config(c))
<1>1. Tidy(<<>>)
  <2>1. <<>> \in Seq(ConfigLine) /\ DOMAIN <<>> = {}
    OBVIOUS
  <2>2. CloudOnTop(<<>>) /\ Fence(<<>>)
    BY <2>1 DEF CloudOnTop, Fence, WellFenced, Places
  <2> QED
    BY <2>1, <2>2 DEF Tidy
<1>2. Good("litellm", c) => Tidy(Config(c))
  BY <1>1, Marks DEF Good, Config
<1>3. Good("nodes", c) => Registry(c) \in [Node -> {"none", "s3", "other"}]
  BY Marks, TextOf DEF Good, Registry
<1>4. Good("env", c) => Keys(c) \in SUBSET Key
  BY Marks, TextOf DEF Good, Keys
<1>5. Good("tiers", c) => Tiers(c) \in Choice
  BY Marks, TextOf, FilesAssumption DEF Good, Tiers
<1> QED
  BY <1>2, <1>3, <1>4, <1>5

\* Requests that are to write, as the endpoints make them.
Asked(op, path, read, new) ==
    [Idle EXCEPT !.pc = "open", !.op = op, !.path = path, !.read = read, !.new = new]
Declares(op, read, cfg) ==
    [Idle EXCEPT !.pc = "open", !.op = op, !.path = "tiers", !.read = read,
                 !.new = Whole(cfg), !.cfg = cfg]
Renders(v, read, new) == [v EXCEPT !.pc = "open", !.path = "litellm", !.read = read, !.new = new]

\* A request that has read a file and is to change it.
LEMMA HoldsLegal ==
    ASSUME NEW op \in Op, NEW path \in {"nodes", "env"}, NEW read, Good(path, read),
           NEW text \in Text(path),
           path = "nodes" => \E n \in Node, s \in {"s3", "other", "none"} :
                                 text = [Registry(read) EXCEPT ![n] = s],
           path = "env" => \E k \in Key : text = Keys(read) \cup {k},
           NEW w, w.pc = "open", w.op = op, w.path = path, w.read = read,
           w.new = Edited(read, text), w.s3 = {}, w.fd = "none", DOMAIN w = DOMAIN Idle
    PROVE  Legal(w)
<1>2. Good(path, Edited(read, text))
  BY Marks DEF Good, Edited
<1>3. read # Torn => Edited(read, text).is = "whole" /\ Edited(read, text).text = text
  BY Marks DEF Edited
<1>4. Means(w)
  <2>1. CASE path = "nodes"
    <3>1. PICK n \in Node, s \in {"s3", "other", "none"} : text = [Registry(read) EXCEPT ![n] = s]
      BY <2>1
    <3>2. read # Torn => w.new.text = [Registry(w.read) EXCEPT ![n] = s]
      BY <1>3, <3>1
    <3> QED
      BY <1>3, <2>1, <3>2 DEF Means
  <2>2. CASE path = "env"
    BY <1>3, <2>2 DEF Means
  <2> QED
    BY <2>1, <2>2
<1> QED
  BY <1>2, <1>4 DEF Legal, Pc, File, Writing

LEMMA TiersLegal ==
    ASSUME NEW op \in {"tiers", "apply"}, NEW cfg \in Choice, NEW read, Good("tiers", read),
           NEW w, w = Declares(op, read, cfg)
    PROVE  Legal(w)
<1>1. /\ w.pc = "open" /\ w.op = op /\ w.path = "tiers" /\ w.read = read
      /\ w.new = Whole(cfg) /\ w.s3 = {} /\ w.cfg = cfg /\ w.fd = "none" /\ DOMAIN w = DOMAIN Idle
  BY DEF Idle, Declares
<1>2. Good("tiers", Whole(cfg))
  BY Marks, TextOf DEF Good
<1>3. Means(w)
  BY <1>1, Marks DEF Means
<1> QED
  BY <1>1, <1>2, <1>3 DEF Legal, Pc, Op, File, Writing

\* A request that has rendered the configuration.
LEMMA RenderLegal ==
    ASSUME NEW v, Legal(v), v.pc = "config", NEW read, Good("litellm", read), NEW text,
           text = IF v.op = "sync" THEN Synced(Config(read), v.s3) ELSE Applied(Config(read), v.cfg),
           NEW w, w.pc = "open", w.op = v.op, w.path = "litellm", w.read = read,
           w.new = Edited(read, text), w.s3 = v.s3, w.cfg = v.cfg, w.fd = v.fd,
           DOMAIN w = DOMAIN Idle
    PROVE  Legal(w)
<1>2. /\ Tidy(Config(read)) /\ v.op \in {"sync", "apply"} /\ v.s3 \in SUBSET Node
      /\ v.fd = "none" /\ (v.op = "apply" => v.cfg \in Choice)
  BY Reading DEF Legal
<1>3. Tidy(text)
  BY <1>2, TidySynced, TidyApplied
<1>4. Good("litellm", Edited(read, text))
  BY <1>3, Marks DEF Good, Edited
<1>5. ASSUME v.op = "sync"
      PROVE  Says(text) = [Says(Config(read)) EXCEPT !.fleet = v.s3, !.alike = {}]
  <2>1. /\ HandOf(text) = HandOf(Config(read)) /\ AlikeOf(text) = {}
        /\ NodesOf(text) = v.s3 /\ CloudOf(text) = CloudOf(Config(read))
    BY <1>2, <1>5, SyncedReads
  <2>2. PICK old, new : old = Says(Config(read)) /\ new = Says(text)
    OBVIOUS
  <2>3. DOMAIN old = {"hand", "alike", "fleet", "cloud"} /\ DOMAIN new = DOMAIN old
    BY <2>2 DEF Says
  <2>4. /\ new.hand = old.hand /\ new.alike = {} /\ new.fleet = v.s3 /\ new.cloud = old.cloud
        /\ new = [f \in DOMAIN new |-> new[f]]
    BY <2>1, <2>2 DEF Says
  <2>5. new = [old EXCEPT !.fleet = v.s3, !.alike = {}]
    BY <2>3, <2>4
  <2> QED
    BY <2>2, <2>5
<1>6. ASSUME v.op = "apply"
      PROVE  Says(text) = [Says(Config(read)) EXCEPT !.cloud = {v.cfg}]
  <2>1. /\ HandOf(text) = HandOf(Config(read)) /\ AlikeOf(text) = AlikeOf(Config(read))
        /\ NodesOf(text) = NodesOf(Config(read)) /\ CloudOf(text) = {v.cfg}
    BY <1>2, <1>6, AppliedReads
  <2>2. PICK c : c = {v.cfg}
    OBVIOUS
  <2>3. Says(text) = [Says(Config(read)) EXCEPT !.cloud = c]
    BY <2>1, <2>2 DEF Says
  <2> QED
    BY <2>2, <2>3
<1>7. read # Torn => Edited(read, text).is = "whole" /\ Edited(read, text).text = text
  BY Marks DEF Edited
<1>8. Means(w)
  BY <1>2, <1>5, <1>6, <1>7 DEF Means
<1> QED
  BY <1>2, <1>4, <1>8 DEF Legal, Pc, Op, File, Writing

-----------------------------------------------------------------------------
(* Reading.                                                                 *)

\* A request that puts nothing turns to v; what v holds of a file is what is there.
Turn(r, v) ==
    /\ Legal(v) /\ v.pc \notin Putting /\ (v.pc = "open" => v.read = file[v.path])
    /\ req' = [req EXCEPT ![r] = v]
    /\ UNCHANGED <<file, tmp, shared>> /\ acts' \in 0..MaxActs

\* It ends, starts, looks the nodes up, or has rendered the configuration.
Seen(r, v) ==
    \/ v = Idle
    \/ req[r].pc = "idle" /\ v.pc = "open" /\ v.path \in {"nodes", "env", "tiers"}
    \/ /\ req[r].pc = "idle" /\ v.pc = "config" /\ v.op = "sync"
       /\ v.s3 = Fleet(file["nodes"]) \/ file["nodes"] = Torn
    \/ /\ req[r].pc = "config" /\ v.pc = "open" /\ v.path = "litellm"
       /\ v.op = req[r].op /\ v.s3 = req[r].s3 /\ v.cfg = req[r].cfg

LEMMA LeavesTurn ==
    ASSUME IInv, NEW r \in Request, Leaves(r), UNCHANGED <<file, tmp, acts, shared>>
    PROVE  Turn(r, Idle)
<1>1. Idle.pc = "idle" /\ acts' \in 0..MaxActs
  BY DEF Idle, IInv, Shape
<1> QED
  BY <1>1, IdleIsLegal DEF Turn, Leaves, Putting

\* The four endpoints that read the file they replace.
LEMMA HoldsTurn ==
    ASSUME IInv, NEW r \in Request, req[r].pc = "idle", NEW op \in Op, NEW path \in {"nodes", "env"},
           NEW text \in Text(path), Holds(r, op, path, Edited(file[path], text)),
           path = "nodes" => \E n \in Node, s \in {"s3", "other", "none"} :
                                 text = [Registry(file[path]) EXCEPT ![n] = s],
           path = "env" => \E k \in Key : text = Keys(file[path]) \cup {k},
           UNCHANGED <<file, tmp, shared>>, acts' \in 0..MaxActs
    PROVE  \E v : Turn(r, v) /\ Seen(r, v)
<1>1. PICK v : v = Asked(op, path, file[path], Edited(file[path], text))
  OBVIOUS
<1>2. path \in File /\ Good(path, file[path])
  BY DEF File, IInv, Shape
<1>3. /\ v.pc = "open" /\ v.op = op /\ v.path = path /\ v.read = file[path]
      /\ v.new = Edited(file[path], text) /\ v.s3 = {} /\ v.fd = "none" /\ DOMAIN v = DOMAIN Idle
  BY <1>1 DEF Idle, Asked
<1>4. Legal(v)
  BY <1>2, <1>3, HoldsLegal
<1>5. req' = [req EXCEPT ![r] = v]
  BY <1>1 DEF Holds, Asked
<1> QED
  BY <1>3, <1>4, <1>5 DEF Turn, Seen, Putting

LEMMA ActCounts == ASSUME IInv, Act PROVE acts' \in 0..MaxActs
  BY FilesAssumption DEF IInv, Shape, Act

LEMMA RegistersTurn ==
    ASSUME IInv, NEW r \in Request, Register(r) \/ Deregister(r)
    PROVE  \E v : Turn(r, v) /\ Seen(r, v)
<1> DEFINE old == file["nodes"]
<1>1. req[r].pc = "idle" /\ acts' \in 0..MaxActs /\ UNCHANGED <<file, tmp, shared>>
  BY ActCounts DEF Register, Deregister, Starts, Busy
<1>2. Registry(old) \in [Node -> {"none", "s3", "other"}]
  BY Reading DEF IInv, Shape, File
<1>3. PICK op \in {"register", "deregister"}, n \in Node, s \in {"s3", "other", "none"} :
         Holds(r, op, "nodes", Edited(old, [Registry(old) EXCEPT ![n] = s]))
  BY DEF Register, Deregister
<1>4. [Registry(old) EXCEPT ![n] = s] \in Text("nodes")
  BY <1>2, TextOf
<1>5. op \in Op
  BY DEF Op
<1> QED
  BY <1>1, <1>3, <1>4, <1>5, HoldsTurn

LEMMA SetKeyTurns ==
    ASSUME IInv, NEW r \in Request, SetKey(r)
    PROVE  \E v : Turn(r, v) /\ Seen(r, v)
<1> DEFINE old == file["env"]
<1>1. req[r].pc = "idle" /\ acts' \in 0..MaxActs /\ UNCHANGED <<file, tmp, shared>>
  BY ActCounts DEF SetKey, Starts, Busy
<1>2. Keys(old) \in SUBSET Key
  BY Reading DEF IInv, Shape, File
<1>3. PICK k \in Key : Holds(r, "key", "env", Edited(old, Keys(old) \cup {k}))
  BY DEF SetKey
<1>4. Keys(old) \cup {k} \in Text("env") /\ "key" \in Op
  BY <1>2, TextOf DEF Op
<1> QED
  BY <1>1, <1>3, <1>4, HoldsTurn

LEMMA SetTiersTurns ==
    ASSUME IInv, NEW r \in Request, SetTiers(r)
    PROVE  \E v : Turn(r, v) /\ Seen(r, v)
<1> DEFINE old == file["tiers"]
<1>1. req[r].pc = "idle" /\ acts' \in 0..MaxActs /\ UNCHANGED <<file, tmp, shared>>
  BY ActCounts DEF SetTiers, Starts, Busy
<1>2. Good("tiers", old) /\ Tiers(old) \in Choice
  BY Reading DEF IInv, Shape, File
<1>3. \E op \in {"tiers", "apply"}, provider \in Provider, own \in BOOLEAN :
         \E was \in IF old = Torn THEN Choice ELSE {Tiers(old)} :
             req' = [req EXCEPT ![r] = Declares(op, old, Declared(provider, own, was))]
  BY Zenon DEF SetTiers, Declares
<1>4. ASSUME NEW provider \in Provider, NEW own \in BOOLEAN,
             NEW was \in IF old = Torn THEN Choice ELSE {Tiers(old)}
      PROVE  Declared(provider, own, was) \in Choice
  BY <1>2, TextOf DEF Declared
<1>5. PICK op \in {"tiers", "apply"}, cfg \in Choice : req' = [req EXCEPT ![r] = Declares(op, old, cfg)]
  BY <1>3, <1>4
<1>6. PICK v : v = Declares(op, old, cfg)
  OBVIOUS
<1>7. Legal(v)
  BY <1>2, <1>6, TiersLegal
<1>8. v.pc = "open" /\ v.path = "tiers" /\ v.read = old
  BY <1>6 DEF Idle, Declares
<1>9. req' = [req EXCEPT ![r] = v]
  BY <1>5, <1>6
<1> QED
  BY <1>1, <1>7, <1>8, <1>9 DEF Turn, Seen, Putting

LEMMA LookUpTurns ==
    ASSUME IInv, NEW r \in Request, LookUp(r)
    PROVE  \E v : Turn(r, v) /\ Seen(r, v)
<1>1. req[r].pc = "idle" /\ acts' \in 0..MaxActs /\ UNCHANGED <<file, tmp, shared>>
  BY ActCounts DEF LookUp, Starts, Busy
<1>2. PICK s3 :
         /\ s3 \in IF file["nodes"] = Torn THEN SUBSET Node ELSE {Fleet(file["nodes"])}
         /\ req' = [req EXCEPT ![r] = [Idle EXCEPT !.pc = "config", !.op = "sync", !.s3 = s3]]
  BY Zenon DEF LookUp
<1>3. PICK v : v = [Idle EXCEPT !.pc = "config", !.op = "sync", !.s3 = s3]
  OBVIOUS
<1>4. /\ v.pc = "config" /\ v.op = "sync" /\ v.s3 = s3 /\ v.fd = "none" /\ v.path = "nodes"
      /\ DOMAIN v = DOMAIN Idle
  BY <1>3 DEF Idle
<1>5. s3 \in SUBSET Node
  BY <1>2 DEF Fleet
<1>6. Legal(v)
  BY <1>4, <1>5 DEF Legal, Pc, Op, File, Writing
<1> QED
  BY <1>1, <1>2, <1>3, <1>4, <1>6 DEF Turn, Seen, Putting

LEMMA ConfigTurns ==
    ASSUME IInv, NEW r \in Request, Sync(r) \/ ApplyTiers(r)
    PROVE  \E v : Turn(r, v) /\ Seen(r, v)
<1> DEFINE old == file["litellm"]
<1>1. req[r].pc = "config" /\ UNCHANGED <<file, tmp, acts, shared>>
  BY DEF Sync, ApplyTiers
<1>2. CASE Leaves(r)
  BY <1>1, <1>2, LeavesTurn DEF Seen
<1>3. CASE ~Leaves(r)
  <2>1. PICK text :
           /\ Render(r, text)
           /\ text = IF req[r].op = "sync" THEN Synced(Config(old), req[r].s3)
                                           ELSE Applied(Config(old), req[r].cfg)
    BY <1>3 DEF Sync, ApplyTiers
  <2>2. PICK v : v = Renders(req[r], old, Edited(old, text))
    OBVIOUS
  <2>3. Legal(req[r]) /\ Good("litellm", old) /\ acts \in 0..MaxActs
    BY DEF IInv, Shape, File
  <2>4. /\ v.pc = "open" /\ v.op = req[r].op /\ v.path = "litellm" /\ v.read = old
        /\ v.new = Edited(old, text) /\ v.s3 = req[r].s3 /\ v.cfg = req[r].cfg
        /\ v.fd = req[r].fd /\ DOMAIN v = DOMAIN Idle
    BY <2>2, <2>3 DEF Legal, Idle, Renders
  <2>5. Legal(v)
    BY <1>1, <2>1, <2>3, <2>4, RenderLegal
  <2>6. req' = [req EXCEPT ![r] = v]
    BY <2>1, <2>2 DEF Render, Renders, IInv, Shape
  <2> QED
    BY <1>1, <2>3, <2>4, <2>5, <2>6 DEF Turn, Seen, Putting
<1> QED
  BY <1>2, <1>3

LEMMA ReadsTurn ==
    ASSUME IInv, NEW r \in Request, Reads(r) \/ Restart(r)
    PROVE  \E v : Turn(r, v) /\ Seen(r, v)
<1>1. CASE Restart(r)
  BY <1>1, LeavesTurn DEF Restart, Seen
<1> QED
  BY <1>1, RegistersTurn, SetKeyTurns, SetTiersTurns, LookUpTurns, ConfigTurns DEF Reads

\* Such a step keeps the invariant.
LEMMA TurnKeeps ==
    ASSUME IInv, NEW r \in Request, NEW v, Turn(r, v)
    PROVE  IInv'
<1>1. /\ req'[r] = v /\ \A q \in Request : q # r => req'[q] = req[q]
      /\ req' = [q \in Request |-> req'[q]]
      /\ UNCHANGED <<file, tmp, shared>>
  BY DEF Turn, IInv, Shape
<1>2. Shape'
  BY <1>1 DEF Turn, IInv, Shape
<1>3. Own'
  BY <1>1 DEF Turn, IInv, Own, Putting
<1>4. Sound'
  <2>1. ASSUME v.pc \in Writing, v.path \notin shared PROVE v.read # Torn
    <3>1. v.pc = "open" /\ v.read = file[v.path] /\ v.path \in File
      BY <2>1 DEF Turn, Putting, Writing, Legal
    <3> QED
      BY <2>1, <3>1 DEF IInv, WholeFiles
  <2> QED
    BY <1>1, <2>1 DEF IInv, Sound
<1> QED
  BY <1>1, <1>2, <1>3, <1>4 DEF IInv, WholeFiles

LEMMA InitHolds == Init => IInv
<1> SUFFICES ASSUME Init PROVE IInv
  OBVIOUS
<1>1. \A q \in Request : req[q] = Idle
  BY DEF Init
<1>2. Good("litellm", Whole(FirstText))
  BY TidyFirst, Marks DEF Good
<1>3. Shape
  BY <1>1, <1>2, Marks, IdleIsLegal, FilesAssumption DEF Init, Shape
<1>4. Own /\ Sound
  BY <1>1 DEF Own, Sound, Idle, Putting, Writing
<1>5. WholeFiles
  BY Marks DEF Init, WholeFiles
<1> QED
  BY <1>3, <1>4, <1>5 DEF IInv

-----------------------------------------------------------------------------
(* Putting a text in place.                                                 *)

\* A request goes on with what it read and is to write.
Same(w, v) ==
    /\ w.op = v.op /\ w.path = v.path /\ w.read = v.read /\ w.new = v.new
    /\ w.s3 = v.s3 /\ w.cfg = v.cfg /\ DOMAIN w = DOMAIN v

LEMMA SameLegal ==
    ASSUME NEW v, Legal(v), NEW w, Same(w, v), w.pc \in Pc, w.pc \in Writing => v.pc \in Writing,
           w.pc = "config" => v.pc = "config",
           w.fd \in {"none", "tmp", "live", "gone"}, w.fd # "none" <=> w.pc = "fill"
    PROVE  Legal(w)
<1>1. v.pc \in Writing => Means(w)
  BY DEF Legal, Same, Means
<1> QED
  BY <1>1 DEF Legal, Same

LEMMA OpenKeeps ==
    ASSUME IInv, NEW r \in Request, Open(r)
    PROVE  IInv'
<1> DEFINE p == req[r].path
<1>1. /\ \A q \in Request : q # r => req'[q] = req[q]
      /\ req' = [q \in Request |-> req'[q]] /\ file' = file /\ acts' = acts /\ req[r].pc = "open"
  BY DEF Open, IInv, Shape
<1>2. Same(req'[r], req[r]) /\ req'[r].pc = "fill" /\ req'[r].fd = "tmp"
  BY DEF Open, IInv, Shape, Legal, Same, Idle
<1>3. p \in File /\ Legal(req[r])
  BY DEF IInv, Shape, Legal
<1>4. Legal(req'[r])
  BY <1>1, <1>2, <1>3, SameLegal DEF Pc, Writing
<1>5. tmp' = [tmp EXCEPT ![p] = Empty]
  BY DEF Open
<1>6. /\ tmp' = [f \in File |-> tmp'[f]] /\ tmp'[p] = Empty
      /\ \A f \in File : f # p => tmp'[f] = tmp[f]
  BY <1>3, <1>5 DEF IInv, Shape
<1>7. shared \subseteq shared' /\ shared' \subseteq shared \cup {p}
      /\ (p \notin shared' => Writers(p) = {})
  BY DEF Open, Sharing
<1>8. ASSUME NEW q \in Request, q # r, req[q].pc \in Putting, req[q].path \notin shared'
      PROVE  req[q].path # p
  <2> SUFFICES ASSUME req[q].path = p PROVE FALSE
    OBVIOUS
  <2>1. q \in Writers(p)
    BY <1>8 DEF Writers, Putting
  <2> QED
    BY <1>7, <1>8, <2>1
<1>9. Shape'
  BY <1>1, <1>3, <1>4, <1>6, <1>7, Marks DEF IInv, Shape
<1>10. Own'
  <2> SUFFICES ASSUME NEW q \in Request, req'[q].pc \in Putting, req'[q].path \notin shared'
               PROVE  /\ \A s \in Request : req'[s].pc \in Putting /\ req'[s].path = req'[q].path => s = q
                      /\ req'[q].pc = "fill" => req'[q].fd = "tmp" /\ tmp'[req'[q].path] = Empty
                      /\ req'[q].pc = "replace" => tmp'[req'[q].path] = req'[q].new
    BY DEF Own
  <2>1. CASE q = r
    BY <1>1, <1>2, <1>6, <1>8, <2>1 DEF Same
  <2>2. CASE q # r
    <3>1. req'[q] = req[q] /\ req[q].path # p /\ req[q].path \notin shared /\ req[q].path \in File
      BY <1>1, <1>7, <1>8, <2>2 DEF IInv, Shape, Legal
    <3>2. req'[r].path = p
      BY <1>2 DEF Same
    <3>3. tmp'[req[q].path] = tmp[req[q].path]
      BY <1>6, <3>1
    <3> QED
      BY <1>1, <3>1, <3>2, <3>3 DEF IInv, Own
  <2> QED
    BY <2>1, <2>2
<1>11. Sound'
  BY <1>1, <1>2, <1>7 DEF IInv, Sound, Same, Writing
<1>12. WholeFiles'
  BY <1>1, <1>7 DEF IInv, WholeFiles
<1> QED
  BY <1>9, <1>10, <1>11, <1>12 DEF IInv

\* Until its name is shared, the text goes into an empty temporary file and is there whole.
LEMMA FillKeeps ==
    ASSUME IInv, NEW r \in Request, Fill(r)
    PROVE  IInv'
<1> DEFINE p == req[r].path
<1>1. /\ \A q \in Request : q # r => req'[q] = req[q]
      /\ req' = [q \in Request |-> req'[q]] /\ UNCHANGED <<acts, shared>> /\ req[r].pc = "fill"
  BY DEF Fill, IInv, Shape
<1>2. Same(req'[r], req[r]) /\ req'[r].pc = "replace" /\ req'[r].fd = "none"
  BY DEF Fill, IInv, Shape, Legal, Same, Idle
<1>3. p \in File /\ Legal(req[r]) /\ Good(p, req[r].new)
  BY <1>1 DEF IInv, Shape, Legal, Writing
<1>4. Legal(req'[r])
  BY <1>1, <1>2, <1>3, SameLegal DEF Pc, Writing
<1>5. /\ file' = [f \in File |-> file'[f]] /\ tmp' = [f \in File |-> tmp'[f]]
      /\ \A f \in File : f # p => file'[f] = file[f] /\ tmp'[f] = tmp[f]
      /\ file'[p] \in {file[p], req[r].new, Torn} /\ tmp'[p] \in {tmp[p], req[r].new, Torn}
  <2>1. req[r].fd \in {"tmp", "live", "gone"}
    BY <1>1, <1>3 DEF Legal
  <2>2. CASE req[r].fd = "tmp"
    BY <1>3, <2>2 DEF Fill, Over, IInv, Shape
  <2>3. CASE req[r].fd = "live"
    BY <1>3, <2>3 DEF Fill, Over, IInv, Shape
  <2>4. CASE req[r].fd = "gone"
    BY <1>3, <2>4 DEF Fill, IInv, Shape
  <2> QED
    BY <2>1, <2>2, <2>3, <2>4
<1>6. p \notin shared => file' = file /\ tmp'[p] = req[r].new
  <2> SUFFICES ASSUME p \notin shared PROVE file' = file /\ tmp'[p] = req[r].new
    OBVIOUS
  <2>1. req[r].fd = "tmp" /\ tmp[p] = Empty
    BY <1>1 DEF IInv, Own, Putting
  <2> QED
    BY <1>3, <2>1 DEF Fill, Over, IInv, Shape
<1>7. Shape'
  BY <1>1, <1>3, <1>4, <1>5, Marks DEF IInv, Shape
<1>8. Own'
  <2> SUFFICES ASSUME NEW q \in Request, req'[q].pc \in Putting, req'[q].path \notin shared
               PROVE  /\ \A s \in Request : req'[s].pc \in Putting /\ req'[s].path = req'[q].path => s = q
                      /\ req'[q].pc = "fill" => req'[q].fd = "tmp" /\ tmp'[req'[q].path] = Empty
                      /\ req'[q].pc = "replace" => tmp'[req'[q].path] = req'[q].new
    BY <1>1 DEF Own
  <2>1. \A s \in Request : req'[s].path = req[s].path /\ (req'[s].pc \in Putting <=> req[s].pc \in Putting)
    BY <1>1, <1>2 DEF Same, Putting
  <2>2. \A s \in Request : req'[s].pc \in Putting /\ req'[s].path = req'[q].path => s = q
    BY <2>1 DEF IInv, Own
  <2>3. CASE q = r
    BY <1>2, <1>6, <2>2, <2>3 DEF Same
  <2>4. CASE q # r
    <3>1. req'[q] = req[q] /\ req[q].path # p /\ req[q].path \in File
      BY <1>1, <1>2, <2>2, <2>4 DEF IInv, Shape, Legal, Same, Putting
    <3> QED
      BY <1>5, <2>2, <3>1 DEF IInv, Own
  <2> QED
    BY <2>3, <2>4
<1>9. Sound'
  BY <1>1, <1>2 DEF IInv, Sound, Same, Writing
<1>10. WholeFiles'
  BY <1>1, <1>5, <1>6 DEF IInv, WholeFiles
<1> QED
  BY <1>7, <1>8, <1>9, <1>10 DEF IInv

\* What is put in place, and what becomes of the requests.
LEMMA Replaces ==
    ASSUME IInv, NEW r \in Request, Replace(r), tmp[req[r].path] # Absent
    PROVE  /\ req[r].pc = "replace" /\ req[r].path \in File /\ UNCHANGED <<acts, shared>>
           /\ file' = [file EXCEPT ![req[r].path] = tmp[req[r].path]]
           /\ tmp' = [tmp EXCEPT ![req[r].path] = Absent]
           /\ req' = [q \in Request |-> req'[q]] /\ req'[r] = AfterReplace(r)
           /\ \A q \in Request : q # r =>
                  /\ Same(req'[q], req[q]) /\ req'[q].pc = req[q].pc
                  /\ req'[q].fd = Moved(q, req[r].path)
           /\ req[r].path \notin shared => tmp[req[r].path] = req[r].new /\ req[r].new.is = "whole"
<1> DEFINE p == req[r].path
<1>1. /\ req[r].pc = "replace" /\ UNCHANGED <<acts, shared>>
      /\ file' = [file EXCEPT ![p] = tmp[p]] /\ tmp' = [tmp EXCEPT ![p] = Absent]
      /\ req' = [q \in Request |-> IF q = r THEN AfterReplace(r)
                                   ELSE [req[q] EXCEPT !.fd = Moved(q, p)]]
  BY DEF Replace
<1>2. Legal(req[r]) /\ p \in File
  BY DEF IInv, Shape, Legal
<1>3. ASSUME NEW q \in Request, q # r
      PROVE  Same(req'[q], req[q]) /\ req'[q].pc = req[q].pc /\ req'[q].fd = Moved(q, p)
  <2>1. req'[q] = [req[q] EXCEPT !.fd = Moved(q, p)] /\ DOMAIN req[q] = DOMAIN Idle
    BY <1>1, <1>3 DEF IInv, Shape, Legal
  <2> QED
    BY <2>1 DEF Same, Idle
<1>4. p \notin shared => tmp[p] = req[r].new /\ req[r].new.is = "whole"
  <2> SUFFICES ASSUME p \notin shared PROVE tmp[p] = req[r].new /\ req[r].new.is = "whole"
    OBVIOUS
  <2>1. tmp[p] = req[r].new
    BY <1>1 DEF IInv, Own, Putting
  <2>2. req[r].read # Torn /\ Means(req[r])
    BY <1>1, <1>2 DEF IInv, Sound, Writing, Legal
  <2> QED
    BY <2>1, <2>2 DEF Means
<1>5. req'[r] = AfterReplace(r) /\ req' = [q \in Request |-> req'[q]]
  BY <1>1
<1> QED
  BY <1>1, <1>2, <1>3, <1>4, <1>5

\* After that the request has the tiers to apply, the gateway to restart, or nothing to do.
LEMMA Replaced ==
    ASSUME IInv, NEW r \in Request, req[r].pc = "replace", NEW w, w = AfterReplace(r)
    PROVE  /\ Legal(w) /\ w.pc \notin Writing
           /\ \/ w.pc = "idle" \/ w.pc = "restart"
              \/ /\ req[r].path = "tiers" /\ w.pc = "config" /\ w.op = "apply"
                 /\ w.cfg = req[r].cfg /\ w.cfg \in Choice
<1>1. Legal(req[r]) /\ Means(req[r])
  BY DEF IInv, Shape, Legal, Writing
<1>2. CASE req[r].path = "tiers" /\ req[r].op = "apply"
  <2>1. w = [Idle EXCEPT !.pc = "config", !.op = "apply", !.cfg = req[r].cfg]
    BY <1>2 DEF AfterReplace
  <2>2. /\ w.pc = "config" /\ w.op = "apply" /\ w.cfg = req[r].cfg /\ w.path = "nodes"
        /\ w.s3 = {} /\ w.fd = "none" /\ DOMAIN w = DOMAIN Idle
    BY <2>1 DEF Idle
  <2>3. req[r].cfg \in Choice
    BY <1>1, <1>2 DEF Means
  <2> QED
    BY <1>2, <2>2, <2>3 DEF Legal, Pc, Op, File, Writing
<1>3. CASE ~(req[r].path = "tiers" /\ req[r].op = "apply") /\ req[r].path = "litellm"
  <2>1. w = [Idle EXCEPT !.pc = "restart"]
    BY <1>3 DEF AfterReplace
  <2>2. /\ w.pc = "restart" /\ w.op = "none" /\ w.path = "nodes"
        /\ w.s3 = {} /\ w.fd = "none" /\ DOMAIN w = DOMAIN Idle
    BY <2>1 DEF Idle
  <2> QED
    BY <2>2 DEF Legal, Pc, Op, File, Writing
<1>4. CASE ~(req[r].path = "tiers" /\ req[r].op = "apply") /\ req[r].path # "litellm"
  BY <1>4, IdleIsLegal DEF AfterReplace, Idle, Writing
<1> QED
  BY <1>2, <1>3, <1>4

LEMMA ReplaceKeeps ==
    ASSUME IInv, NEW r \in Request, Replace(r)
    PROVE  IInv'
<1> DEFINE p == req[r].path
<1>1. CASE tmp[p] = Absent
  <2>1. Leaves(r) /\ UNCHANGED <<file, tmp, acts, shared>>
    BY <1>1 DEF Replace
  <2> QED
    BY <2>1, LeavesTurn, TurnKeeps
<1>2. CASE tmp[p] # Absent
  <2>1. /\ req[r].pc = "replace" /\ p \in File /\ UNCHANGED <<acts, shared>>
        /\ file' = [file EXCEPT ![p] = tmp[p]] /\ tmp' = [tmp EXCEPT ![p] = Absent]
        /\ req' = [q \in Request |-> req'[q]] /\ req'[r] = AfterReplace(r)
    BY <1>2, Replaces
  <2>2. \A q \in Request : q # r =>
            Same(req'[q], req[q]) /\ req'[q].pc = req[q].pc /\ req'[q].fd = Moved(q, p)
    BY <1>2, Replaces
  <2>3. p \notin shared => tmp[p] = req[r].new /\ req[r].new.is = "whole"
    BY <1>2, Replaces
  <2>4. Legal(req'[r]) /\ req'[r].pc \notin Writing
    BY <2>1, Replaced
  <2>5. /\ file' = [f \in File |-> file'[f]] /\ tmp' = [f \in File |-> tmp'[f]]
        /\ file'[p] = tmp[p] /\ tmp'[p] = Absent
        /\ \A f \in File : f # p => file'[f] = file[f] /\ tmp'[f] = tmp[f]
    BY <2>1 DEF IInv, Shape
  <2>6. ASSUME NEW q \in Request, q # r PROVE Legal(req'[q])
    <3>1. Legal(req[q])
      BY DEF IInv, Shape
    <3>2. /\ req'[q].fd \in {"none", "tmp", "live", "gone"}
          /\ req'[q].fd # "none" <=> req'[q].pc = "fill"
      BY <2>2, <2>6, <3>1 DEF Moved, Legal
    <3> QED
      BY <2>2, <2>6, <3>1, <3>2, SameLegal DEF Legal
  <2>7. Shape'
    BY <2>1, <2>4, <2>5, <2>6, Marks DEF IInv, Shape
  <2>8. Own'
    <3> SUFFICES ASSUME NEW q \in Request, req'[q].pc \in Putting, req'[q].path \notin shared
                 PROVE  /\ \A s \in Request : req'[s].pc \in Putting /\ req'[s].path = req'[q].path => s = q
                        /\ req'[q].pc = "fill" => req'[q].fd = "tmp" /\ tmp'[req'[q].path] = Empty
                        /\ req'[q].pc = "replace" => tmp'[req'[q].path] = req'[q].new
      BY <2>1 DEF Own
    <3>1. q # r /\ \A s \in Request : req'[s].pc \in Putting => s # r
      BY <2>4 DEF Putting, Writing
    <3>2. \A s \in Request : req'[s].pc \in Putting =>
              req[s].pc = req'[s].pc /\ req[s].path = req'[s].path /\ req[s].new = req'[s].new
      BY <2>2, <3>1 DEF Same
    <3>3. \A s \in Request : req[s].pc \in Putting /\ req[s].path = req[q].path => s = q
      BY <3>2 DEF IInv, Own
    <3>4. req[q].path # p /\ req[q].path \in File
      BY <2>1, <3>1, <3>3 DEF IInv, Shape, Legal, Putting
    <3>5. req'[q].fd = req[q].fd /\ tmp'[req[q].path] = tmp[req[q].path]
      BY <2>2, <2>5, <3>1, <3>4 DEF Moved
    <3> QED
      BY <3>2, <3>3, <3>5 DEF IInv, Own
  <2>9. Sound'
    BY <2>1, <2>2, <2>4 DEF IInv, Sound, Same
  <2>10. WholeFiles'
    BY <2>1, <2>3, <2>5, Marks DEF IInv, WholeFiles
  <2> QED
    BY <2>7, <2>8, <2>9, <2>10 DEF IInv
<1> QED
  BY <1>1, <1>2

-----------------------------------------------------------------------------
(* What happens around the requests.                                        *)

LEMMA CrashKeeps ==
    ASSUME IInv, Crash
    PROVE  IInv'
<1>1. /\ req' = [q \in Request |-> Idle] /\ UNCHANGED <<file, acts, shared>>
      /\ tmp' = [f \in File |-> Absent]
  BY DEF Crash
<1>2. \A q \in Request : req'[q] = Idle
  BY <1>1
<1>3. Shape'
  BY <1>1, Marks, IdleIsLegal DEF IInv, Shape
<1>4. Own' /\ Sound'
  BY <1>2 DEF Own, Sound, Idle, Putting, Writing
<1> QED
  BY <1>1, <1>3, <1>4 DEF IInv, WholeFiles

LEMMA EditKeeps ==
    ASSUME IInv, Edit
    PROVE  IInv'
<1> DEFINE text == file["litellm"].text
<1>1. PICK h \in Hand : file' = [file EXCEPT !["litellm"] = Whole(Append(text, Line("hand", h)))]
  BY DEF Edit
<1>2. Tidy(text)
  BY Marks DEF Edit, IInv, Shape, Good, File
<1>3. PICK new : new = Whole(Append(text, Line("hand", h)))
  OBVIOUS
<1>4. Good("litellm", new) /\ new \notin {Empty, Torn}
  BY <1>2, <1>3, TidyAppend, Marks DEF Good
<1>5. file' = [file EXCEPT !["litellm"] = new] /\ "litellm" \in File
  BY <1>1, <1>3 DEF File
<1>6. UNCHANGED <<tmp, req, shared>> /\ acts' \in 0..MaxActs
  BY ActCounts DEF Edit
<1>7. Shape'
  BY <1>4, <1>5, <1>6 DEF IInv, Shape
<1>8. Own' /\ Sound'
  BY <1>6 DEF IInv, Own, Sound
<1>9. WholeFiles'
  BY <1>4, <1>5, <1>6 DEF IInv, Shape, WholeFiles
<1> QED
  BY <1>7, <1>8, <1>9 DEF IInv

\* Every step keeps the invariant.
LEMMA StepKeeps ==
    ASSUME IInv, [Next]_vars
    PROVE  IInv'
<1>1. CASE UNCHANGED vars
  BY <1>1 DEF vars, IInv, Shape, Own, Sound, WholeFiles
<1>2. CASE \E r \in Request : Reads(r) \/ Restart(r)
  BY <1>2, ReadsTurn, TurnKeeps
<1>3. CASE \E r \in Request : Puts(r)
  BY <1>3, OpenKeeps, FillKeeps, ReplaceKeeps DEF Puts
<1>4. CASE Crash \/ Edit
  BY <1>4, CrashKeeps, EditKeeps
<1> QED
  BY <1>1, <1>2, <1>3, <1>4 DEF Next, Rest

-----------------------------------------------------------------------------
(* Each step is one change.                                                 *)

LEMMA Views ==
    ASSUME NEW v
    PROVE  /\ v.pc \in {"idle", "restart"} => View(v) = Promise!Nothing /\ Saw(v) = Promise!Nothing
           /\ v.pc = "config" => Saw(v) = Promise!Nothing
           /\ v.pc = "config" /\ v.op = "sync" => View(v) = [of |-> "sync", s3 |-> v.s3]
           /\ v.pc = "config" /\ v.op = "apply" => View(v) = [of |-> "apply", cfg |-> v.cfg]
           /\ v.pc \in Writing /\ v.path = "nodes" =>
                  View(v) = [of |-> "nodes"] /\ Saw(v) = Registry(v.read)
           /\ v.pc \in Writing /\ v.path = "env" => View(v) = [of |-> "env"] /\ Saw(v) = Keys(v.read)
           /\ v.pc \in Writing /\ v.path = "tiers" =>
                  View(v) = [of |-> "tiers"] /\ Saw(v) = Promise!Nothing
           /\ v.pc \in Writing /\ v.path = "litellm" =>
                  /\ Saw(v) = Says(Config(v.read))
                  /\ v.op = "sync" => View(v) = [of |-> "fleet", s3 |-> v.s3]
                  /\ v.op = "apply" => View(v) = [of |-> "cloud", cfg |-> v.cfg]
<1> USE DEF View, Saw, Writing, Promise!Nothing
<1>1. v.pc \in {"idle", "restart"} => View(v) = Promise!Nothing /\ Saw(v) = Promise!Nothing
  OBVIOUS
<1>2. /\ v.pc = "config" => Saw(v) = Promise!Nothing
      /\ v.pc = "config" /\ v.op = "sync" => View(v) = [of |-> "sync", s3 |-> v.s3]
      /\ v.pc = "config" /\ v.op = "apply" => View(v) = [of |-> "apply", cfg |-> v.cfg]
  OBVIOUS
<1>3. /\ v.pc \in Writing /\ v.path = "nodes" =>
             View(v) = [of |-> "nodes"] /\ Saw(v) = Registry(v.read)
      /\ v.pc \in Writing /\ v.path = "env" => View(v) = [of |-> "env"] /\ Saw(v) = Keys(v.read)
      /\ v.pc \in Writing /\ v.path = "tiers" =>
             View(v) = [of |-> "tiers"] /\ Saw(v) = Promise!Nothing
  OBVIOUS
<1>4. v.pc \in Writing /\ v.path = "litellm" =>
          /\ Saw(v) = Says(Config(v.read))
          /\ v.op = "sync" => View(v) = [of |-> "fleet", s3 |-> v.s3]
          /\ v.op = "apply" => View(v) = [of |-> "cloud", cfg |-> v.cfg]
  OBVIOUS
<1> QED
  BY <1>1, <1>2, <1>3, <1>4

\* A request that goes on has the same view of the files.
LEMMA SameView ==
    ASSUME NEW v, Legal(v), NEW w, Same(w, v),
           w.pc = v.pc \/ (w.pc \in Writing /\ v.pc \in Writing)
    PROVE  View(w) = View(v) /\ Saw(w) = Saw(v)
<1>1. CASE v.pc \in {"idle", "restart"}
  <2>1. w.pc \in {"idle", "restart"}
    BY <1>1 DEF Writing
  <2> QED
    BY <1>1, <2>1, Views
<1>2. CASE v.pc = "config"
  <2>1. w.pc = "config" /\ w.op = v.op /\ w.s3 = v.s3 /\ w.cfg = v.cfg /\ v.op \in {"sync", "apply"}
    BY <1>2 DEF Writing, Same, Legal
  <2> QED
    BY <1>2, <2>1, Views
<1>3. CASE v.pc \in Writing
  <2>1. /\ w.pc \in Writing /\ w.op = v.op /\ w.s3 = v.s3 /\ w.cfg = v.cfg
        /\ w.path = v.path /\ w.read = v.read
    BY <1>3 DEF Same
  <2>2. /\ v.path \in {"nodes", "tiers", "env", "litellm"}
        /\ v.path = "litellm" => v.op \in {"sync", "apply"}
    BY <1>3 DEF Legal, Means, File
  <2>3. CASE v.path = "litellm" /\ v.op = "sync"
    BY <1>3, <2>1, <2>3, Views
  <2>4. CASE v.path = "litellm" /\ v.op = "apply"
    BY <1>3, <2>1, <2>4, Views
  <2>5. CASE v.path = "nodes"
    BY <1>3, <2>1, <2>5, Views
  <2>6. CASE v.path = "env"
    BY <1>3, <2>1, <2>6, Views
  <2>7. CASE v.path = "tiers"
    BY <1>3, <2>1, <2>7, Views
  <2> QED
    BY <2>2, <2>3, <2>4, <2>5, <2>6, <2>7
<1> QED
  BY <1>1, <1>2, <1>3 DEF Legal, Pc, Writing

\* What a request that writes is to replace.
LEMMA Replacing ==
    ASSUME NEW v, Legal(v), v.pc \in Writing
    PROVE  /\ Promise!FileOf(View(v)) = v.path
           /\ v.path \in {"nodes", "tiers", "env", "litellm"}
<1>1. v.path \in {"nodes", "tiers", "env", "litellm"}
  BY DEF Legal, File
<1>2. v.path = "litellm" => v.op = "sync" \/ v.op = "apply"
  BY DEF Legal, Means
<1>3. v.path = "litellm" => View(v).of \in {"fleet", "cloud"}
  BY <1>2, Views
<1>4. v.path # "litellm" => View(v).of = v.path
  BY <1>1, Views
<1> QED
  BY <1>1, <1>3, <1>4 DEF Promise!FileOf

LEMMA Turned ==
    ASSUME NEW r \in Request, req' = [q \in Request |-> req'[q]], shared' = shared,
           \A q \in Request : q # r => View(req'[q]) = View(req[q]) /\ Saw(req'[q]) = Saw(req[q]),
           NEW v, NEW s, View(req'[r]) = v, Saw(req'[r]) = s
    PROVE  Promise!Turns(r, v, s)
<1>1. [q \in Request |-> View(req'[q])] = [[q \in Request |-> View(req[q])] EXCEPT ![r] = v]
  OBVIOUS
<1>2. [q \in Request |-> Saw(req'[q])] = [[q \in Request |-> Saw(req[q])] EXCEPT ![r] = s]
  OBVIOUS
<1> QED
  BY <1>1, <1>2 DEF Promise!Turns

LEMMA FilesStay == ASSUME file' = file PROVE UNCHANGED Promise!files
  BY DEF Promise!files

LEMMA TurnSteps ==
    ASSUME IInv, NEW r \in Request, NEW v, Turn(r, v), Seen(r, v)
    PROVE  Promise!Change
<1>1. /\ req'[r] = v /\ \A q \in Request : q # r => req'[q] = req[q]
      /\ req' = [q \in Request |-> req'[q]] /\ shared' = shared /\ file' = file
  BY DEF Turn, IInv, Shape
<1>2. UNCHANGED Promise!files
  BY <1>1, FilesStay
<1>3. Promise!Turns(r, View(v), Saw(v))
  BY <1>1, Turned
<1>4. Legal(v) /\ Legal(req[r]) /\ (v.pc = "open" => v.pc \in Writing /\ v.read = file[v.path])
  BY DEF Turn, IInv, Shape, Writing
<1>5. CASE v = Idle
  <2>1. View(v) = Promise!Nothing /\ Saw(v) = Promise!Nothing
    BY <1>5, Views DEF Idle
  <2> QED
    BY <1>2, <1>3, <2>1 DEF Promise!Change, Promise!GiveUp
<1>6. CASE req[r].pc = "idle" /\ v.pc = "open" /\ v.path \in {"nodes", "env", "tiers"}
  <2>1. View(req[r]).of = "none"
    BY <1>6, Views DEF Promise!Nothing
  <2>2. CASE v.path = "nodes"
    <3>1. View(v) = [of |-> "nodes"] /\ Saw(v) = Registry(file["nodes"])
      BY <1>4, <1>6, <2>2, Views
    <3> QED
      BY <1>2, <1>3, <2>1, <3>1 DEF Promise!Change, Promise!Read
  <2>3. CASE v.path = "env"
    <3>1. View(v) = [of |-> "env"] /\ Saw(v) = Keys(file["env"])
      BY <1>4, <1>6, <2>3, Views
    <3> QED
      BY <1>2, <1>3, <2>1, <3>1 DEF Promise!Change, Promise!Read
  <2>4. CASE v.path = "tiers"
    <3>1. View(v) = [of |-> "tiers"] /\ Saw(v) = Promise!Nothing
      BY <1>4, <1>6, <2>4, Views
    <3> QED
      BY <1>2, <1>3, <2>1, <3>1 DEF Promise!Change, Promise!Read
  <2> QED
    BY <1>6, <2>2, <2>3, <2>4
<1>7. CASE /\ req[r].pc = "idle" /\ v.pc = "config" /\ v.op = "sync"
           /\ v.s3 = Fleet(file["nodes"]) \/ file["nodes"] = Torn
  <2>1. View(req[r]).of = "none"
    BY <1>7, Views DEF Promise!Nothing
  <2>2. View(v) = [of |-> "sync", s3 |-> v.s3] /\ Saw(v) = Promise!Nothing
    BY <1>7, Views
  <2>3. v.s3 \in SUBSET Node
    BY <1>4 DEF Legal
  <2>4. v.s3 = Promise!Squad \/ "nodes" \in shared
    BY <1>7 DEF IInv, WholeFiles, File, Fleet, Promise!Squad
  <2> QED
    BY <1>2, <1>3, <2>1, <2>2, <2>3, <2>4 DEF Promise!Change, Promise!Read
<1>8. CASE /\ req[r].pc = "config" /\ v.pc = "open" /\ v.path = "litellm"
           /\ v.op = req[r].op /\ v.s3 = req[r].s3 /\ v.cfg = req[r].cfg
  <2>1. Saw(v) = Says(Config(file["litellm"]))
    BY <1>4, <1>8, Views
  <2>2. CASE v.op = "sync"
    <3>1. View(req[r]) = [of |-> "sync", s3 |-> v.s3]
      BY <1>8, <2>2, Views
    <3>2. View(v) = [of |-> "fleet", s3 |-> v.s3]
      BY <1>4, <1>8, <2>2, Views
    <3>3. View(req[r]).of = "sync" /\ View(v) = [of |-> "fleet", s3 |-> View(req[r]).s3]
      BY <3>1, <3>2
    <3> QED
      BY <1>2, <1>3, <2>1, <3>3 DEF Promise!Change, Promise!Read
  <2>3. CASE v.op = "apply"
    <3>1. View(req[r]) = [of |-> "apply", cfg |-> v.cfg]
      BY <1>8, <2>3, Views
    <3>2. View(v) = [of |-> "cloud", cfg |-> v.cfg]
      BY <1>4, <1>8, <2>3, Views
    <3>3. View(req[r]).of = "apply" /\ View(v) = [of |-> "cloud", cfg |-> View(req[r]).cfg]
      BY <3>1, <3>2
    <3> QED
      BY <1>2, <1>3, <2>1, <3>3 DEF Promise!Change, Promise!Read
  <2> QED
    BY <1>4, <1>8, <2>2, <2>3 DEF Legal
<1> QED
  BY <1>5, <1>6, <1>7, <1>8 DEF Seen


\* What a request leaves to the other files.
LEMMA Elsewhere ==
    ASSUME NEW p, \A f \in File : f # p => file'[f] = file[f]
    PROVE  /\ p # "nodes" => Registry(file'["nodes"]) = Registry(file["nodes"])
           /\ p # "tiers" => Tiers(file'["tiers"]) = Tiers(file["tiers"])
           /\ p # "env" => Keys(file'["env"]) = Keys(file["env"])
           /\ p # "litellm" => Says(Config(file'["litellm"])) = Says(Config(file["litellm"]))
  BY DEF File

\* Nothing that the requests look at changes.
LEMMA ViewsStay ==
    ASSUME \A q \in Request : View(req'[q]) = View(req[q]) /\ Saw(req'[q]) = Saw(req[q])
    PROVE  /\ [q \in Request |-> View(req'[q])] = [q \in Request |-> View(req[q])]
           /\ [q \in Request |-> Saw(req'[q])] = [q \in Request |-> Saw(req[q])]
  OBVIOUS

LEMMA OpenSteps ==
    ASSUME IInv, NEW r \in Request, Open(r)
    PROVE  Promise!Change \/ UNCHANGED Promise!all
<1> DEFINE p == req[r].path
<1>1. /\ \A q \in Request : q # r => req'[q] = req[q]
      /\ file' = file /\ req[r].pc = "open" /\ Legal(req[r])
      /\ shared' = IF Writers(p) = {} THEN shared ELSE shared \cup {p}
  BY DEF Open, Sharing, IInv, Shape
<1>2. Same(req'[r], req[r]) /\ req'[r].pc = "fill"
  BY DEF Open, IInv, Shape, Legal, Same, Idle
<1>3. View(req'[r]) = View(req[r]) /\ Saw(req'[r]) = Saw(req[r])
  BY <1>1, <1>2, SameView DEF Writing
<1>4. /\ [q \in Request |-> View(req'[q])] = [q \in Request |-> View(req[q])]
      /\ [q \in Request |-> Saw(req'[q])] = [q \in Request |-> Saw(req[q])]
  BY <1>1, <1>3, ViewsStay
<1>5. UNCHANGED Promise!files
  BY <1>1, FilesStay
<1>6. CASE shared' = shared
  BY <1>4, <1>5, <1>6 DEF Promise!all, Promise!files
<1>7. CASE shared' # shared
  <2>1. PICK q \in Request : req[q].pc \in {"fill", "replace"} /\ req[q].path = p
    BY <1>1, <1>7 DEF Writers
  <2>2. q # r /\ Legal(req[q])
    BY <1>1, <2>1 DEF IInv, Shape
  <2>3. /\ Promise!FileOf(View(req[q])) = p /\ Promise!FileOf(View(req[r])) = p
        /\ p \in {"nodes", "tiers", "env", "litellm"}
    BY <1>1, <2>1, <2>2, Replacing DEF Writing
  <2>4. shared' = shared \cup {p}
    BY <1>1, <1>7
  <2>5. Promise!Share
    BY <1>4, <1>5, <1>7, <2>2, <2>3, <2>4 DEF Promise!Share
  <2> QED
    BY <2>5 DEF Promise!Change
<1> QED
  BY <1>6, <1>7

\* A text that goes into the live file.
LEMMA FillSteps ==
    ASSUME IInv, NEW r \in Request, Fill(r)
    PROVE  Promise!Change \/ UNCHANGED Promise!all
<1> DEFINE p == req[r].path
<1>1. /\ \A q \in Request : q # r => req'[q] = req[q]
      /\ req' = [q \in Request |-> req'[q]] /\ shared' = shared
      /\ req[r].pc = "fill" /\ Legal(req[r]) /\ p \in File
  BY DEF Fill, IInv, Shape, Legal
<1>2. Same(req'[r], req[r]) /\ req'[r].pc = "replace"
  BY DEF Fill, IInv, Shape, Legal, Same, Idle
<1>3. View(req'[r]) = View(req[r]) /\ Saw(req'[r]) = Saw(req[r])
  BY <1>1, <1>2, SameView DEF Writing
<1>4. CASE file' = file
  <2>1. /\ [q \in Request |-> View(req'[q])] = [q \in Request |-> View(req[q])]
        /\ [q \in Request |-> Saw(req'[q])] = [q \in Request |-> Saw(req[q])]
    BY <1>1, <1>3, ViewsStay
  <2>2. UNCHANGED Promise!files
    BY <1>4, FilesStay
  <2> QED
    BY <1>1, <2>1, <2>2 DEF Promise!all, Promise!files
<1>5. CASE file' # file
  <2>1. req[r].fd = "live"
    BY <1>1, <1>5 DEF Fill, Legal
  <2>2. p \in shared
    BY <1>1, <2>1 DEF IInv, Own, Putting
  <2>3. \A f \in File : f # p => file'[f] = file[f]
    BY <1>1, <2>1 DEF Fill, IInv, Shape
  <2>4. Promise!FileOf(View(req[r])) = p
    BY <1>1, Replacing DEF Writing
  <2>5. Promise!Turns(r, View(req[r]), Saw(req[r]))
    BY <1>1, <1>3, Turned
  <2>6. Promise!Spoil(r)
    BY <2>2, <2>3, <2>4, <2>5, Elsewhere DEF Promise!Spoil
  <2> QED
    BY <2>6 DEF Promise!Change
<1> QED
  BY <1>4, <1>5

\* A text that its writer puts in place.
LEMMA PutSteps ==
    ASSUME IInv, NEW r \in Request, req[r].pc = "replace", req[r].path \notin shared,
           file' = [file EXCEPT ![req[r].path] = req[r].new],
           Promise!Turns(r, View(AfterReplace(r)), Saw(AfterReplace(r)))
    PROVE  Promise!Put(r)
<1> DEFINE v == req[r]
           p == v.path
<1>1. /\ Legal(v) /\ Means(v) /\ v.read # Torn /\ v.new.is = "whole" /\ p \in File
      /\ Good(p, v.new) /\ v.pc \in Writing
  <2>1. Legal(v) /\ v.pc \in Writing
    BY DEF IInv, Shape, Writing
  <2>2. v.read # Torn
    BY <2>1 DEF IInv, Sound
  <2>3. Means(v) /\ p \in File /\ Good(p, v.new)
    BY <2>1 DEF Legal
  <2>4. v.new.is = "whole"
    BY <2>2, <2>3 DEF Means
  <2> QED
    BY <2>1, <2>2, <2>3, <2>4
<1>2. file'[p] = v.new /\ \A f \in File : f # p => file'[f] = file[f]
  BY <1>1 DEF IInv, Shape
<1>3. p \in {"nodes", "env", "litellm"} => Promise!Turns(r, Promise!Nothing, Promise!Nothing)
  <2> SUFFICES ASSUME p \in {"nodes", "env", "litellm"}
               PROVE  Promise!Turns(r, Promise!Nothing, Promise!Nothing)
    OBVIOUS
  <2>1. PICK w : w = AfterReplace(r)
    OBVIOUS
  <2>2. w.pc \in {"idle", "restart"}
    BY <2>1 DEF AfterReplace, Idle
  <2>3. View(w) = Promise!Nothing /\ Saw(w) = Promise!Nothing
    BY <2>2, Views
  <2> QED
    BY <2>1, <2>3
<1>4. CASE p = "nodes"
  <2>1. PICK n \in Node, s \in {"s3", "other", "none"} : v.new.text = [Registry(v.read) EXCEPT ![n] = s]
    BY <1>1, <1>4 DEF Means
  <2>2. Registry(file'["nodes"]) = [Saw(v) EXCEPT ![n] = s] /\ View(v).of = "nodes"
    BY <1>1, <1>2, <1>4, <2>1, Views DEF Registry
  <2> QED
    BY <1>2, <1>3, <1>4, <2>2, Elsewhere DEF Promise!Put
<1>5. CASE p = "env"
  <2>1. PICK k \in Key : v.new.text = Keys(v.read) \cup {k}
    BY <1>1, <1>5 DEF Means
  <2>2. Keys(file'["env"]) = Saw(v) \cup {k} /\ View(v).of = "env"
    BY <1>1, <1>2, <1>5, <2>1, Views DEF Keys
  <2> QED
    BY <1>2, <1>3, <1>5, <2>2, Elsewhere DEF Promise!Put
<1>6. CASE p = "tiers"
  <2>1. v.new.text = v.cfg /\ v.cfg \in Choice /\ v.op \in {"tiers", "apply"} /\ View(v).of = "tiers"
    BY <1>1, <1>6, Marks, Views DEF Means
  <2>2. Tiers(file'["tiers"]) = v.cfg
    BY <1>1, <1>2, <1>6, <2>1 DEF Tiers
  <2>3. \/ Promise!Turns(r, Promise!Nothing, Promise!Nothing)
        \/ Promise!Turns(r, [of |-> "apply", cfg |-> v.cfg], Promise!Nothing)
    <3>1. PICK w : w = AfterReplace(r)
      OBVIOUS
    <3>2. w.pc \in {"idle", "restart"} \/ (w.pc = "config" /\ w.op = "apply" /\ w.cfg = v.cfg)
      BY <1>6, <3>1, Replaced
    <3>3. \/ View(w) = Promise!Nothing
          \/ View(w) = [of |-> "apply", cfg |-> v.cfg]
      BY <3>2, Views
    <3>4. Saw(w) = Promise!Nothing
      BY <3>2, Views
    <3> QED
      BY <3>1, <3>3, <3>4
  <2> QED
    BY <1>2, <1>6, <2>1, <2>2, <2>3, Elsewhere DEF Promise!Put
<1>7. CASE p = "litellm" /\ v.op = "sync"
  <2>1. Says(v.new.text) = [Says(Config(v.read)) EXCEPT !.fleet = v.s3, !.alike = {}]
    BY <1>1, <1>7 DEF Means
  <2>2. View(v) = [of |-> "fleet", s3 |-> v.s3] /\ Saw(v) = Says(Config(v.read))
    BY <1>1, <1>7, Views
  <2>3. Says(Config(file'["litellm"])) = [Saw(v) EXCEPT !.fleet = View(v).s3, !.alike = {}]
    BY <1>1, <1>2, <1>7, <2>1, <2>2 DEF Config
  <2>4. View(v).of = "fleet" /\ Promise!Turns(r, Promise!Nothing, Promise!Nothing)
    BY <1>3, <1>7, <2>2
  <2>5. \A f \in File : f # "litellm" => file'[f] = file[f]
    BY <1>2, <1>7
  <2> HIDE DEF v
  <2> QED
    BY <2>3, <2>4, <2>5, Elsewhere DEF Promise!Put, v
<1>8. CASE p = "litellm" /\ v.op = "apply"
  <2>1. Says(v.new.text) = [Says(Config(v.read)) EXCEPT !.cloud = {v.cfg}]
    BY <1>1, <1>8 DEF Means
  <2>2. View(v) = [of |-> "cloud", cfg |-> v.cfg] /\ Saw(v) = Says(Config(v.read))
    BY <1>1, <1>8, Views
  <2>3. Says(Config(file'["litellm"])) = [Saw(v) EXCEPT !.cloud = {View(v).cfg}]
    BY <1>1, <1>2, <1>8, <2>1, <2>2 DEF Config
  <2> QED
    BY <1>2, <1>3, <1>8, <2>2, <2>3, Elsewhere DEF Promise!Put
<1> QED
  BY <1>1, <1>4, <1>5, <1>6, <1>7, <1>8 DEF File, Means

LEMMA ReplaceSteps ==
    ASSUME IInv, NEW r \in Request, Replace(r)
    PROVE  Promise!Change
<1> DEFINE p == req[r].path
<1>1. CASE tmp[p] = Absent
  <2>1. Leaves(r) /\ UNCHANGED <<file, tmp, acts, shared>>
    BY <1>1 DEF Replace
  <2>2. Turn(r, Idle) /\ Seen(r, Idle)
    BY <2>1, LeavesTurn DEF Seen
  <2> QED
    BY <2>2, TurnSteps
<1>2. CASE tmp[p] # Absent
  <2>1. /\ req[r].pc = "replace" /\ p \in File /\ shared' = shared
        /\ file' = [file EXCEPT ![p] = tmp[p]]
        /\ req' = [q \in Request |-> req'[q]] /\ req'[r] = AfterReplace(r)
    BY <1>2, Replaces
  <2>2. ASSUME NEW q \in Request, q # r
        PROVE  View(req'[q]) = View(req[q]) /\ Saw(req'[q]) = Saw(req[q])
    <3>1. Same(req'[q], req[q]) /\ req'[q].pc = req[q].pc /\ Legal(req[q])
      BY <1>2, <2>2, Replaces DEF IInv, Shape
    <3> QED
      BY <3>1, SameView
  <2>3. Promise!Turns(r, View(AfterReplace(r)), Saw(AfterReplace(r)))
    BY <2>1, <2>2, Turned
  <2>4. CASE p \notin shared
    <3>1. tmp[p] = req[r].new
      BY <1>2, <2>4, Replaces
    <3>2. Promise!Put(r)
      BY <2>1, <2>3, <2>4, <3>1, PutSteps
    <3> QED
      BY <3>2 DEF Promise!Change
  <2>5. CASE p \in shared
    <3>1. \A f \in File : f # p => file'[f] = file[f]
      BY <2>1 DEF IInv, Shape
    <3>2. Promise!FileOf(View(req[r])) = p
      BY <2>1, Replacing DEF IInv, Shape, Writing
    <3>3. PICK w : w = AfterReplace(r)
      OBVIOUS
    <3>4. \/ w.pc \in {"idle", "restart"}
          \/ p = "tiers" /\ w.pc = "config" /\ w.op = "apply" /\ w.cfg \in Choice
      BY <2>1, <3>3, Replaced
    <3>5. /\ \/ View(w) = Promise!Nothing
             \/ p = "tiers" /\ \E c \in Choice : View(w) = [of |-> "apply", cfg |-> c]
          /\ Saw(w) = Promise!Nothing
      BY <3>4, Views
    <3>6. Promise!Turns(r, View(w), Promise!Nothing)
      BY <2>3, <3>3, <3>5
    <3>7. \/ Promise!Turns(r, Promise!Nothing, Promise!Nothing)
          \/ p = "tiers" /\ \E c \in Choice :
                 Promise!Turns(r, [of |-> "apply", cfg |-> c], Promise!Nothing)
      BY <3>5, <3>6
    <3>8. Promise!Spoil(r)
      BY <2>5, <3>1, <3>2, <3>7, Elsewhere DEF Promise!Spoil
    <3> QED
      BY <3>8 DEF Promise!Change
  <2> QED
    BY <2>4, <2>5
<1> QED
  BY <1>1, <1>2

LEMMA CrashSteps ==
    ASSUME IInv, Crash
    PROVE  Promise!Change
<1>1. (\A q \in Request : req'[q] = Idle) /\ file' = file /\ shared' = shared
  BY DEF Crash
<1>2. View(Idle) = Promise!Nothing /\ Saw(Idle) = Promise!Nothing
  BY Views DEF Idle
<1>3. /\ [q \in Request |-> View(req'[q])] = [q \in Request |-> Promise!Nothing]
      /\ [q \in Request |-> Saw(req'[q])] = [q \in Request |-> Promise!Nothing]
  BY <1>1, <1>2
<1>4. Promise!Stop
  BY <1>1, <1>3, FilesStay DEF Promise!Stop
<1> QED
  BY <1>4 DEF Promise!Change

LEMMA EditSteps ==
    ASSUME IInv, Edit
    PROVE  Promise!Change
<1> DEFINE text == file["litellm"].text
<1>1. PICK h \in Hand : file' = [file EXCEPT !["litellm"] = Whole(Append(text, Line("hand", h)))]
  BY DEF Edit
<1>2. file["litellm"].is = "whole" /\ Tidy(text) /\ UNCHANGED <<req, shared>>
  BY Marks DEF Edit, IInv, Shape, Good, File
<1>3. PICK l, new : l = Line("hand", h) /\ new = Append(text, l)
  OBVIOUS
<1>4. /\ file'["litellm"] = Whole(new)
      /\ \A f \in File : f # "litellm" => file'[f] = file[f]
  BY <1>1, <1>3 DEF IInv, Shape, File
<1>5. Config(file["litellm"]) = text /\ Config(file'["litellm"]) = new
  BY <1>2, <1>4, Marks DEF Config
<1>10. l \in ConfigLine /\ l.kind = "hand"
  BY <1>1, <1>3 DEF ConfigLine, Line
<1>6. /\ Plain(l) => HandOf(new) = Append(HandOf(text), l) /\ AlikeOf(new) = AlikeOf(text)
      /\ ~Plain(l) => HandOf(new) = HandOf(text) /\ AlikeOf(new) = AlikeOf(text) \cup {l}
      /\ NodesOf(new) = NodesOf(text) /\ CloudOf(new) = CloudOf(text)
  BY <1>2, <1>3, <1>10, AppendReads
<1>7. /\ [q \in Request |-> View(req'[q])] = [q \in Request |-> View(req[q])]
      /\ [q \in Request |-> Saw(req'[q])] = [q \in Request |-> Saw(req[q])]
  BY <1>2
<1>8. CASE Plain(l)
  <2>1. l \in [kind : {"hand"}, of : Hand] \ [kind : {"hand"}, of : Lookalike]
    BY <1>3, <1>8 DEF Plain, Line
  <2>2. PICK old, now : old = Says(text) /\ now = Says(new)
    OBVIOUS
  <2>3. /\ DOMAIN old = {"hand", "alike", "fleet", "cloud"} /\ DOMAIN now = DOMAIN old
        /\ now.hand = Append(old.hand, l) /\ now.alike = old.alike /\ now.fleet = old.fleet
        /\ now.cloud = old.cloud /\ now = [f \in DOMAIN now |-> now[f]]
    BY <1>6, <1>8, <2>2 DEF Says
  <2>4. now = [old EXCEPT !.hand = Append(@, l)]
    BY <2>3
  <2>5. Says(Config(file'["litellm"])) = [Says(Config(file["litellm"])) EXCEPT !.hand = Append(@, l)]
    BY <1>5, <2>2, <2>4
  <2>6. Promise!EditByHand
    BY <1>2, <1>4, <1>7, <2>1, <2>5, Elsewhere DEF Promise!EditByHand
  <2> QED
    BY <2>6 DEF Promise!Change
<1>9. CASE ~Plain(l)
  <2>1. l \in [kind : {"hand"}, of : Lookalike]
    BY <1>3, <1>9 DEF Plain, Line
  <2>2. PICK old, now : old = Says(text) /\ now = Says(new)
    OBVIOUS
  <2>3. /\ DOMAIN old = {"hand", "alike", "fleet", "cloud"} /\ DOMAIN now = DOMAIN old
        /\ now.hand = old.hand /\ now.alike = old.alike \cup {l} /\ now.fleet = old.fleet
        /\ now.cloud = old.cloud /\ now = [f \in DOMAIN now |-> now[f]]
    BY <1>6, <1>9, <2>2 DEF Says
  <2>4. now = [old EXCEPT !.alike = @ \cup {l}]
    BY <2>3
  <2>5. Says(Config(file'["litellm"])) = [Says(Config(file["litellm"])) EXCEPT !.alike = @ \cup {l}]
    BY <1>5, <2>2, <2>4
  <2>6. Promise!EditByHand
    BY <1>2, <1>4, <1>7, <2>1, <2>5, Elsewhere DEF Promise!EditByHand
  <2> QED
    BY <2>6 DEF Promise!Change
<1> QED
  BY <1>8, <1>9

LEMMA OneChange == IInv /\ [Next]_vars => [Promise!Change]_(Promise!all)
<1> SUFFICES ASSUME IInv, [Next]_vars PROVE Promise!Change \/ UNCHANGED Promise!all
  OBVIOUS
<1>1. CASE UNCHANGED vars
  BY <1>1, FilesStay DEF vars, Promise!all, Promise!files
<1>2. CASE \E r \in Request : Reads(r) \/ Restart(r)
  BY <1>2, ReadsTurn, TurnSteps
<1>3. CASE \E r \in Request : Puts(r)
  BY <1>3, OpenSteps, FillSteps, ReplaceSteps DEF Puts
<1>4. CASE Crash \/ Edit
  BY <1>4, CrashSteps, EditSteps
<1> QED
  BY <1>1, <1>2, <1>3, <1>4 DEF Next, Rest

LEMMA BlankAtFirst == Init => Promise!Blank
<1> SUFFICES ASSUME Init PROVE Promise!Blank
  OBVIOUS
<1>1. /\ file["nodes"] = Absent /\ file["tiers"] = Absent /\ file["env"] = Absent
      /\ file["litellm"] = Whole(FirstText)
  BY DEF Init, File
<1>2. Registry(Absent) = [n \in Node |-> "none"] /\ Keys(Absent) = {} /\ Tiers(Absent) \in Choice
  BY FilesAssumption, TextOf, Marks DEF Registry, Keys, Tiers
<1>3. Config(Whole(FirstText)) = FirstText
  BY Marks DEF Config
<1>4. CloudOf(FirstText) = {}
  <2> DEFINE T == [kind : {"hand"}, of : Hand] \cup [kind : {"node"}, of : Node] \cup {Mark("note")}
  <2>1. FirstText \in Seq(T) /\ \A l \in T : l.kind # "cloud"
    BY FilesAssumption DEF Mark, Line
  <2> HIDE DEF T
  <2>2. \A i \in DOMAIN FirstText : FirstText[i].kind # "cloud"
    BY <2>1
  <2> QED
    BY <2>2 DEF CloudOf
<1>5. \A r \in Request : View(req[r]) = Promise!Nothing /\ Saw(req[r]) = Promise!Nothing
  BY Views DEF Init, Idle
<1>6. Says(Config(file["litellm"])).cloud = {}
  BY <1>1, <1>3, <1>4 DEF Says
<1>7. shared = {}
  BY DEF Init
<1> QED
  BY <1>1, <1>2, <1>5, <1>6, <1>7 DEF Promise!Blank

\* What a path may hold is what TypeOK and FencesCompose ask of it.
LEMMA GoodIsContent ==
    ASSUME NEW f \in File, NEW c, Good(f, c)
    PROVE  /\ IsContent(f, c)
           /\ f = "litellm" /\ c.is = "whole" => WellFormed(c.text)
<1>1. f = "litellm" /\ c.is = "whole" => Tidy(c.text)
  BY Marks DEF Good
<1>2. ASSUME Tidy(c.text) PROVE \A i \in DOMAIN c.text : c.text[i] \in ConfigLine
  <2>1. c.text \in Seq(ConfigLine)
    BY <1>2 DEF Tidy
  <2> QED
    BY <2>1
<1>3. IsContent(f, c)
  BY <1>2 DEF Good, IsContent
<1> QED
  BY <1>1, <1>3, TidyIsWellFormed

-----------------------------------------------------------------------------
\* power.py:119: whoever opens a file finds a whole text, whatever the requests do to the
\* others and wherever fleetd dies, until two of them have its temporary name open.
THEOREM FilesStayWhole == Spec => []WholeFiles
<1>1. IInv /\ [Next]_vars => IInv'
  BY StepKeeps
<1>2. IInv => WholeFiles
  BY DEF IInv
<1> QED
  BY InitHolds, <1>1, <1>2, PTL DEF Spec

\* Every file holds what its readers expect or one of the two marks of a spoilt text, every
\* request what it may hold: no sequence of edits, overlapping or not, puts a line in a text
\* that no writer would write.
THEOREM TypeCorrect == Spec => []TypeOK
<1>1. IInv /\ [Next]_vars => IInv'
  BY StepKeeps
<1>2. IInv => TypeOK
  <2> SUFFICES ASSUME IInv PROVE TypeOK
    OBVIOUS
  <2>1. \A f \in File : IsContent(f, file[f]) /\ IsContent(f, tmp[f])
    BY GoodIsContent DEF IInv, Shape
  <2> QED
    BY <2>1 DEF IInv, Shape, Pc, Legal, TypeOK
<1> QED
  BY InitHolds, <1>1, <1>2, PTL DEF Spec

\* providers.py:14: the two generated blocks of the configuration compose, whatever the
\* operator adds, in whichever order the blocks are written and however requests overlap.
THEOREM FencesAlwaysCompose == Spec => []FencesCompose
<1>1. IInv /\ [Next]_vars => IInv'
  BY StepKeeps
<1>2. IInv => FencesCompose
  BY GoodIsContent DEF IInv, Shape, FencesCompose, File
<1> QED
  BY InitHolds, <1>1, <1>2, PTL DEF Spec

\* litellm_sync.py:113, providers.py:251: each step of all requests together amounts to one
\* of a request's own: it replaces a file by one change of what it read there, whoever wrote
\* the file since, and spoils no file but one whose temporary name was shared.
THEOREM ChangesOneEach == Spec => OneChangeEach
<1>1. IInv /\ [Next]_vars => IInv'
  BY StepKeeps
<1>2. IInv /\ [Next]_vars => [Promise!Change]_(Promise!all)
  BY OneChange
<1> QED
  BY InitHolds, BlankAtFirst, <1>1, <1>2, PTL DEF Spec, OneChangeEach, Promise!OneChangeEach
=============================================================================
