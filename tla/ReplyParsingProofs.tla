-------------------------- MODULE ReplyParsingProofs --------------------------
(***************************************************************************)
(* parse_lead_json is right for replies of any length: the object it finds *)
(* is the one the grammars of ReplyParsing say.  The recursions are turned *)
(* into equations first (RecursionHasOneSolution); then the scan is shown  *)
(* to accept the strings and the balanced objects of the grammar, and them *)
(* only; then that what json.loads takes is balanced, and that the repairs *)
(* make nothing balanced that was not.  The last two theorems say what of  *)
(* a reply that makes the parser return.                                   *)
(***************************************************************************)
EXTENDS ReplyParsing, Integers, WellFoundedInduction, SequenceTheorems, FiniteSetTheorems,
        TLAPS

\* A non-empty set of natural numbers has a smallest element, and Min is it.
LEMMA MinIsSmallest ==
    ASSUME NEW S \in SUBSET Nat, S # {}
    PROVE  Min(S) \in S /\ \A s \in S : Min(S) <= s
<1>1. PICK m \in S : \A k \in S : ~(<<k, m>> \in OpToRel(<, Nat))
  BY NatLessThanWellFounded, WFMin
<1>2. \A k \in S : ~(k < m)
  <2>1. \A k \in S : <<k, m>> \in Nat \X Nat
    OBVIOUS
  <2> QED  BY <1>1, <2>1 DEF OpToRel
<1>3. \A k \in S : m <= k
  BY <1>2
<1> QED  BY <1>3 DEF Min

\* What holds of 0, and of the successor of each number it holds of, holds of all.
LEMMA SetInduction ==
    ASSUME NEW S, 0 \in S, \A n \in Nat : n \in S => n + 1 \in S
    PROVE  Nat \subseteq S
<1> DEFINE T == Nat \ S
<1>1. SUFFICES ASSUME T # {} PROVE FALSE
  OBVIOUS
<1>2. Min(T) \in T /\ \A n \in T : Min(T) <= n
  BY <1>1, MinIsSmallest
<1>3. PICK m \in T : \A n \in T : m <= n
  BY <1>2
<1>4. m - 1 \in Nat /\ m - 1 \notin T
  BY <1>3
<1>5. m - 1 + 1 \in S
  BY <1>4
<1> QED  BY <1>3, <1>5

\* A recursion: F gives for assumed values of a function on D the right-hand sides,
\* and what it gives at x depends only on the values at points of less `size`.
IsRecursion(F, D, R, size, bound) ==
    /\ bound \in Nat /\ size \in [D -> 0 .. bound]
    /\ F \in [[D -> R] -> [D -> R]]
    /\ \A f, g \in [D -> R] : \A x \in D :
          (\A y \in D : size[y] < size[x] => f[y] = g[y]) => F[f][x] = F[g][x]

\* It has exactly one solution.
LEMMA RecursionHasOneSolution ==
    ASSUME NEW D, NEW R, NEW size, NEW N, NEW F, NEW f0,
           IsRecursion(F, D, R, size, N), f0 \in [D -> R]
    PROVE  /\ \E f \in [D -> R] : f = F[f]
           /\ \A f, g \in [D -> R] : f = F[f] /\ g = F[g] => f = g
<1> USE DEF IsRecursion
<1>1. ASSUME NEW f \in [D -> R], NEW g \in [D -> R], f = F[f], g = F[g], f # g
      PROVE  FALSE
  <2> DEFINE T == {size[x] : x \in {x \in D : f[x] # g[x]}}
  <2>1. PICK x \in D : f[x] # g[x]
    BY <1>1
  <2>2. T # {} /\ T \in SUBSET Nat
    BY <2>1
  <2>3. Min(T) \in T /\ \A n \in T : Min(T) <= n
    <3> HIDE DEF T
    <3> QED  BY <2>2, MinIsSmallest
  <2>4. PICK z \in D : f[z] # g[z] /\ \A n \in T : size[z] <= n
    BY <2>3
  <2>5. \A y \in D : size[y] < size[z] => f[y] = g[y]
    <3> TAKE y \in D
    <3>1. CASE f[y] # g[y]
      <4>1. size[y] \in T
        BY <3>1
      <4>2. size[z] <= size[y] /\ size[z] \in Nat /\ size[y] \in Nat
        BY <2>4, <4>1
      <4> QED  BY <4>2
    <3> QED  BY <3>1
  <2>6. F[f][z] = F[g][z]
    BY <2>5
  <2> QED  BY <1>1, <2>4, <2>6
<1> DEFINE Upto(n, f) == \A x \in D : size[x] < n => f[x] = F[f][x]
           S == {n \in Nat : \E f \in [D -> R] : Upto(n, f)}
<1>2. 0 \in S
  <2>1. Upto(0, f0)
    <3>1. \A x \in D : size[x] \in Nat
      OBVIOUS
    <3> QED  BY <3>1
  <2> QED  BY <2>1
<1>3. ASSUME NEW n \in Nat, n \in S
      PROVE  n + 1 \in S
  <2>1. PICK f \in [D -> R] : Upto(n, f)
    BY <1>3
  <2>2. F[f] \in [D -> R]
    OBVIOUS
  <2>3. ASSUME NEW x \in D, size[x] < n + 1
        PROVE  F[f][x] = F[F[f]][x]
    <3>1. \A y \in D : size[y] < size[x] => f[y] = F[f][y]
      <4> TAKE y \in D
      <4>1. size[y] < size[x] => size[y] < n
        <5>1. size[x] \in Nat /\ size[y] \in Nat
          OBVIOUS
        <5> QED  BY <2>3, <5>1
      <4> QED  BY <2>1, <4>1
    <3> QED  BY <2>2, <3>1
  <2>4. Upto(n + 1, F[f])
    BY <2>3
  <2> QED  BY <2>2, <2>4
<1>4. Nat \subseteq S
  <2> HIDE DEF S
  <2> QED  BY <1>2, <1>3, SetInduction
<1>5. PICK f \in [D -> R] : Upto(N + 1, f)
  BY <1>4
<1>6. \A x \in D : f[x] = F[f][x]
  <2>1. \A x \in D : size[x] < N + 1
    OBVIOUS
  <2> QED  BY <1>5, <2>1
<1>7. F[f] \in [D -> R]
  OBVIOUS
<1>8. f = F[f]
  BY <1>6, <1>7
<1> QED  BY <1>1, <1>8

-----------------------------------------------------------------------------
\* The scan.

States == [depth : Int, inString : BOOLEAN, escaped : BOOLEAN]

\* What a token does to the state.
LEMMA ScannedStates ==
    ASSUME NEW s \in States, NEW token
    PROVE  /\ Outside \in States
           /\ Scanned(s, token) \in States
           /\ ~s.inString /\ token = Quote =>
                  Scanned(s, token) = [s EXCEPT !.inString = TRUE]
           /\ ~s.inString /\ token = Open => Scanned(s, token) = [s EXCEPT !.depth = @ + 1]
           /\ ~s.inString /\ token = Close => Scanned(s, token) = [s EXCEPT !.depth = @ - 1]
           /\ ~s.inString /\ token \notin {Open, Close, Quote} => Scanned(s, token) = s
           /\ s.inString /\ s.escaped => Scanned(s, token) = [s EXCEPT !.escaped = FALSE]
           /\ s.inString /\ ~s.escaped /\ token = Slash =>
                  Scanned(s, token) = [s EXCEPT !.escaped = TRUE]
           /\ s.inString /\ ~s.escaped /\ token = Quote =>
                  Scanned(s, token) = [s EXCEPT !.inString = FALSE]
           /\ s.inString /\ ~s.escaped /\ token \notin {Slash, Quote} =>
                  Scanned(s, token) = s
<1> USE DEF States, Outside, Scanned, Open, Close, Quote, Slash
<1>1. Outside \in States
  OBVIOUS
<1>2. ~s.inString /\ token = Quote => Scanned(s, token) = [s EXCEPT !.inString = TRUE]
  OBVIOUS
<1>3. ~s.inString /\ token = Open => Scanned(s, token) = [s EXCEPT !.depth = @ + 1]
  OBVIOUS
<1>4. ~s.inString /\ token = Close => Scanned(s, token) = [s EXCEPT !.depth = @ - 1]
  OBVIOUS
<1>5. ~s.inString /\ token \notin {Open, Close, Quote} => Scanned(s, token) = s
  OBVIOUS
<1>6. s.inString /\ s.escaped => Scanned(s, token) = [s EXCEPT !.escaped = FALSE]
  OBVIOUS
<1>7. s.inString /\ ~s.escaped /\ token = Slash =>
          Scanned(s, token) = [s EXCEPT !.escaped = TRUE]
  OBVIOUS
<1>8. s.inString /\ ~s.escaped /\ token = Quote =>
          Scanned(s, token) = [s EXCEPT !.inString = FALSE]
  OBVIOUS
<1>9. s.inString /\ ~s.escaped /\ token \notin {Slash, Quote} => Scanned(s, token) = s
  OBVIOUS
<1>10. Scanned(s, token) \in States
  <2>1. /\ [s EXCEPT !.inString = TRUE] \in States /\ [s EXCEPT !.inString = FALSE] \in States
        /\ [s EXCEPT !.escaped = TRUE] \in States /\ [s EXCEPT !.escaped = FALSE] \in States
    OBVIOUS
  <2>2. [s EXCEPT !.depth = @ + 1] \in States /\ [s EXCEPT !.depth = @ - 1] \in States
    OBVIOUS
  <2>3. s.inString \in BOOLEAN /\ s.escaped \in BOOLEAN
    OBVIOUS
  <2> USE <1>2, <1>3, <1>4, <1>5, <1>6, <1>7, <1>8, <1>9
  <2> HIDE DEF States, Outside, Scanned, Open, Close, Quote, Slash
  <2> QED  BY <2>1, <2>2, <2>3
<1> QED  BY <1>1, <1>2, <1>3, <1>4, <1>5, <1>6, <1>7, <1>8, <1>9, <1>10

\* What a token makes of a state, field by field.
Advances(s, token, r) ==
    /\ s.inString \/ token \notin {Open, Close} => r.depth = s.depth
    /\ ~s.inString /\ token = Open => r.depth = s.depth + 1
    /\ ~s.inString /\ token = Close => r.depth = s.depth - 1
    /\ r.inString <=> \/ s.inString /\ (s.escaped \/ token # Quote)
                      \/ ~s.inString /\ token = Quote
    /\ r.escaped <=> \/ s.inString /\ ~s.escaped /\ token = Slash
                     \/ ~s.inString /\ s.escaped

\* Scanned is such a step.
LEMMA ScannedFields ==
    ASSUME NEW s \in States, NEW token
    PROVE  Scanned(s, token) \in States /\ Advances(s, token, Scanned(s, token))
<1> DEFINE r == Scanned(s, token)
<1> USE DEF Open, Close, Quote, Slash, Advances
<1>1. s.depth \in Int /\ s.inString \in BOOLEAN /\ s.escaped \in BOOLEAN
  BY DEF States
<1>2. CASE ~s.inString /\ token = Quote
  <2>1. r = [s EXCEPT !.inString = TRUE]
    BY <1>2, ScannedStates
  <2>2. r.depth = s.depth /\ r.inString = TRUE /\ r.escaped = s.escaped
    BY <2>1 DEF States
  <2> HIDE DEF r
  <2> QED  BY <1>1, <1>2, <2>2, ScannedStates DEF r
<1>3. CASE ~s.inString /\ token = Open
  <2>1. r = [s EXCEPT !.depth = @ + 1]
    BY <1>3, ScannedStates
  <2>2. r.depth = s.depth + 1 /\ r.inString = s.inString /\ r.escaped = s.escaped
    BY <2>1 DEF States
  <2> HIDE DEF r
  <2> QED  BY <1>1, <1>3, <2>2, ScannedStates DEF r
<1>4. CASE ~s.inString /\ token = Close
  <2>1. r = [s EXCEPT !.depth = @ - 1]
    BY <1>4, ScannedStates
  <2>2. r.depth = s.depth - 1 /\ r.inString = s.inString /\ r.escaped = s.escaped
    BY <2>1 DEF States
  <2> HIDE DEF r
  <2> QED  BY <1>1, <1>4, <2>2, ScannedStates DEF r
<1>5. CASE ~s.inString /\ token \notin {Open, Close, Quote}
  BY <1>1, <1>5, ScannedStates
<1>6. CASE s.inString /\ s.escaped
  <2>1. r = [s EXCEPT !.escaped = FALSE]
    BY <1>6, ScannedStates
  <2>2. r.depth = s.depth /\ r.inString = s.inString /\ r.escaped = FALSE
    BY <2>1 DEF States
  <2> HIDE DEF r
  <2> QED  BY <1>1, <1>6, <2>2, ScannedStates DEF r
<1>7. CASE s.inString /\ ~s.escaped /\ token = Slash
  <2>1. r = [s EXCEPT !.escaped = TRUE]
    BY <1>7, ScannedStates
  <2>2. r.depth = s.depth /\ r.inString = s.inString /\ r.escaped = TRUE
    BY <2>1 DEF States
  <2> HIDE DEF r
  <2> QED  BY <1>1, <1>7, <2>2, ScannedStates DEF r
<1>8. CASE s.inString /\ ~s.escaped /\ token = Quote
  <2>1. r = [s EXCEPT !.inString = FALSE]
    BY <1>8, ScannedStates
  <2>2. r.depth = s.depth /\ r.inString = FALSE /\ r.escaped = s.escaped
    BY <2>1 DEF States
  <2> HIDE DEF r
  <2> QED  BY <1>1, <1>8, <2>2, ScannedStates DEF r
<1>9. CASE s.inString /\ ~s.escaped /\ token \notin {Slash, Quote}
  BY <1>1, <1>9, ScannedStates
<1> QED  BY <1>1, <1>2, <1>3, <1>4, <1>5, <1>6, <1>7, <1>8, <1>9

\* The recursion of Scan has a solution: a state after each token.
LEMMA ScanIsDefined ==
    ASSUME NEW t \in Seq(Tokens), NEW start \in 1 .. Len(t) + 1
    PROVE  /\ Scan(t, start) \in [start - 1 .. Len(t) -> States]
           /\ Scan(t, start) = [i \in start - 1 .. Len(t) |->
                  IF i < start THEN Outside ELSE Scanned(Scan(t, start)[i - 1], t[i])]
<1> DEFINE D == start - 1 .. Len(t)
           Rule(f) == [i \in D |-> IF i < start THEN Outside ELSE Scanned(f[i - 1], t[i])]
           F == [f \in [D -> States] |-> Rule(f)]
           size == [i \in D |-> i - (start - 1)]
           f0 == [i \in D |-> Outside]
<1>1. ASSUME NEW f \in [D -> States]
      PROVE  Rule(f) \in [D -> States]
  <2>1. ASSUME NEW i \in D, ~(i < start)
        PROVE  f[i - 1] \in States
    <3>1. i - 1 \in D
      BY <2>1
    <3> QED  BY <3>1
  <2>2. \A s \in States : \A token : Scanned(s, token) \in States
    BY ScannedStates
  <2>3. Outside \in States
    BY DEF Outside, States
  <2> QED  BY <2>1, <2>2, <2>3
<1>2. Len(t) + 1 \in Nat /\ size \in [D -> 0 .. Len(t) + 1]
  OBVIOUS
<1>3. F \in [[D -> States] -> [D -> States]] /\ f0 \in [D -> States]
  BY <1>1 DEF Outside, States
<1>4. ASSUME NEW f \in [D -> States], NEW g \in [D -> States], NEW x \in D,
             \A y \in D : size[y] < size[x] => f[y] = g[y]
      PROVE  F[f][x] = F[g][x]
  <2>1. CASE ~(x < start)
    <3>1. x - 1 \in D /\ size[x - 1] < size[x]
      BY <2>1
    <3>2. f[x - 1] = g[x - 1]
      BY <1>4, <3>1
    <3> QED  BY <3>2
  <2>2. CASE x < start
    BY <2>2
  <2> QED  BY <2>1, <2>2
<1>5. \E f \in [D -> States] : f = F[f]
  <2>1. IsRecursion(F, D, States, size, Len(t) + 1)
    <3> HIDE DEF D, F, size
    <3> QED  BY <1>2, <1>3, <1>4 DEF IsRecursion
  <2> HIDE DEF D, F, size, f0
  <2> QED  BY <1>3, <2>1, RecursionHasOneSolution
<1>6. \E f : f = Rule(f)
  <2>1. PICK f \in [D -> States] : f = F[f]
    BY <1>5
  <2>2. f = Rule(f)
    BY <2>1
  <2> QED  BY <2>2
<1>7. Scan(t, start) = Rule(Scan(t, start))
  BY <1>6, Zenon DEF Scan
<1>8. Scan(t, start) \in [D -> States]
  <2> DEFINE f == Scan(t, start)
             S == {n \in Nat : n + start - 1 \in D => f[n + start - 1] \in States}
  <2> HIDE DEF f
  <2>1. f = Rule(f)
    BY <1>7 DEF f
  <2>2. 0 \in S
    BY <2>1 DEF Outside, States
  <2>3. ASSUME NEW n \in Nat, n \in S
        PROVE  n + 1 \in S
    <3>1. CASE n + 1 + start - 1 \in D
      <4>1. n + start - 1 \in D /\ ~(n + 1 + start - 1 < start)
        BY <3>1
      <4>2. f[n + start - 1] \in States
        BY <2>3, <4>1
      <4>3. f[n + 1 + start - 1] = Scanned(f[n + start - 1], t[n + 1 + start - 1])
        BY <2>1, <3>1, <4>1
      <4>4. f[n + 1 + start - 1] \in States
        <5>1. \A s \in States : \A token : Scanned(s, token) \in States
          BY ScannedStates
        <5> QED  BY <4>2, <4>3, <5>1
      <4> QED  BY <4>4
    <3> QED  BY <3>1
  <2>4. Nat \subseteq S
    <3> HIDE DEF S
    <3> QED  BY <2>2, <2>3, SetInduction
  <2>5. ASSUME NEW i \in D
        PROVE  f[i] \in States
    <3>1. i - start + 1 \in Nat /\ i - start + 1 + start - 1 = i
      OBVIOUS
    <3>2. i - start + 1 \in S
      BY <2>4, <3>1
    <3> QED  BY <3>1, <3>2
  <2>6. f \in [D -> States]
    BY <2>1, <2>5
  <2> QED  BY <2>6 DEF f
<1> QED  BY <1>7, <1>8

\* A scan begins outside of all strings and braces and goes token by token.
LEMMA ScanSteps ==
    ASSUME NEW t \in Seq(Tokens), NEW i \in 1 .. Len(t) + 1
    PROVE  /\ Scan(t, i)[i - 1] = Outside
           /\ \A k \in i - 1 .. Len(t) : Scan(t, i)[k] \in States
           /\ \A k \in i .. Len(t) :
                  /\ Scan(t, i)[k] = Scanned(Scan(t, i)[k - 1], t[k])
                  /\ Advances(Scan(t, i)[k - 1], t[k], Scan(t, i)[k])
<1> DEFINE f == Scan(t, i)
<1>1. /\ f \in [i - 1 .. Len(t) -> States]
      /\ f = [k \in i - 1 .. Len(t) |-> IF k < i THEN Outside ELSE Scanned(f[k - 1], t[k])]
  BY ScanIsDefined
<1> HIDE DEF f
<1>2. f[i - 1] = Outside
  BY <1>1
<1>3. ASSUME NEW k \in i .. Len(t)
      PROVE  f[k] = Scanned(f[k - 1], t[k]) /\ Advances(f[k - 1], t[k], f[k])
  <2>1. f[k] = Scanned(f[k - 1], t[k])
    BY <1>1
  <2>2. f[k - 1] \in States
    <3>1. k - 1 \in i - 1 .. Len(t)
      OBVIOUS
    <3> QED  BY <1>1, <3>1
  <2> QED  BY <2>1, <2>2, ScannedFields
<1> QED  BY <1>1, <1>2, <1>3 DEF f

\* Two states that differ in the depth only, by d.
Above(s, r, d) ==
    /\ s.depth = r.depth + d
    /\ s.inString <=> r.inString
    /\ s.escaped <=> r.escaped

\* A token keeps them so.
LEMMA ScannedAbove ==
    ASSUME NEW s \in States, NEW r \in States, NEW d \in Int, NEW token, Above(s, r, d)
    PROVE  Above(Scanned(s, token), Scanned(r, token), d)
<1> DEFINE v == Scanned(s, token)
           w == Scanned(r, token)
<1>1. Advances(s, token, v) /\ Advances(r, token, w)
  BY ScannedFields
<1>2. /\ s.depth = r.depth + d /\ s.depth \in Int /\ r.depth \in Int
      /\ s.inString <=> r.inString
      /\ s.escaped <=> r.escaped
  BY DEF Above, States
<1> HIDE DEF v, w
<1>3. (v.inString <=> w.inString) /\ (v.escaped <=> w.escaped)
  BY <1>1, <1>2 DEF Advances
<1>4. v.depth = w.depth + d
  <2>1. CASE s.inString \/ token \notin {Open, Close}
    <3>1. v.depth = s.depth /\ w.depth = r.depth
      BY <1>1, <1>2, <2>1 DEF Advances
    <3> QED  BY <1>2, <3>1
  <2>2. CASE ~s.inString /\ token = Open
    <3>1. v.depth = s.depth + 1 /\ w.depth = r.depth + 1
      BY <1>1, <1>2, <2>2 DEF Advances
    <3> QED  BY <1>2, <3>1
  <2>3. CASE ~s.inString /\ token = Close
    <3>1. v.depth = s.depth - 1 /\ w.depth = r.depth - 1
      BY <1>1, <1>2, <2>3 DEF Advances
    <3> QED  BY <1>2, <3>1
  <2> QED  BY <2>1, <2>2, <2>3
<1> QED  BY <1>3, <1>4 DEF Above, v, w

\* From a state outside of strings, at depth d, the same text gives the same states
\* as from its start, d above them: in the same sequence or in another one.
LEMMA ScansAgree ==
    ASSUME NEW t \in Seq(Tokens), NEW i \in 1 .. Len(t) + 1, NEW k \in i - 1 .. Len(t),
           NEW u \in Seq(Tokens), NEW p \in 1 .. Len(u) + 1,
           NEW N \in Nat, k + N <= Len(t), p - 1 + N <= Len(u),
           \A l \in 1 .. N : t[k + l] = u[p - 1 + l],
           NEW d \in Int, Above(Scan(t, i)[k], Outside, d)
    PROVE  \A n \in 0 .. N : Above(Scan(t, i)[k + n], Scan(u, p)[p - 1 + n], d)
<1> DEFINE S == {n \in Nat : n <= N => Above(Scan(t, i)[k + n], Scan(u, p)[p - 1 + n], d)}
<1>1. 0 \in S
  <2>1. Scan(u, p)[p - 1 + 0] = Outside /\ k + 0 = k
    BY ScanSteps
  <2> QED  BY <2>1
<1>2. ASSUME NEW n \in Nat, n \in S
      PROVE  n + 1 \in S
  <2> SUFFICES ASSUME n + 1 <= N
               PROVE  Above(Scan(t, i)[k + (n + 1)], Scan(u, p)[p - 1 + (n + 1)], d)
    OBVIOUS
  <2> DEFINE a == k + n
             b == p - 1 + n
  <2>1. /\ a \in i - 1 .. Len(t) /\ a + 1 \in i .. Len(t)
        /\ b \in p - 1 .. Len(u) /\ b + 1 \in p .. Len(u)
        /\ a + 1 - 1 = a /\ b + 1 - 1 = b
        /\ k + (n + 1) = a + 1 /\ p - 1 + (n + 1) = b + 1
    OBVIOUS
  <2>2. t[a + 1] = u[b + 1]
    <3>1. n + 1 \in 1 .. N
      OBVIOUS
    <3>2. t[k + (n + 1)] = u[p - 1 + (n + 1)]
      BY <3>1
    <3> HIDE DEF a, b
    <3> QED  BY <2>1, <3>2
  <2>3. Above(Scan(t, i)[a], Scan(u, p)[b], d)
    BY <1>2
  <2> HIDE DEF a, b
  <2>4. /\ Scan(t, i)[a] \in States /\ Scan(t, i)[a + 1] = Scanned(Scan(t, i)[a], t[a + 1])
        /\ Scan(u, p)[b] \in States /\ Scan(u, p)[b + 1] = Scanned(Scan(u, p)[b], u[b + 1])
    BY <2>1, ScanSteps
  <2>5. Above(Scan(t, i)[a + 1], Scan(u, p)[b + 1], d)
    BY <2>2, <2>3, <2>4, ScannedAbove
  <2> QED  BY <2>1, <2>5
<1>3. Nat \subseteq S
  <2> HIDE DEF S
  <2> QED  BY <1>1, <1>2, SetInduction
<1> QED  BY <1>3

-----------------------------------------------------------------------------
\* Strings.

\* The numbers of backslashes that may be counted back from k.
Slashes(t, i, k) == {n \in 0 .. k - i - 1 : \A m \in k - n .. k - 1 : t[m] = Slash}

\* There is a largest one, so Max of them is it.
LEMMA LongestRun ==
    ASSUME NEW t, NEW i \in Nat, NEW k \in Nat, i < k
    PROVE  \E n \in Slashes(t, i, k) : \A y \in Slashes(t, i, k) : y <= n
<1> DEFINE T == {k - n : n \in Slashes(t, i, k)}
<1>1. 0 \in Slashes(t, i, k)
  BY DEF Slashes
<1>2. T \in SUBSET Nat /\ T # {}
  <2>1. \A n \in Slashes(t, i, k) : k - n \in Nat
    BY DEF Slashes
  <2> QED  BY <1>1, <2>1
<1>3. Min(T) \in T /\ \A s \in T : Min(T) <= s
  <2> HIDE DEF T
  <2> QED  BY <1>2, MinIsSmallest
<1>4. PICK n \in Slashes(t, i, k) : \A s \in T : k - n <= s
  BY <1>3
<1>5. ASSUME NEW y \in Slashes(t, i, k)
      PROVE  y <= n
  <2>1. k - y \in T
    OBVIOUS
  <2>2. k - n <= k - y
    BY <1>4, <2>1
  <2>3. y \in Int /\ n \in Int
    BY DEF Slashes
  <2> HIDE DEF T
  <2> QED  BY <2>2, <2>3
<1> QED  BY <1>5

\* Max is an upper bound that is reached.
LEMMA MaxIs ==
    ASSUME NEW S \in SUBSET Int, NEW n \in S, \A y \in S : y <= n
    PROVE  Max(S) = n
<1>1. Max(S) \in S /\ \A y \in S : Max(S) >= y
  BY DEF Max
<1>2. Max(S) <= n /\ Max(S) >= n
  BY <1>1
<1>3. Max(S) \in Int /\ n \in Int
  BY <1>1
<1> QED  BY <1>2, <1>3

\* A token is escaped if the one before it is a backslash that is not: what the
\* scan's flag computes.
LEMMA EscapedSteps ==
    ASSUME NEW t, NEW i \in Nat, NEW k \in Nat, i < k
    PROVE  /\ ~Escaped(t, i, i + 1)
           /\ Escaped(t, i, k + 1) <=> t[k] = Slash /\ ~Escaped(t, i, k)
<1>1. \A j \in Nat : Slashes(t, i, j) \in SUBSET Int
  BY DEF Slashes
<1>2. \A j \in Nat : Escaped(t, i, j) <=> Max(Slashes(t, i, j)) % 2 = 1
  BY DEF Escaped, Slashes
<1>3. ~Escaped(t, i, i + 1)
  <2>1. Slashes(t, i, i + 1) = {0}
    BY DEF Slashes
  <2>2. Max(Slashes(t, i, i + 1)) = 0
    BY <2>1, MaxIs
  <2> QED  BY <1>2, <2>2
<1>4. CASE t[k] # Slash
  <2>1. Slashes(t, i, k + 1) = {0}
    <3>1. ASSUME NEW n \in Slashes(t, i, k + 1), n # 0
          PROVE  FALSE
      <4>1. k \in k + 1 - n .. k + 1 - 1
        BY <3>1 DEF Slashes
      <4> QED  BY <1>4, <4>1 DEF Slashes
    <3>2. 0 \in Slashes(t, i, k + 1)
      BY DEF Slashes
    <3> QED  BY <3>1, <3>2
  <2>2. Max(Slashes(t, i, k + 1)) = 0
    BY <2>1, MaxIs
  <2>3. ~Escaped(t, i, k + 1)
    BY <1>2, <2>2
  <2> QED  BY <1>3, <1>4, <2>3
<1>5. CASE t[k] = Slash
  <2>1. PICK n \in Slashes(t, i, k) : \A y \in Slashes(t, i, k) : y <= n
    BY LongestRun
  <2>2. Max(Slashes(t, i, k)) = n
    BY <1>1, <2>1, MaxIs
  <2>3. n + 1 \in Slashes(t, i, k + 1)
    <3>1. n \in 0 .. k - i - 1 /\ \A m \in k - n .. k - 1 : t[m] = Slash
      BY DEF Slashes
    <3>2. \A m \in k + 1 - (n + 1) .. k + 1 - 1 : m = k \/ m \in k - n .. k - 1
      BY <3>1
    <3>3. n + 1 \in 0 .. k + 1 - i - 1
      BY <3>1
    <3> QED  BY <1>5, <3>1, <3>2, <3>3 DEF Slashes
  <2>4. ASSUME NEW y \in Slashes(t, i, k + 1)
        PROVE  y <= n + 1
    <3>1. y \in 0 .. k + 1 - i - 1 /\ \A m \in k + 1 - y .. k + 1 - 1 : t[m] = Slash
      BY DEF Slashes
    <3>2. n \in Nat
      BY DEF Slashes
    <3>3. CASE y = 0
      BY <3>2, <3>3
    <3>4. CASE y # 0
      <4>1. y - 1 \in 0 .. k - i - 1
        BY <3>1, <3>4
      <4>2. \A m \in k - (y - 1) .. k - 1 : m \in k + 1 - y .. k + 1 - 1
        BY <3>1
      <4>3. y - 1 \in Slashes(t, i, k)
        BY <3>1, <4>1, <4>2 DEF Slashes
      <4>4. y - 1 <= n
        BY <2>1, <4>3
      <4> QED  BY <3>1, <3>2, <4>4
    <3> QED  BY <3>3, <3>4
  <2>5. Max(Slashes(t, i, k + 1)) = n + 1
    <3>1. k + 1 \in Nat
      OBVIOUS
    <3> QED  BY <1>1, <2>3, <2>4, <3>1, MaxIs
  <2>6. n \in Nat
    BY DEF Slashes
  <2>7. (n + 1) % 2 = 1 <=> ~(n % 2 = 1)
    BY <2>6
  <2> QED  BY <1>2, <1>3, <1>5, <2>2, <2>5, <2>7
<1> QED  BY <1>4, <1>5

\* Outside of strings, at depth d.
AtDepth(s, d) == Above(s, Outside, d)

\* The same, field by field.
LEMMA AtDepthFields ==
    ASSUME NEW s \in States, NEW d \in Int
    PROVE  AtDepth(s, d) <=> s.depth = d /\ ~s.inString /\ ~s.escaped
<1>1. s.depth \in Int /\ s.inString \in BOOLEAN /\ s.escaped \in BOOLEAN
  BY DEF States
<1> QED  BY <1>1 DEF AtDepth, Above, Outside

\* What a token does outside of strings.
LEMMA Steps ==
    ASSUME NEW s \in States, NEW r \in States, NEW token, Advances(s, token, r),
           NEW d \in Int, AtDepth(s, d)
    PROVE  /\ token = Open => AtDepth(r, d + 1)
           /\ token = Close => AtDepth(r, d - 1)
           /\ token = Quote => r.inString /\ ~r.escaped /\ r.depth = d
           /\ token \notin {Open, Close, Quote} => AtDepth(r, d)
<1> USE DEF Open, Close, Quote, Slash
<1>1. s.depth = d /\ ~s.inString /\ ~s.escaped
  BY AtDepthFields
<1>2. ~r.escaped
  BY <1>1 DEF Advances
<1>3. r.inString <=> token = Quote
  BY <1>1 DEF Advances
<1>4. /\ token = Open => r.depth = d + 1
      /\ token = Close => r.depth = d - 1
      /\ token \notin {Open, Close} => r.depth = d
  BY <1>1 DEF Advances
<1>5. CASE token = Open
  <2>1. AtDepth(r, d + 1)
    <3>1. d + 1 \in Int
      OBVIOUS
    <3>2. r.depth = d + 1
      BY <1>4, <1>5
    <3>3. token # Quote
      BY <1>5
    <3> QED  BY <1>2, <1>3, <3>1, <3>2, <3>3, AtDepthFields
  <2> QED  BY <1>5, <2>1
<1>6. CASE token = Close
  <2>1. AtDepth(r, d - 1)
    <3>1. d - 1 \in Int
      OBVIOUS
    <3>2. r.depth = d - 1
      BY <1>4, <1>6
    <3>3. token # Quote
      BY <1>6
    <3> QED  BY <1>2, <1>3, <3>1, <3>2, <3>3, AtDepthFields
  <2> QED  BY <1>6, <2>1
<1>7. CASE token = Quote
  BY <1>2, <1>3, <1>4, <1>7
<1>8. CASE token \notin {Open, Close, Quote}
  BY <1>2, <1>3, <1>4, <1>8, AtDepthFields
<1> QED  BY <1>5, <1>6, <1>7, <1>8

\* Only in a string is anything escaped.
LEMMA EscapedInStrings ==
    ASSUME NEW t \in Seq(Tokens), NEW i \in 1 .. Len(t) + 1, NEW k \in i - 1 .. Len(t)
    PROVE  Scan(t, i)[k].escaped => Scan(t, i)[k].inString
<1> DEFINE S == {n \in Nat : n + i - 1 <= Len(t) =>
                     (Scan(t, i)[n + i - 1].escaped => Scan(t, i)[n + i - 1].inString)}
<1>1. 0 \in S
  <2>1. Scan(t, i)[0 + i - 1] = Outside
    BY ScanSteps
  <2> QED  BY <2>1 DEF Outside
<1>2. ASSUME NEW n \in Nat, n \in S
      PROVE  n + 1 \in S
  <2> SUFFICES ASSUME n + 1 + i - 1 <= Len(t)
               PROVE  Scan(t, i)[n + 1 + i - 1].escaped => Scan(t, i)[n + 1 + i - 1].inString
    OBVIOUS
  <2> DEFINE a == n + i - 1
  <2>1. a \in i - 1 .. Len(t) /\ a + 1 \in i .. Len(t) /\ n + 1 + i - 1 = a + 1 /\ a + 1 - 1 = a
    OBVIOUS
  <2>2. Scan(t, i)[a].escaped => Scan(t, i)[a].inString
    BY <1>2
  <2> HIDE DEF a, S
  <2>3. /\ Scan(t, i)[a] \in States /\ Scan(t, i)[a + 1] \in States
        /\ Advances(Scan(t, i)[a], t[a + 1], Scan(t, i)[a + 1])
    BY <2>1, ScanSteps
  <2>4. Scan(t, i)[a + 1].escaped => Scan(t, i)[a + 1].inString
    BY <2>2, <2>3 DEF Advances, Open, Close, Quote, Slash
  <2> QED  BY <2>1, <2>4
<1>3. Nat \subseteq S
  <2> HIDE DEF S
  <2> QED  BY <1>1, <1>2, SetInduction
<1>4. k - i + 1 \in S /\ k - i + 1 + i - 1 = k
  <2>1. k - i + 1 \in Nat
    OBVIOUS
  <2> HIDE DEF S
  <2> QED  BY <1>3, <2>1
<1> QED  BY <1>4

\* From a quote on the scan is in a string as long as the quotes are escaped, and
\* its flag is whether the next token is.
LEMMA ScanInString ==
    ASSUME NEW t \in Seq(Tokens), NEW i \in 1 .. Len(t), t[i] = Quote, NEW k \in i .. Len(t),
           \A m \in i + 1 .. k : t[m] = Quote => Escaped(t, i, m)
    PROVE  /\ Scan(t, i)[k].inString /\ Scan(t, i)[k].depth = 0
           /\ Scan(t, i)[k].escaped <=> Escaped(t, i, k + 1)
<1> DEFINE Good(m) == /\ Scan(t, i)[m].inString /\ Scan(t, i)[m].depth = 0
                      /\ Scan(t, i)[m].escaped <=> Escaped(t, i, m + 1)
           S == {n \in Nat : n + i <= k => Good(n + i)}
<1>0. i \in 1 .. Len(t) + 1 /\ i \in Nat
  OBVIOUS
<1>1. 0 \in S
  <2>1. Scan(t, i)[i - 1] = Outside /\ Advances(Outside, t[i], Scan(t, i)[i])
    <3>1. i \in i .. Len(t)
      OBVIOUS
    <3> QED  BY <1>0, <3>1, ScanSteps
  <2>2. Outside \in States /\ Outside.depth = 0 /\ ~Outside.inString /\ ~Outside.escaped
    BY DEF States, Outside
  <2>3. Scan(t, i)[i].inString /\ Scan(t, i)[i].depth = 0 /\ ~Scan(t, i)[i].escaped
    BY <2>1, <2>2 DEF Advances, Open, Close, Quote, Slash
  <2>4. ~Escaped(t, i, i + 1)
    <3>1. i + 1 \in Nat /\ i < i + 1
      BY <1>0
    <3> QED  BY <1>0, <3>1, EscapedSteps
  <2>5. Good(i)
    BY <2>3, <2>4
  <2>6. 0 + i = i
    OBVIOUS
  <2> HIDE DEF Good
  <2> QED  BY <2>5, <2>6
<1>2. ASSUME NEW n \in Nat, n \in S
      PROVE  n + 1 \in S
  <2> SUFFICES ASSUME n + 1 + i <= k
               PROVE  Good(n + 1 + i)
    OBVIOUS
  <2> DEFINE a == n + i
  <2>1. a \in i - 1 .. Len(t) /\ a + 1 \in i .. Len(t) /\ n + 1 + i = a + 1 /\ a + 1 - 1 = a
        /\ a \in Nat /\ a + 1 \in Nat /\ i < a + 1 /\ a + 1 \in i + 1 .. k
    OBVIOUS
  <2>2. Good(a)
    BY <1>2
  <2> HIDE DEF a, S
  <2>3. /\ Scan(t, i)[a] \in States /\ Scan(t, i)[a + 1] \in States
        /\ Advances(Scan(t, i)[a], t[a + 1], Scan(t, i)[a + 1])
    BY <1>0, <2>1, ScanSteps
  <2>4. t[a + 1] = Quote => Escaped(t, i, a + 1)
    BY <2>1
  <2>5. Escaped(t, i, a + 1 + 1) <=> t[a + 1] = Slash /\ ~Escaped(t, i, a + 1)
    BY <1>0, <2>1, EscapedSteps
  <2>6. Good(a + 1)
    BY <2>2, <2>3, <2>4, <2>5 DEF Advances, Open, Close, Quote, Slash
  <2> QED  BY <2>1, <2>6
<1>3. Nat \subseteq S
  <2> HIDE DEF S
  <2> QED  BY <1>1, <1>2, SetInduction
<1>4. k - i \in Nat /\ k - i + i = k
  OBVIOUS
<1>5. Good(k)
  <2>1. k - i \in S
    BY <1>3, <1>4
  <2> HIDE DEF Good
  <2> QED  BY <1>4, <2>1
<1> QED  BY <1>5

\* A string is where the scan from its first quote is in a string until its last.
LEMMA StringsAreScanned ==
    ASSUME NEW t \in Seq(Tokens), NEW i \in 1 .. Len(t), NEW j \in i + 1 .. Len(t), t[i] = Quote
    PROVE  /\ IsString(t, i, j) =>
                  AtDepth(Scan(t, i)[j], 0) /\ \A m \in i .. j : Scan(t, i)[m].depth = 0
           /\ (\A m \in i .. j - 1 : Scan(t, i)[m].inString) /\ ~Scan(t, i)[j].inString =>
                  IsString(t, i, j)
<1>0. i \in 1 .. Len(t) + 1 /\ i \in Nat /\ j \in Nat /\ i < j /\ j \in i .. Len(t)
      /\ j - 1 \in i .. Len(t) /\ j - 1 + 1 = j /\ j - 1 \in i - 1 .. Len(t)
      /\ j \in i - 1 .. Len(t)
  OBVIOUS
<1>1. /\ Scan(t, i)[j - 1] \in States /\ Scan(t, i)[j] \in States
      /\ Advances(Scan(t, i)[j - 1], t[j], Scan(t, i)[j])
  BY <1>0, ScanSteps
<1>2. ASSUME IsString(t, i, j)
      PROVE  AtDepth(Scan(t, i)[j], 0) /\ \A m \in i .. j : Scan(t, i)[m].depth = 0
  <2>1. /\ t[j] = Quote /\ ~Escaped(t, i, j)
        /\ \A m \in i + 1 .. j - 1 : t[m] = Quote => Escaped(t, i, m)
    BY <1>2 DEF IsString
  <2>2. Scan(t, i)[j - 1].inString /\ Scan(t, i)[j - 1].depth = 0 /\ ~Scan(t, i)[j - 1].escaped
    BY <1>0, <2>1, ScanInString
  <2>3. ~Scan(t, i)[j].inString /\ Scan(t, i)[j].depth = 0 /\ ~Scan(t, i)[j].escaped
    BY <1>1, <2>1, <2>2 DEF Advances, Open, Close, Quote, Slash
  <2>4. ASSUME NEW m \in i .. j - 1
        PROVE  Scan(t, i)[m].depth = 0
    <3>1. m \in i .. Len(t) /\ \A l \in i + 1 .. m : l \in i + 1 .. j - 1
      OBVIOUS
    <3> QED  BY <2>1, <3>1, ScanInString
  <2>5. \A m \in i .. j : m \in i .. j - 1 \/ m = j
    OBVIOUS
  <2> QED  BY <1>1, <2>3, <2>4, <2>5, AtDepthFields
<1>3. ASSUME \A m \in i .. j - 1 : Scan(t, i)[m].inString, ~Scan(t, i)[j].inString
      PROVE  IsString(t, i, j)
  <2> DEFINE T == {m \in i + 1 .. j - 1 : t[m] = Quote /\ ~Escaped(t, i, m)}
  <2>1. ASSUME T # {} PROVE FALSE
    <3>1. T \in SUBSET Nat
      OBVIOUS
    <3>2. Min(T) \in T /\ \A m \in T : Min(T) <= m
      <4> HIDE DEF T
      <4> QED  BY <2>1, <3>1, MinIsSmallest
    <3>3. PICK m \in i + 1 .. j - 1 : /\ t[m] = Quote /\ ~Escaped(t, i, m)
                                      /\ \A l \in T : m <= l
      BY <3>2
    <3>4. m - 1 \in i .. Len(t) /\ m - 1 + 1 = m /\ m \in i .. Len(t) /\ m \in i .. j - 1
      BY <3>3
    <3>5. \A l \in i + 1 .. m - 1 : t[l] = Quote => Escaped(t, i, l)
      <4> TAKE l \in i + 1 .. m - 1
      <4>1. l \in i + 1 .. j - 1 /\ ~(m <= l)
        OBVIOUS
      <4> QED  BY <3>3, <4>1
    <3>6. Scan(t, i)[m - 1].inString /\ ~Scan(t, i)[m - 1].escaped
      BY <3>3, <3>4, <3>5, ScanInString
    <3>7. Scan(t, i)[m - 1] \in States /\ Advances(Scan(t, i)[m - 1], t[m], Scan(t, i)[m])
      <4>1. m - 1 \in i - 1 .. Len(t)
        BY <3>4
      <4> QED  BY <1>0, <3>4, <4>1, ScanSteps
    <3>8. ~Scan(t, i)[m].inString
      BY <3>3, <3>6, <3>7 DEF Advances
    <3> QED  BY <1>3, <3>4, <3>8
  <2>2. \A m \in i + 1 .. j - 1 : t[m] = Quote => Escaped(t, i, m)
    BY <2>1
  <2>3. Scan(t, i)[j - 1].inString /\ (Scan(t, i)[j - 1].escaped <=> Escaped(t, i, j))
    BY <1>0, <2>2, ScanInString
  <2>4. t[j] = Quote /\ ~Escaped(t, i, j)
    BY <1>1, <1>3, <2>3 DEF Advances
  <2> QED  BY <1>0, <2>2, <2>4 DEF IsString
<1> QED  BY <1>2, <1>3

-----------------------------------------------------------------------------
\* The grammar of balanced objects.

\* What the scan says of a body and of an object.
Body(t, i, j) ==
    i <= j => AtDepth(Scan(t, i)[j], 0) /\ \A m \in i .. j : Scan(t, i)[m].depth >= 0
Object(t, i, j) == i < j /\ t[i] = Open /\ t[j] = Close /\ Body(t, i + 1, j - 1)

\* From where a scan is outside of strings it goes on like one that begins there.
LEMMA ScanGoesOn ==
    ASSUME NEW t \in Seq(Tokens), NEW i \in 1 .. Len(t), NEW k \in i .. Len(t),
           NEW d \in Int, AtDepth(Scan(t, i)[k], d)
    PROVE  \A m \in k .. Len(t) : Above(Scan(t, i)[m], Scan(t, k + 1)[m], d)
<1> DEFINE N == Len(t) - k
           p == k + 1
<1>1. /\ i \in 1 .. Len(t) + 1 /\ k \in i - 1 .. Len(t) /\ p \in 1 .. Len(t) + 1
      /\ N \in Nat /\ k + N <= Len(t) /\ p - 1 + N <= Len(t)
      /\ \A l \in 1 .. N : t[k + l] = t[p - 1 + l]
  OBVIOUS
<1>2. \A n \in 0 .. N : Above(Scan(t, i)[k + n], Scan(t, p)[p - 1 + n], d)
  <2>1. Above(Scan(t, i)[k], Outside, d)
    BY DEF AtDepth
  <2> HIDE DEF N, p
  <2> QED  BY <1>1, <2>1, ScansAgree
<1>3. ASSUME NEW m \in k .. Len(t)
      PROVE  Above(Scan(t, i)[m], Scan(t, k + 1)[m], d)
  <2>1. m - k \in 0 .. N /\ k + (m - k) = m /\ p - 1 + (m - k) = m
    OBVIOUS
  <2>2. Above(Scan(t, i)[k + (m - k)], Scan(t, p)[p - 1 + (m - k)], d)
    BY <1>2, <2>1
  <2> QED  BY <2>1, <2>2
<1> QED  BY <1>3

\* What is put before a body: a token, a string or an object.
LEMMA BodiesJoin ==
    ASSUME NEW t \in Seq(Tokens), NEW i \in 1 .. Len(t), NEW k \in i .. Len(t),
           AtDepth(Scan(t, i)[k], 0), \A m \in i .. k : Scan(t, i)[m].depth >= 0,
           NEW j \in k .. Len(t)
    PROVE  Body(t, i, j) <=> Body(t, k + 1, j)
<1>0. /\ i \in 1 .. Len(t) + 1 /\ k + 1 \in 1 .. Len(t) + 1
      /\ \A m \in i .. j : m \in i - 1 .. Len(t)
      /\ \A m \in k .. j : m \in k + 1 - 1 .. Len(t)
      /\ j \in i .. j /\ j \in k .. j
  OBVIOUS
<1>1. /\ \A m \in i .. j : Scan(t, i)[m] \in States
      /\ \A m \in k .. j : Scan(t, k + 1)[m] \in States
  <2>1. \A m \in i - 1 .. Len(t) : Scan(t, i)[m] \in States
    BY <1>0, ScanSteps
  <2>2. \A m \in k + 1 - 1 .. Len(t) : Scan(t, k + 1)[m] \in States
    BY <1>0, ScanSteps
  <2> QED  BY <1>0, <2>1, <2>2
<1>2. \A m \in k .. j : Above(Scan(t, i)[m], Scan(t, k + 1)[m], 0)
  <2>1. \A m \in k .. j : m \in k .. Len(t)
    OBVIOUS
  <2> QED  BY <2>1, ScanGoesOn
<1>3. \A m \in k .. j : Scan(t, i)[m].depth = Scan(t, k + 1)[m].depth
  <2>1. \A m \in k .. j : Scan(t, k + 1)[m].depth \in Int
    BY <1>1 DEF States
  <2> QED  BY <1>2, <2>1 DEF Above
<1>4. AtDepth(Scan(t, i)[j], 0) <=> AtDepth(Scan(t, k + 1)[j], 0)
  BY <1>0, <1>1, <1>2, <1>3, AtDepthFields DEF Above
<1>5. CASE k = j
  BY <1>5 DEF Body
<1>6. CASE k < j
  <2>1. (\A m \in i .. j : Scan(t, i)[m].depth >= 0)
            <=> (\A m \in k + 1 .. j : Scan(t, k + 1)[m].depth >= 0)
    <3>1. \A m \in i .. j : m \in i .. k \/ m \in k + 1 .. j
      OBVIOUS
    <3>2. \A m \in k + 1 .. j : m \in i .. j /\ m \in k .. j
      OBVIOUS
    <3> QED  BY <1>3, <3>1, <3>2
  <2>2. ~(i > j) /\ ~(k + 1 > j)
    BY <1>6
  <2> QED  BY <1>4, <2>1, <2>2 DEF Body
<1> QED  BY <1>5, <1>6

\* An object is where the scan from its brace comes back to depth 0.
LEMMA ObjectsAreScanned ==
    ASSUME NEW t \in Seq(Tokens), NEW i \in 1 .. Len(t), NEW j \in i + 1 .. Len(t), t[i] = Open
    PROVE  /\ AtDepth(Scan(t, i)[i], 1)
           /\ Object(t, i, j) =>
                  /\ AtDepth(Scan(t, i)[j], 0)
                  /\ \A m \in i .. j - 1 : Scan(t, i)[m].depth >= 1
           /\ /\ Scan(t, i)[j].depth = 0
              /\ \A m \in i .. j - 1 : Scan(t, i)[m].depth >= 1
              => Object(t, i, j)
<1>0. /\ i \in 1 .. Len(t) + 1 /\ i + 1 \in 1 .. Len(t) + 1
      /\ \A m \in i - 1 .. j : m \in i - 1 .. Len(t)
      /\ \A m \in i .. j : m \in i + 1 - 1 .. Len(t) /\ m \in i .. Len(t) /\ m \in i - 1 .. j
      /\ j \in i .. j /\ j - 1 \in i .. j /\ i \in i .. Len(t) /\ i - 1 \in i - 1 .. j
  OBVIOUS
<1>1. /\ \A m \in i - 1 .. j : Scan(t, i)[m] \in States
      /\ \A m \in i .. j : Scan(t, i + 1)[m] \in States
  <2>1. \A m \in i - 1 .. Len(t) : Scan(t, i)[m] \in States
    BY <1>0, ScanSteps
  <2>2. \A m \in i + 1 - 1 .. Len(t) : Scan(t, i + 1)[m] \in States
    BY <1>0, ScanSteps
  <2> QED  BY <1>0, <2>1, <2>2
<1>2. AtDepth(Scan(t, i)[i], 1)
  <2>1. Outside \in States /\ AtDepth(Outside, 0)
    BY DEF States, Outside, AtDepth, Above
  <2>2. Advances(Outside, Open, Scan(t, i)[i])
    BY <1>0, ScanSteps
  <2>3. Scan(t, i)[i] \in States
    BY <1>0, <1>1
  <2>4. AtDepth(Scan(t, i)[i], 0 + 1)
    BY <2>1, <2>2, <2>3, Steps
  <2> QED  BY <2>4
<1>3. \A m \in i .. j : Above(Scan(t, i)[m], Scan(t, i + 1)[m], 1)
  BY <1>0, <1>2, ScanGoesOn
<1>4. \A m \in i .. j : /\ Scan(t, i)[m].depth = Scan(t, i + 1)[m].depth + 1
                        /\ Scan(t, i)[m].depth \in Int /\ Scan(t, i + 1)[m].depth \in Int
  BY <1>0, <1>1, <1>3 DEF Above, States
<1>5. AtDepth(Scan(t, i)[j - 1], 1) <=> AtDepth(Scan(t, i + 1)[j - 1], 0)
  <2>1. /\ Scan(t, i)[j - 1] \in States /\ Scan(t, i + 1)[j - 1] \in States
        /\ Above(Scan(t, i)[j - 1], Scan(t, i + 1)[j - 1], 1)
    BY <1>0, <1>1, <1>3
  <2>2. /\ Scan(t, i)[j - 1].depth = Scan(t, i + 1)[j - 1].depth + 1
        /\ Scan(t, i)[j - 1].depth \in Int /\ Scan(t, i + 1)[j - 1].depth \in Int
    BY <1>0, <1>4
  <2>3. Scan(t, i)[j - 1].depth = 1 <=> Scan(t, i + 1)[j - 1].depth = 0
    BY <2>2
  <2> QED  BY <2>1, <2>3, AtDepthFields DEF Above
<1>6. Advances(Scan(t, i)[j - 1], t[j], Scan(t, i)[j])
  BY <1>0, ScanSteps
<1>7. /\ Scan(t, i)[j - 1] \in States /\ Scan(t, i)[j] \in States
      /\ Scan(t, i)[j - 1].depth \in Int /\ Scan(t, i)[j].depth \in Int
  BY <1>0, <1>1 DEF States
<1>8. ASSUME Object(t, i, j)
      PROVE  /\ AtDepth(Scan(t, i)[j], 0)
             /\ \A m \in i .. j - 1 : Scan(t, i)[m].depth >= 1
  <2>1. AtDepth(Scan(t, i)[j - 1], 1)
    <3>1. CASE i + 1 = j
      BY <1>2, <3>1
    <3>2. CASE i + 1 < j
      <4>1. ~(i + 1 > j - 1)
        BY <3>2
      <4> QED  BY <1>5, <1>8, <4>1 DEF Object, Body
    <3> QED  BY <3>1, <3>2
  <2>3. t[j] = Close
    BY <1>8 DEF Object
  <2>4. AtDepth(Scan(t, i)[j], 1 - 1)
    BY <1>6, <1>7, <2>1, <2>3, Steps
  <2>5. ASSUME NEW m \in i .. j - 1
        PROVE  Scan(t, i)[m].depth >= 1
    <3>1. CASE m = i
      <4>1. Scan(t, i)[i].depth = 1
        BY <1>0, <1>1, <1>2, AtDepthFields
      <4> QED  BY <3>1, <4>1
    <3>2. CASE m # i
      <4>1. m \in i + 1 .. j - 1 /\ m \in i .. j /\ ~(i + 1 > j - 1)
        BY <3>2
      <4>2. Scan(t, i + 1)[m].depth >= 0
        BY <1>8, <4>1 DEF Object, Body
      <4> QED  BY <1>4, <4>1, <4>2
    <3> QED  BY <3>1, <3>2
  <2> QED  BY <2>4, <2>5
<1>9. ASSUME Scan(t, i)[j].depth = 0, \A m \in i .. j - 1 : Scan(t, i)[m].depth >= 1
      PROVE  Object(t, i, j)
  <2>1. Scan(t, i)[j - 1].depth >= 1
    <3>1. j - 1 \in i .. j - 1
      OBVIOUS
    <3> QED  BY <1>9, <3>1
  <2>2. ~Scan(t, i)[j - 1].inString /\ t[j] = Close /\ Scan(t, i)[j - 1].depth = 1
    BY <1>6, <1>7, <1>9, <2>1 DEF Advances
  <2>3. ~Scan(t, i)[j - 1].escaped
    <3>1. j - 1 \in i - 1 .. Len(t)
      OBVIOUS
    <3> QED  BY <1>0, <2>2, <3>1, EscapedInStrings
  <2>4. AtDepth(Scan(t, i + 1)[j - 1], 0)
    BY <1>5, <1>7, <2>2, <2>3, AtDepthFields
  <2>5. ASSUME NEW m \in i + 1 .. j - 1
        PROVE  Scan(t, i + 1)[m].depth >= 0
    <3>1. m \in i .. j - 1 /\ m \in i .. j
      OBVIOUS
    <3> QED  BY <1>4, <1>9, <3>1
  <2> QED  BY <2>2, <2>4, <2>5 DEF Object, Body
<1> QED  BY <1>2, <1>8, <1>9

\* A body is empty or begins with a token, a string or an object, and a body
\* comes after that.
LEMMA BodyEquation ==
    ASSUME NEW t \in Seq(Tokens), NEW i \in 1 .. Len(t), NEW j \in i .. Len(t)
    PROVE  Body(t, i, j) <=>
               \/ t[i] \notin {Open, Close, Quote} /\ Body(t, i + 1, j)
               \/ \E k \in i + 1 .. j :
                    (IsString(t, i, k) \/ Object(t, i, k)) /\ Body(t, k + 1, j)
<1> DEFINE s(m) == Scan(t, i)[m]
<1>0. /\ i \in 1 .. Len(t) + 1 /\ i \in i .. Len(t) /\ j \in i .. j /\ i \in i .. j
      /\ \A k \in i + 1 .. j : k \in i + 1 .. Len(t) /\ k \in i .. Len(t) /\ j \in k .. Len(t)
  OBVIOUS
<1>1. /\ s(i) \in States
      /\ t[i] = Open => AtDepth(s(i), 1)
      /\ t[i] = Close => AtDepth(s(i), -1)
      /\ t[i] = Quote => s(i).inString
      /\ t[i] \notin {Open, Close, Quote} => AtDepth(s(i), 0)
  <2>1. Outside \in States /\ AtDepth(Outside, 0)
    BY DEF States, Outside, AtDepth, Above
  <2>2. Advances(Outside, t[i], s(i))
    BY <1>0, ScanSteps
  <2>3. s(i) \in States
    <3>1. i \in i - 1 .. Len(t)
      OBVIOUS
    <3> QED  BY <1>0, <3>1, ScanSteps
  <2> HIDE DEF s
  <2>4. /\ t[i] = Open => AtDepth(s(i), 0 + 1)
        /\ t[i] = Close => AtDepth(s(i), 0 - 1)
        /\ t[i] = Quote => s(i).inString
        /\ t[i] \notin {Open, Close, Quote} => AtDepth(s(i), 0)
    BY <2>1, <2>2, <2>3, Steps
  <2> QED  BY <2>3, <2>4
<1>2. ASSUME t[i] \notin {Open, Close, Quote}
      PROVE  Body(t, i, j) <=> Body(t, i + 1, j)
  <2>1. AtDepth(s(i), 0)
    BY <1>1, <1>2
  <2>2. \A m \in i .. i : s(m).depth >= 0
    <3>1. s(i).depth = 0
      BY <1>1, <2>1, AtDepthFields
    <3>2. \A m \in i .. i : m = i
      OBVIOUS
    <3> QED  BY <3>1, <3>2
  <2> QED  BY <1>0, <2>1, <2>2, BodiesJoin
<1>3. ASSUME NEW k \in i + 1 .. j, IsString(t, i, k)
      PROVE  Body(t, i, j) <=> Body(t, k + 1, j)
  <2>1. t[i] = Quote
    BY <1>3 DEF IsString
  <2>2. AtDepth(s(k), 0) /\ \A m \in i .. k : s(m).depth = 0
    BY <1>0, <1>3, <2>1, StringsAreScanned
  <2>3. \A m \in i .. k : s(m).depth >= 0
    BY <2>2
  <2> QED  BY <1>0, <2>2, <2>3, BodiesJoin
<1>4. ASSUME NEW k \in i + 1 .. j, Object(t, i, k)
      PROVE  Body(t, i, j) <=> Body(t, k + 1, j)
  <2>1. t[i] = Open
    BY <1>4 DEF Object
  <2>2. AtDepth(s(k), 0) /\ \A m \in i .. k - 1 : s(m).depth >= 1
    BY <1>0, <1>4, <2>1, ObjectsAreScanned
  <2>3. \A m \in i .. k : s(m).depth >= 0
    <3>1. s(k).depth = 0
      <4>1. k \in i - 1 .. Len(t)
        OBVIOUS
      <4>2. s(k) \in States
        BY <1>0, <4>1, ScanSteps
      <4> QED  BY <2>2, <4>2, AtDepthFields
    <3>2. \A m \in i .. k : m = k \/ m \in i .. k - 1
      OBVIOUS
    <3>3. \A m \in i - 1 .. Len(t) : s(m).depth \in Int
      BY <1>0, ScanSteps DEF States
    <3>4. \A m \in i .. k : m \in i - 1 .. Len(t)
      OBVIOUS
    <3> HIDE DEF s
    <3> QED  BY <2>2, <3>1, <3>2, <3>3, <3>4
  <2> QED  BY <1>0, <2>2, <2>3, BodiesJoin
<1>5. ASSUME Body(t, i, j)
      PROVE  \/ t[i] \notin {Open, Close, Quote} /\ Body(t, i + 1, j)
             \/ \E k \in i + 1 .. j :
                  (IsString(t, i, k) \/ Object(t, i, k)) /\ Body(t, k + 1, j)
  <2>1. AtDepth(s(j), 0) /\ \A m \in i .. j : s(m).depth >= 0
    <3>1. i <= j
      OBVIOUS
    <3> QED  BY <1>5, <3>1 DEF Body
  <2>2. \A m \in i .. j : s(m) \in States
    <3>1. \A m \in i .. j : m \in i - 1 .. Len(t)
      OBVIOUS
    <3> QED  BY <1>0, <3>1, ScanSteps
  <2>3. s(j).depth = 0 /\ ~s(j).inString
    BY <1>0, <2>1, <2>2, AtDepthFields
  <2>4. \A T \in SUBSET (i .. j) : T # {} => \E k \in T : \A m \in T : k <= m
    <3> TAKE T \in SUBSET (i .. j)
    <3>1. T \in SUBSET Nat
      OBVIOUS
    <3> QED  BY <3>1, MinIsSmallest
  <2> HIDE DEF s
  <2>5. CASE t[i] \notin {Open, Close, Quote}
    BY <1>2, <1>5, <2>5
  <2>6. CASE t[i] = Close
    <3>1. s(i).depth = -1
      BY <1>1, <2>6, AtDepthFields
    <3> QED  BY <1>0, <2>1, <3>1
  <2>7. CASE t[i] = Quote
    <3> DEFINE T == {m \in i .. j : ~s(m).inString}
    <3>1. j \in T
      BY <1>0, <2>3
    <3>2. PICK k \in T : \A m \in T : k <= m
      BY <2>4, <3>1
    <3>3. k \in i + 1 .. j
      BY <1>1, <2>7, <3>2
    <3>4. ~s(k).inString /\ \A m \in i .. k - 1 : s(m).inString
      <4> SUFFICES ASSUME NEW m \in i .. k - 1 PROVE s(m).inString
        BY <3>2
      <4>1. m \in i .. j /\ ~(k <= m)
        BY <3>3
      <4> QED  BY <3>2, <4>1
    <3>5. IsString(t, i, k)
      BY <1>0, <2>7, <3>3, <3>4, StringsAreScanned DEF s
    <3> QED  BY <1>3, <1>5, <3>3, <3>5
  <2>8. CASE t[i] = Open
    <3> DEFINE T == {m \in i .. j : s(m).depth = 0}
    <3>1. j \in T
      BY <1>0, <2>3
    <3>2. PICK k \in T : \A m \in T : k <= m
      BY <2>4, <3>1
    <3>3. k \in i + 1 .. j
      <4>1. s(i).depth = 1
        BY <1>1, <2>8, AtDepthFields
      <4> QED  BY <3>2, <4>1
    <3>4. s(k).depth = 0 /\ \A m \in i .. k - 1 : s(m).depth >= 1
      <4> SUFFICES ASSUME NEW m \in i .. k - 1 PROVE s(m).depth >= 1
        BY <3>2
      <4>1. m \in i .. j /\ ~(k <= m)
        BY <3>3
      <4>2. s(m).depth # 0
        BY <3>2, <4>1
      <4>3. s(m).depth \in Int /\ s(m).depth >= 0
        BY <2>1, <2>2, <4>1 DEF States
      <4> QED  BY <4>2, <4>3
    <3>5. Object(t, i, k)
      BY <1>0, <2>8, <3>3, <3>4, ObjectsAreScanned DEF s
    <3> QED  BY <1>4, <1>5, <3>3, <3>5
  <2> QED  BY <2>5, <2>6, <2>7, <2>8
<1> QED  BY <1>2, <1>3, <1>4, <1>5

\* The parts of a span are of its kinds and within the text.
LEMMA SpanParts ==
    ASSUME NEW t \in Seq(Tokens), NEW kinds, NEW x \in Spans(t, kinds)
    PROVE  x[1] \in kinds /\ x[2] \in 1 .. Len(t) + 1 /\ x[3] \in 0 .. Len(t)
BY DEF Spans

\* The only derivations that obey the rule are those the scan of _find_json_object
\* finds, for any span of a reply.
LEMMA BalancedIsScanned ==
    ASSUME NEW t \in Seq(Tokens)
    PROVE  Balanced(t) = [x \in Spans(t, {"object", "body"}) |->
                             IF x[1] = "object" THEN Object(t, x[2], x[3])
                             ELSE Body(t, x[2], x[3])]
<1> DEFINE K == {"object", "body"}
           D == Spans(t, K)
           Rule(f) == [x \in D |-> BalancedRule(t, f, x[1], x[2], x[3])]
           F == [f \in [D -> BOOLEAN] |-> Rule(f)]
           size == [x \in D |-> 2 * (Len(t) + 1 + x[3] - x[2])
                                + (IF x[1] = "object" THEN 0 ELSE 1)]
           N == 4 * Len(t) + 4
           W == [x \in D |-> IF x[1] = "object" THEN Object(t, x[2], x[3])
                             ELSE Body(t, x[2], x[3])]
<1>1. ASSUME NEW f
      PROVE  Rule(f) \in [D -> BOOLEAN]
  <2>1. ASSUME NEW kind, NEW i, NEW j
        PROVE  BalancedRule(t, f, kind, i, j) \in BOOLEAN
    BY DEF BalancedRule
  <2> QED  BY <2>1
<1>2. W \in [D -> BOOLEAN]
  BY DEF Object, Body
<1>3. ASSUME NEW x \in D
      PROVE  W[x] = BalancedRule(t, W, x[1], x[2], x[3])
  <2> DEFINE i == x[2]
             j == x[3]
  <2>0. x[1] \in K /\ i \in 1 .. Len(t) + 1 /\ j \in 0 .. Len(t)
    BY SpanParts
  <2> HIDE DEF i, j
  <2>1. \A k \in 1 .. Len(t) + 1, m \in 0 .. Len(t) :
            /\ W[<<"object", k, m>>] = Object(t, k, m)
            /\ W[<<"body", k, m>>] = Body(t, k, m)
    <3> TAKE k \in 1 .. Len(t) + 1, m \in 0 .. Len(t)
    <3>1. <<"object", k, m>> \in D /\ <<"body", k, m>> \in D
      BY DEF Spans
    <3> HIDE DEF D
    <3> QED  BY <3>1
  <2>2. CASE x[1] = "object"
    <3>1. W[x] = Object(t, i, j)
      BY <2>2 DEF i, j
    <3>2. CASE i < j
      <4>1. W[<<"body", i + 1, j - 1>>] = Body(t, i + 1, j - 1)
        <5>1. i + 1 \in 1 .. Len(t) + 1 /\ j - 1 \in 0 .. Len(t)
          BY <2>0, <3>2
        <5> HIDE DEF W
        <5> QED  BY <2>1, <5>1
      <4> HIDE DEF W
      <4> QED  BY <2>2, <3>1, <3>2, <4>1 DEF BalancedRule, Object, i, j
    <3>3. CASE ~(i < j)
      <4> HIDE DEF W
      <4> QED  BY <2>2, <3>1, <3>3 DEF BalancedRule, Object, i, j
    <3> QED  BY <3>2, <3>3
  <2>3. CASE x[1] = "body"
    <3>1. W[x] = Body(t, i, j)
      BY <2>3 DEF i, j
    <3> HIDE DEF W
    <3>2. CASE i > j
      <4>1. ~(i <= j)
        BY <2>0, <3>2
      <4> QED  BY <2>3, <3>1, <3>2, <4>1 DEF BalancedRule, Body, i, j
    <3>3. CASE ~(i > j)
      <4>1. i \in 1 .. Len(t) /\ j \in i .. Len(t)
        BY <2>0, <3>3
      <4>2. W[<<"body", i + 1, j>>] = Body(t, i + 1, j)
        <5>1. i + 1 \in 1 .. Len(t) + 1
          BY <4>1
        <5> QED  BY <2>0, <2>1, <5>1
      <4>3. \A k \in i + 1 .. j : /\ W[<<"object", i, k>>] = Object(t, i, k)
                                  /\ W[<<"body", k + 1, j>>] = Body(t, k + 1, j)
        <5> TAKE k \in i + 1 .. j
        <5>1. k \in 0 .. Len(t) /\ k + 1 \in 1 .. Len(t) + 1
          BY <4>1
        <5> QED  BY <2>0, <2>1, <5>1
      <4>4. BalancedRule(t, W, "body", i, j) <=>
               \/ t[i] \notin {Open, Close, Quote} /\ W[<<"body", i + 1, j>>]
               \/ \E k \in i + 1 .. j :
                    (IsString(t, i, k) \/ W[<<"object", i, k>>]) /\ W[<<"body", k + 1, j>>]
        BY <3>3 DEF BalancedRule
      <4>5. BalancedRule(t, W, "body", i, j) <=> Body(t, i, j)
        BY <4>1, <4>2, <4>3, <4>4, BodyEquation
      <4>6. BalancedRule(t, W, "body", i, j) \in BOOLEAN /\ Body(t, i, j) \in BOOLEAN
        BY DEF BalancedRule, Body
      <4> QED  BY <2>3, <3>1, <4>5, <4>6 DEF i, j
    <3> QED  BY <3>2, <3>3
  <2> QED  BY <2>0, <2>2, <2>3
<1>4. W = F[W]
  <2>1. F[W] = Rule(W)
    BY <1>2
  <2>2. Rule(W) = W
    <3> HIDE DEF D
    <3> QED  BY <1>3
  <2> QED  BY <2>1, <2>2
<1>5. ASSUME NEW f \in [D -> BOOLEAN], NEW g \in [D -> BOOLEAN], NEW x \in D,
             \A y \in D : size[y] < size[x] => f[y] = g[y]
      PROVE  F[f][x] = F[g][x]
  <2> DEFINE i == x[2]
             j == x[3]
  <2>0. x[1] \in K /\ i \in 1 .. Len(t) + 1 /\ j \in 0 .. Len(t)
    BY SpanParts
  <2>1. F[f][x] = BalancedRule(t, f, x[1], i, j) /\ F[g][x] = BalancedRule(t, g, x[1], i, j)
    BY <1>1
  <2>2. size[x] = 2 * (Len(t) + 1 + j - i) + (IF x[1] = "object" THEN 0 ELSE 1)
    OBVIOUS
  <2>3. \A k \in 1 .. Len(t) + 1, m \in 0 .. Len(t) :
            /\ <<"object", k, m>> \in D /\ size[<<"object", k, m>>] = 2 * (Len(t) + 1 + m - k)
            /\ <<"body", k, m>> \in D /\ size[<<"body", k, m>>] = 2 * (Len(t) + 1 + m - k) + 1
    <3> TAKE k \in 1 .. Len(t) + 1, m \in 0 .. Len(t)
    <3>1. <<"object", k, m>> \in D /\ <<"body", k, m>> \in D
      BY DEF Spans
    <3>2. /\ <<"object", k, m>>[1] = "object" /\ <<"object", k, m>>[2] = k
          /\ <<"object", k, m>>[3] = m
          /\ <<"body", k, m>>[1] = "body" /\ <<"body", k, m>>[2] = k /\ <<"body", k, m>>[3] = m
      OBVIOUS
    <3>3. Len(t) + 1 + m - k \in Int
      OBVIOUS
    <3> HIDE DEF D
    <3>4. size[<<"object", k, m>>] = 2 * (Len(t) + 1 + m - k) + 0
      BY <3>1, <3>2
    <3>5. size[<<"body", k, m>>] = 2 * (Len(t) + 1 + m - k) + 1
      BY <3>1, <3>2
    <3> QED  BY <3>1, <3>3, <3>4, <3>5
  <2> HIDE DEF F, D, size, i, j
  <2>4. CASE x[1] = "object" /\ i < j
    <3>1. i + 1 \in 1 .. Len(t) + 1 /\ j - 1 \in 0 .. Len(t)
      BY <2>0, <2>4
    <3>2. size[<<"body", i + 1, j - 1>>] < size[x] /\ <<"body", i + 1, j - 1>> \in D
      <4>1. size[<<"body", i + 1, j - 1>>] = 2 * (Len(t) + 1 + (j - 1) - (i + 1)) + 1
        BY <2>3, <3>1
      <4>2. size[x] = 2 * (Len(t) + 1 + j - i)
        BY <2>2, <2>4, <2>0
      <4>3. i \in Int /\ j \in Int /\ Len(t) \in Int
        BY <2>0
      <4>4. size[<<"body", i + 1, j - 1>>] < size[x]
        BY <4>1, <4>2, <4>3
      <4>5. <<"body", i + 1, j - 1>> \in D
        BY <2>3, <3>1
      <4> QED  BY <4>4, <4>5
    <3>3. f[<<"body", i + 1, j - 1>>] = g[<<"body", i + 1, j - 1>>]
      BY <1>5, <3>2
    <3> QED  BY <2>1, <2>4, <3>3 DEF BalancedRule
  <2>5. CASE x[1] = "object" /\ ~(i < j)
    BY <2>1, <2>5 DEF BalancedRule
  <2>6. CASE x[1] = "body" /\ i > j
    BY <2>1, <2>6 DEF BalancedRule
  <2>7. CASE x[1] = "body" /\ ~(i > j)
    <3>0. i \in 1 .. Len(t) /\ j \in i .. Len(t)
      BY <2>0, <2>7
    <3>1. size[x] = 2 * (Len(t) + 1 + j - i) + 1
      BY <2>0, <2>2, <2>7
    <3>2. f[<<"body", i + 1, j>>] = g[<<"body", i + 1, j>>]
      <4>1. i + 1 \in 1 .. Len(t) + 1
        BY <3>0
      <4>2. <<"body", i + 1, j>> \in D
            /\ size[<<"body", i + 1, j>>] = 2 * (Len(t) + 1 + j - (i + 1)) + 1
        BY <2>0, <2>3, <4>1
      <4>3. size[<<"body", i + 1, j>>] < size[x]
        BY <3>0, <3>1, <4>2
      <4> QED  BY <1>5, <4>2, <4>3
    <3>3. \A k \in i + 1 .. j : /\ f[<<"object", i, k>>] = g[<<"object", i, k>>]
                                /\ f[<<"body", k + 1, j>>] = g[<<"body", k + 1, j>>]
      <4> TAKE k \in i + 1 .. j
      <4>1. k \in 0 .. Len(t) /\ k + 1 \in 1 .. Len(t) + 1
        BY <3>0
      <4>2. <<"object", i, k>> \in D /\ size[<<"object", i, k>>] = 2 * (Len(t) + 1 + k - i)
        BY <2>0, <2>3, <4>1
      <4>3. /\ <<"body", k + 1, j>> \in D
            /\ size[<<"body", k + 1, j>>] = 2 * (Len(t) + 1 + j - (k + 1)) + 1
        BY <2>0, <2>3, <4>1
      <4>4. size[<<"object", i, k>>] < size[x] /\ size[<<"body", k + 1, j>>] < size[x]
        <5>1. /\ i \in Int /\ j \in Int /\ Len(t) \in Int /\ k \in Int
              /\ i + 1 <= k /\ k <= j
          BY <2>0
        <5>2. size[<<"object", i, k>>] < size[x]
          BY <3>1, <4>2, <5>1
        <5>3. size[<<"body", k + 1, j>>] < size[x]
          BY <3>1, <4>3, <5>1
        <5> QED  BY <5>2, <5>3
      <4> QED  BY <1>5, <4>2, <4>3, <4>4
    <3>4. BalancedRule(t, f, "body", i, j) <=> BalancedRule(t, g, "body", i, j)
      BY <2>7, <3>2, <3>3 DEF BalancedRule
    <3>5. \A h : BalancedRule(t, h, "body", i, j) \in BOOLEAN
      BY DEF BalancedRule
    <3> QED  BY <2>1, <2>7, <3>4, <3>5
  <2> QED  BY <2>0, <2>4, <2>5, <2>6, <2>7
<1>6. IsRecursion(F, D, BOOLEAN, size, N)
  <2>1. F \in [[D -> BOOLEAN] -> [D -> BOOLEAN]]
    BY <1>1
  <2>2. N \in Nat /\ size \in [D -> 0 .. N]
    <3>1. ASSUME NEW x \in D
          PROVE  size[x] \in 0 .. N
      <4>1. x[1] \in K /\ x[2] \in 1 .. Len(t) + 1 /\ x[3] \in 0 .. Len(t)
        BY SpanParts
      <4>2. size[x] = 2 * (Len(t) + 1 + x[3] - x[2]) + (IF x[1] = "object" THEN 0 ELSE 1)
        OBVIOUS
      <4> HIDE DEF D, size
      <4> QED  BY <4>1, <4>2
    <3> QED  BY <3>1
  <2> HIDE DEF F, D, size, N
  <2> QED  BY <1>5, <2>1, <2>2 DEF IsRecursion
<1>7. Balanced(t) = Rule(Balanced(t))
  <2>1. \E f : f = Rule(f)
    BY <1>2, <1>4
  <2> QED  BY <2>1, Zenon DEF Balanced
<1>8. Balanced(t) \in [D -> BOOLEAN] /\ Balanced(t) = F[Balanced(t)]
  <2>1. Balanced(t) \in [D -> BOOLEAN]
    <3> HIDE DEF D
    <3> QED  BY <1>1, <1>7
  <2> QED  BY <1>7, <2>1
<1>9. Balanced(t) = W
  <2> HIDE DEF F, D, size, N, W
  <2> QED  BY <1>2, <1>4, <1>6, <1>8, RecursionHasOneSolution
<1> QED  BY <1>9

\* So a text is balanced if its own scan says so.
LEMMA IsBalancedIsObject ==
    ASSUME NEW t \in Seq(Tokens)
    PROVE  IsBalanced(t) <=> Object(t, 1, Len(t))
<1> DEFINE D == Spans(t, {"object", "body"})
           x == <<"object", 1, Len(t)>>
<1>1. x \in D /\ x[1] = "object" /\ x[2] = 1 /\ x[3] = Len(t)
  BY DEF Spans
<1> HIDE DEF D, x
<1>2. Balanced(t)[x] = Object(t, 1, Len(t))
  BY <1>1, BalancedIsScanned DEF D
<1> QED  BY <1>2 DEF IsBalanced, x

\* The scan from a brace finds the object that starts there.
LEMMA BalancedSubSeq ==
    ASSUME NEW s \in Seq(Tokens), NEW a \in 1 .. Len(s), NEW j \in a + 1 .. Len(s), s[a] = Open
    PROVE  /\ SubSeq(s, a, j) \in Seq(Tokens)
           /\ IsBalanced(SubSeq(s, a, j)) <=>
                  /\ Scan(s, a)[j].depth = 0
                  /\ \A m \in a .. j - 1 : Scan(s, a)[m].depth >= 1
           /\ IsBalanced(SubSeq(s, a, j)) => Closed(Scan(s, a)[j])
<1> DEFINE u == SubSeq(s, a, j)
           N == j - a + 1
<1>0. /\ a \in 1 .. Len(s) + 1 /\ a - 1 \in a - 1 .. Len(s) /\ N \in Nat /\ N > 1
      /\ a - 1 + N <= Len(s) /\ 1 - 1 + N <= N /\ 1 \in 1 .. N + 1 /\ 1 \in 1 .. N
      /\ N \in 1 + 1 .. N /\ 0 \in Int
  OBVIOUS
<1>1. /\ u \in Seq(Tokens) /\ Len(u) = N
      /\ \A l \in 1 .. N : u[l] = s[a + l - 1]
  <2>1. \A l \in a .. j : s[l] \in Tokens
    OBVIOUS
  <2> QED  BY <2>1, SubSeqProperties
<1>2. u[1] = Open
  BY <1>0, <1>1
<1> HIDE DEF u, N
<1>3. \A n \in 0 .. N : Above(Scan(s, a)[a - 1 + n], Scan(u, 1)[1 - 1 + n], 0)
  <2>1. Scan(s, a)[a - 1] = Outside /\ Above(Outside, Outside, 0)
    BY <1>0, ScanSteps DEF Above, Outside
  <2>2. \A l \in 1 .. N : s[a - 1 + l] = u[1 - 1 + l]
    <3> TAKE l \in 1 .. N
    <3>1. a - 1 + l = a + l - 1 /\ 1 - 1 + l = l
      OBVIOUS
    <3> QED  BY <1>1, <3>1
  <2> QED  BY <1>0, <1>1, <2>1, <2>2, ScansAgree
<1>4. \A n \in 0 .. N : Scan(s, a)[a - 1 + n].depth = Scan(u, 1)[n].depth
  <2> TAKE n \in 0 .. N
  <2>1. Scan(u, 1)[n] \in States
    <3>1. n \in 1 - 1 .. Len(u)
      BY <1>1
    <3> QED  BY <1>0, <1>1, <3>1, ScanSteps
  <2>2. Above(Scan(s, a)[a - 1 + n], Scan(u, 1)[n], 0)
    <3>1. 1 - 1 + n = n
      OBVIOUS
    <3> QED  BY <1>3, <3>1
  <2> QED  BY <2>1, <2>2 DEF Above, States
<1>5. IsBalanced(u) <=> /\ Scan(u, 1)[N].depth = 0
                        /\ \A m \in 1 .. N - 1 : Scan(u, 1)[m].depth >= 1
  <2>1. IsBalanced(u) <=> Object(u, 1, N)
    BY <1>1, IsBalancedIsObject
  <2>2. Object(u, 1, N) => /\ Scan(u, 1)[N] \in States /\ AtDepth(Scan(u, 1)[N], 0)
                           /\ \A m \in 1 .. N - 1 : Scan(u, 1)[m].depth >= 1
    <3>1. Scan(u, 1)[N] \in States
      <4>1. N \in 1 - 1 .. Len(u)
        BY <1>0, <1>1
      <4> QED  BY <1>0, <1>1, <4>1, ScanSteps
    <3> QED  BY <1>0, <1>1, <1>2, <3>1, ObjectsAreScanned
  <2>3. /\ Scan(u, 1)[N].depth = 0
        /\ \A m \in 1 .. N - 1 : Scan(u, 1)[m].depth >= 1
        => Object(u, 1, N)
    BY <1>0, <1>1, <1>2, ObjectsAreScanned
  <2> QED  BY <1>0, <2>1, <2>2, <2>3, AtDepthFields
<1>6. /\ Scan(u, 1)[N].depth = Scan(s, a)[j].depth
      /\ (\A m \in 1 .. N - 1 : Scan(u, 1)[m].depth >= 1)
            <=> (\A m \in a .. j - 1 : Scan(s, a)[m].depth >= 1)
  <2>1. Scan(u, 1)[N].depth = Scan(s, a)[j].depth
    <3>1. N \in 0 .. N /\ a - 1 + N = j
      BY DEF N
    <3> QED  BY <1>4, <3>1
  <2>2. ASSUME NEW m \in 1 .. N - 1
        PROVE  a - 1 + m \in a .. j - 1 /\ Scan(s, a)[a - 1 + m].depth = Scan(u, 1)[m].depth
    <3>1. a - 1 + m \in a .. j - 1 /\ m \in 0 .. N
      BY DEF N
    <3> QED  BY <1>4, <3>1
  <2>3. ASSUME NEW m \in a .. j - 1
        PROVE  /\ m - a + 1 \in 1 .. N - 1
               /\ Scan(s, a)[m].depth = Scan(u, 1)[m - a + 1].depth
    <3>1. m - a + 1 \in 1 .. N - 1 /\ m - a + 1 \in 0 .. N /\ a - 1 + (m - a + 1) = m
      BY DEF N
    <3>2. Scan(s, a)[a - 1 + (m - a + 1)].depth = Scan(u, 1)[m - a + 1].depth
      BY <1>4, <3>1
    <3> QED  BY <3>1, <3>2
  <2> QED  BY <2>1, <2>2, <2>3
<1>7. IsBalanced(u) <=> /\ Scan(s, a)[j].depth = 0
                        /\ \A m \in a .. j - 1 : Scan(s, a)[m].depth >= 1
  BY <1>5, <1>6
<1>8. ASSUME IsBalanced(u) PROVE Closed(Scan(s, a)[j])
  <2>1. Object(s, a, j)
    BY <1>7, <1>8, ObjectsAreScanned
  <2>2. AtDepth(Scan(s, a)[j], 0)
    BY <2>1, ObjectsAreScanned
  <2>3. Scan(s, a)[j] \in States
    <3>1. j \in a - 1 .. Len(s)
      OBVIOUS
    <3> QED  BY <1>0, <3>1, ScanSteps
  <2> QED  BY <2>2, <2>3, AtDepthFields DEF Closed
<1> QED  BY <1>1, <1>7, <1>8 DEF u

\* Where the scan first is outside of strings at depth 0, that object ends: the
\* depth goes down by one at a time.
LEMMA FirstClosed ==
    ASSUME NEW s \in Seq(Tokens), NEW a \in 1 .. Len(s), s[a] = Open, NEW k \in a .. Len(s),
           Closed(Scan(s, a)[k]), \A m \in a .. k - 1 : ~Closed(Scan(s, a)[m])
    PROVE  k \in a + 1 .. Len(s) /\ IsBalanced(SubSeq(s, a, k))
<1>0. a \in 1 .. Len(s) + 1 /\ a \in a - 1 .. Len(s) /\ a \in a .. Len(s)
  OBVIOUS
<1>1. \A m \in a - 1 .. Len(s) : Scan(s, a)[m] \in States
  BY <1>0, ScanSteps
<1>2. Scan(s, a)[a].depth = 1
  <2>1. Outside \in States /\ AtDepth(Outside, 0)
    BY DEF States, Outside, AtDepth, Above
  <2>2. Advances(Outside, Open, Scan(s, a)[a])
    BY <1>0, ScanSteps
  <2>3. AtDepth(Scan(s, a)[a], 0 + 1)
    BY <1>0, <1>1, <2>1, <2>2, Steps
  <2> QED  BY <1>0, <1>1, <2>3, AtDepthFields
<1>3. Scan(s, a)[k].depth = 0
  BY DEF Closed
<1>4. k \in a + 1 .. Len(s)
  BY <1>2, <1>3
<1> DEFINE T == {m \in a .. k - 1 : Scan(s, a)[m].depth <= 0}
<1>5. ASSUME T # {} PROVE FALSE
  <2>1. T \in SUBSET Nat
    OBVIOUS
  <2>2. PICK n \in T : \A m \in T : n <= m
    <3> HIDE DEF T
    <3> QED  BY <1>5, <2>1, MinIsSmallest
  <2>3. n \in a + 1 .. k - 1 /\ Scan(s, a)[n].depth <= 0
    BY <1>2, <2>2
  <2>4. n - 1 \in a .. k - 1 /\ ~(n <= n - 1)
    BY <2>3
  <2>5. ~(Scan(s, a)[n - 1].depth <= 0)
    BY <2>2, <2>4
  <2> HIDE DEF T
  <2>6. /\ Scan(s, a)[n - 1].depth \in Int /\ Scan(s, a)[n].depth \in Int
        /\ Advances(Scan(s, a)[n - 1], s[n], Scan(s, a)[n])
    <3>1. n \in a .. Len(s) /\ n - 1 \in a - 1 .. Len(s) /\ n \in a - 1 .. Len(s)
      BY <2>3
    <3> QED  BY <1>0, <3>1, <1>1, ScanSteps DEF States
  <2>7. Scan(s, a)[n].depth = 0 /\ ~Scan(s, a)[n].inString
    <3>1. ~Scan(s, a)[n - 1].inString /\ s[n] = Close
      BY <2>3, <2>5, <2>6 DEF Advances
    <3>2. Scan(s, a)[n].depth = Scan(s, a)[n - 1].depth - 1
      BY <2>6, <3>1 DEF Advances
    <3>3. Scan(s, a)[n].depth = 0
      BY <2>3, <2>5, <2>6, <3>2
    <3>4. s[n] # Quote
      BY <3>1 DEF Close, Quote
    <3> QED  BY <2>6, <3>1, <3>3, <3>4 DEF Advances
  <2>8. n \in a .. k - 1
    BY <2>3
  <2> QED  BY <2>7, <2>8 DEF Closed
<1>6. \A m \in a .. k - 1 : Scan(s, a)[m].depth >= 1
  <2> TAKE m \in a .. k - 1
  <2>1. ~(Scan(s, a)[m].depth <= 0)
    BY <1>5
  <2>2. Scan(s, a)[m].depth \in Int
    <3>1. m \in a - 1 .. Len(s)
      OBVIOUS
    <3> QED  BY <1>1, <3>1 DEF States
  <2> QED  BY <2>1, <2>2
<1> QED  BY <1>3, <1>4, <1>6, BalancedSubSeq

\* The balanced object that starts at the first brace.
FirstObject(t) ==
    LET start == First(Positions(t, Open))
        ends  == {j \in DOMAIN t : start < j /\ IsBalanced(SubSeq(t, start, j))}
    IN  IF start = 0 \/ ends = {} THEN NoObject ELSE SubSeq(t, start, Min(ends))

\* _find_json_object, which counts braces, finds the balanced object that starts at
\* the first brace, or that there is none.
THEOREM FindJsonObjectIsRight ==
    ASSUME NEW s \in Seq(Tokens)
    PROVE  FindJsonObject(s) = FirstObject(s)
<1> DEFINE a == First(Positions(s, Open))
           E == {i \in a .. Len(s) : Closed(Scan(s, a)[i])}
           B == {j \in DOMAIN s : a < j /\ IsBalanced(SubSeq(s, a, j))}
<1>1. CASE a = 0
  BY <1>1 DEF FindJsonObject, FirstObject
<1>2. CASE a # 0
  <2>1. a \in 1 .. Len(s) /\ s[a] = Open
    <3>1. Positions(s, Open) \in SUBSET Nat /\ Positions(s, Open) # {}
      BY <1>2 DEF Positions, First
    <3>2. a = Min(Positions(s, Open))
      BY <3>1 DEF First
    <3>3. a \in Positions(s, Open)
      BY <3>1, <3>2, MinIsSmallest
    <3> QED  BY <3>3 DEF Positions
  <2> HIDE DEF a
  <2>2. E \in SUBSET Nat /\ B \in SUBSET Nat
    BY <2>1
  <2>3. ASSUME NEW j \in B
        PROVE  j \in E /\ \A m \in E : j <= m
    <3>1. j \in a + 1 .. Len(s) /\ IsBalanced(SubSeq(s, a, j))
      BY <2>1
    <3>2. Closed(Scan(s, a)[j]) /\ \A m \in a .. j - 1 : Scan(s, a)[m].depth >= 1
      BY <2>1, <3>1, BalancedSubSeq
    <3>3. j \in E
      BY <2>1, <3>1, <3>2
    <3>4. ASSUME NEW m \in E PROVE j <= m
      <4>1. Scan(s, a)[m].depth = 0 /\ m \in a .. Len(s)
        BY DEF Closed
      <4>2. ~(m \in a .. j - 1)
        BY <3>2, <4>1
      <4> QED  BY <2>1, <3>1, <4>1, <4>2
    <3> QED  BY <3>3, <3>4
  <2>4. ASSUME E # {}
        PROVE  Min(E) \in B
    <3>1. Min(E) \in E /\ \A m \in E : Min(E) <= m
      <4> HIDE DEF E
      <4> QED  BY <2>2, <2>4, MinIsSmallest
    <3>2. PICK k \in E : k = Min(E) /\ \A m \in E : k <= m
      BY <3>1
    <3>3. \A m \in a .. k - 1 : ~Closed(Scan(s, a)[m])
      <4> TAKE m \in a .. k - 1
      <4>1. ~(k <= m) /\ m \in a .. Len(s)
        BY <2>1, <3>2
      <4> QED  BY <3>2, <4>1
    <3>4. k \in a + 1 .. Len(s) /\ IsBalanced(SubSeq(s, a, k))
      BY <2>1, <3>2, <3>3, FirstClosed
    <3>5. k \in B
      BY <2>1, <3>4
    <3> QED  BY <3>2, <3>5
  <2>5. (E = {}) <=> (B = {})
    <3> HIDE DEF E, B
    <3> QED  BY <2>3, <2>4
  <2>6. ASSUME E # {} PROVE Min(E) = Min(B)
    <3>1. B # {} /\ Min(B) \in B /\ \A m \in B : Min(B) <= m
      <4> HIDE DEF E, B
      <4> QED  BY <2>2, <2>5, <2>6, MinIsSmallest
    <3>2. Min(E) \in B /\ Min(E) \in E /\ Min(B) \in E
      <4> HIDE DEF E, B
      <4> QED  BY <2>2, <2>3, <2>4, <2>6, <3>1, MinIsSmallest
    <3>3. Min(B) <= Min(E) /\ Min(E) <= Min(B)
      <4> HIDE DEF E, B
      <4> QED  BY <2>2, <2>6, <3>1, <3>2, MinIsSmallest
    <3>4. Min(B) \in Nat /\ Min(E) \in Nat
      <4> HIDE DEF E, B
      <4> QED  BY <2>2, <3>2
    <3> QED  BY <3>3, <3>4
  <2>7. /\ FindJsonObject(s) = IF a = 0 \/ E = {} THEN NoObject ELSE SubSeq(s, a, Min(E))
        /\ FirstObject(s) = IF a = 0 \/ B = {} THEN NoObject ELSE SubSeq(s, a, Min(B))
    BY DEF FindJsonObject, FirstObject, a
  <2> HIDE DEF E, B
  <2> QED  BY <2>5, <2>6, <2>7
<1> QED  BY <1>1, <1>2

\* A text that is one balanced object is the one found in it.
LEMMA WholeObject ==
    ASSUME NEW s \in Seq(Tokens), IsBalanced(s)
    PROVE  FirstObject(s) = s /\ s # NoObject /\ s # <<>>
<1> DEFINE a == First(Positions(s, Open))
           B == {j \in DOMAIN s : a < j /\ IsBalanced(SubSeq(s, a, j))}
<1>1. Object(s, 1, Len(s))
  BY IsBalancedIsObject
<1>2. 1 < Len(s) /\ s[1] = Open /\ 1 \in 1 .. Len(s) /\ Len(s) \in 1 + 1 .. Len(s)
  BY <1>1 DEF Object
<1>3. a = 1
  <2> DEFINE P == Positions(s, Open)
  <2>1. P \in SUBSET Nat /\ 1 \in P /\ \A p \in P : p >= 1
    BY <1>2 DEF Positions
  <2> HIDE DEF P
  <2>2. Min(P) \in P /\ Min(P) <= 1
    BY <2>1, MinIsSmallest
  <2>3. Min(P) = 1
    <3>1. Min(P) \in Nat /\ Min(P) >= 1
      BY <2>1, <2>2
    <3> QED  BY <2>2, <3>1
  <2>4. P # {}
    BY <2>1
  <2> QED  BY <2>3, <2>4 DEF First, P
<1>4. SubSeq(s, 1, Len(s)) = s
  OBVIOUS
<1>5. Len(s) \in B
  <2>1. Len(s) \in DOMAIN s /\ a < Len(s)
    BY <1>2, <1>3
  <2>2. IsBalanced(SubSeq(s, a, Len(s)))
    BY <1>3, <1>4
  <2> HIDE DEF a
  <2> QED  BY <2>1, <2>2
<1>6. ASSUME NEW j \in B PROVE j = Len(s)
  <2>1. j \in 1 + 1 .. Len(s) /\ IsBalanced(SubSeq(s, 1, j))
    BY <1>3
  <2>2. Scan(s, 1)[j].depth = 0
    BY <1>2, <2>1, BalancedSubSeq
  <2>3. \A m \in 1 .. Len(s) - 1 : Scan(s, 1)[m].depth >= 1
    BY <1>2, <1>4, BalancedSubSeq
  <2>4. ~(j \in 1 .. Len(s) - 1)
    BY <2>2, <2>3
  <2> QED  BY <2>1, <2>4
<1>7. B = {Len(s)}
  BY <1>5, <1>6
<1>8. Min(B) = Len(s)
  <2>1. {Len(s)} \in SUBSET Nat /\ {Len(s)} # {}
    OBVIOUS
  <2>2. Min({Len(s)}) \in {Len(s)}
    BY <2>1, MinIsSmallest
  <2> QED  BY <1>7, <2>2
<1>9. FirstObject(s) = IF a = 0 \/ B = {} THEN NoObject ELSE SubSeq(s, a, Min(B))
  BY DEF FirstObject
<1>10. FirstObject(s) = s
  <2> HIDE DEF a, B
  <2> QED  BY <1>3, <1>4, <1>5, <1>8, <1>9
<1>11. s # <<>>
  BY <1>2
<1> QED  BY <1>10, <1>11, NoObjectAssumption

\* What follows for a point of D from the points of less size holds of all of D.
LEMMA SizeInduction ==
    ASSUME NEW D, NEW size, NEW N, size \in [D -> 0 .. N], NEW S,
           \A x \in D : (\A y \in D : size[y] < size[x] => y \in S) => x \in S
    PROVE  D \subseteq S
<1> DEFINE T == {size[x] : x \in D \ S}
<1>1. SUFFICES ASSUME NEW x \in D, x \notin S PROVE FALSE
  OBVIOUS
<1>2. T # {} /\ T \in SUBSET Nat
  BY <1>1
<1>3. Min(T) \in T /\ \A n \in T : Min(T) <= n
  <2> HIDE DEF T
  <2> QED  BY <1>2, MinIsSmallest
<1>4. PICK z \in D \ S : \A n \in T : size[z] <= n
  <2>1. PICK m \in T : \A n \in T : m <= n
    <3> HIDE DEF T
    <3> QED  BY <1>3
  <2>2. PICK z \in D \ S : m = size[z]
    OBVIOUS
  <2> HIDE DEF T
  <2> QED  BY <2>1, <2>2
<1>5. \A y \in D : size[y] < size[z] => y \in S
  <2> TAKE y \in D
  <2>1. CASE y \notin S
    <3>1. size[z] <= size[y]
      BY <1>4, <2>1
    <3>2. size[z] \in Nat /\ size[y] \in Nat
      OBVIOUS
    <3> QED  BY <3>1, <3>2
  <2> QED  BY <2>1
<1> QED  BY <1>4, <1>5

\* What json.loads takes for an object is balanced to _find_json_object.
LEMMA JsonIsBalanced ==
    ASSUME NEW t \in Seq(Tokens)
    PROVE  IsJson(t) => IsBalanced(t)
<1> DEFINE K == {"object", "members", "member"}
           D == Spans(t, K)
           Rule(f) == [x \in D |-> JsonRule(t, f, x[1], x[2], x[3])]
           F == [f \in [D -> BOOLEAN] |-> Rule(f)]
           Rank(kind) == IF kind = "object" THEN 0 ELSE IF kind = "member" THEN 1 ELSE 2
           size == [x \in D |-> 3 * (Len(t) + 1 + x[3] - x[2]) + Rank(x[1])]
           N == 6 * Len(t) + 6
<1>1. ASSUME NEW f
      PROVE  Rule(f) \in [D -> BOOLEAN]
  <2>1. ASSUME NEW kind \in K, NEW i, NEW j
        PROVE  JsonRule(t, f, kind, i, j) \in BOOLEAN
    BY DEF JsonRule
  <2>2. \A x \in D : x[1] \in K
    BY SpanParts
  <2> HIDE DEF D, K
  <2> QED  BY <2>1, <2>2
<1>2. \A k \in 1 .. Len(t) + 1, m \in 0 .. Len(t), kind \in K :
          /\ <<kind, k, m>> \in D
          /\ size[<<kind, k, m>>] = 3 * (Len(t) + 1 + m - k) + Rank(kind)
  <2> TAKE k \in 1 .. Len(t) + 1, m \in 0 .. Len(t), kind \in K
  <2>1. <<kind, k, m>> \in D
    BY DEF Spans
  <2>2. <<kind, k, m>>[1] = kind /\ <<kind, k, m>>[2] = k /\ <<kind, k, m>>[3] = m
    OBVIOUS
  <2> HIDE DEF D, K, Rank
  <2> QED  BY <2>1, <2>2
<1>3. ASSUME NEW x \in D
      PROVE  /\ x[1] \in K /\ x[2] \in 1 .. Len(t) + 1 /\ x[3] \in 0 .. Len(t)
             /\ size[x] = 3 * (Len(t) + 1 + x[3] - x[2]) + Rank(x[1])
             /\ size[x] \in 0 .. N
  <2>1. x[1] \in K /\ x[2] \in 1 .. Len(t) + 1 /\ x[3] \in 0 .. Len(t)
    BY SpanParts
  <2>2. size[x] = 3 * (Len(t) + 1 + x[3] - x[2]) + Rank(x[1])
    OBVIOUS
  <2> HIDE DEF D, K, size
  <2> QED  BY <2>1, <2>2
\* The parts an object, members and a member are derived from are smaller.
<1>4. ASSUME NEW x \in D
      PROVE  /\ x[1] = "object" /\ x[2] < x[3] =>
                   /\ <<"members", x[2] + 1, x[3] - 1>> \in D
                   /\ size[<<"members", x[2] + 1, x[3] - 1>>] < size[x]
             /\ x[1] = "members" =>
                   /\ <<"member", x[2], x[3]>> \in D /\ size[<<"member", x[2], x[3]>>] < size[x]
                   /\ \A k \in x[2] + 1 .. x[3] - 1 :
                        /\ <<"member", x[2], k - 1>> \in D
                        /\ size[<<"member", x[2], k - 1>>] < size[x]
                        /\ <<"members", k + 1, x[3]>> \in D
                        /\ size[<<"members", k + 1, x[3]>>] < size[x]
             /\ x[1] = "member" =>
                   <<"object", x[2], x[3]>> \in D /\ size[<<"object", x[2], x[3]>>] < size[x]
  <2> DEFINE i == x[2]
             j == x[3]
             L == Len(t)
  <2>0. /\ i \in 1 .. L + 1 /\ j \in 0 .. L /\ i \in Int /\ j \in Int /\ L \in Nat
        /\ size[x] = 3 * (L + 1 + j - i) + Rank(x[1])
    BY <1>3
  <2>1. \A k \in 1 .. L + 1, m \in 0 .. L, kind \in K :
            /\ <<kind, k, m>> \in D
            /\ size[<<kind, k, m>>] = 3 * (L + 1 + m - k) + Rank(kind)
    BY <1>2
  <2> HIDE DEF D, size, i, j, L
  <2>2. ASSUME x[1] = "object", i < j
        PROVE  /\ <<"members", i + 1, j - 1>> \in D
               /\ size[<<"members", i + 1, j - 1>>] < size[x]
    <3>1. i + 1 \in 1 .. L + 1 /\ j - 1 \in 0 .. L
      BY <2>0, <2>2
    <3>2. size[<<"members", i + 1, j - 1>>] = 3 * (L + 1 + (j - 1) - (i + 1)) + 2
      BY <2>1, <3>1
    <3>3. size[x] = 3 * (L + 1 + j - i)
      BY <2>0, <2>2
    <3>4. size[<<"members", i + 1, j - 1>>] < size[x]
      BY <2>0, <3>2, <3>3
    <3> QED  BY <2>1, <3>1, <3>4
  <2>3. ASSUME x[1] = "members"
        PROVE  /\ <<"member", i, j>> \in D /\ size[<<"member", i, j>>] < size[x]
               /\ \A k \in i + 1 .. j - 1 :
                    /\ <<"member", i, k - 1>> \in D /\ size[<<"member", i, k - 1>>] < size[x]
                    /\ <<"members", k + 1, j>> \in D /\ size[<<"members", k + 1, j>>] < size[x]
    <3>1. size[x] = 3 * (L + 1 + j - i) + 2
      BY <2>0, <2>3
    <3>2. <<"member", i, j>> \in D /\ size[<<"member", i, j>>] = 3 * (L + 1 + j - i) + 1
      BY <2>0, <2>1
    <3>3. size[<<"member", i, j>>] < size[x]
      BY <2>0, <3>1, <3>2
    <3>4. ASSUME NEW k \in i + 1 .. j - 1
          PROVE  /\ <<"member", i, k - 1>> \in D /\ size[<<"member", i, k - 1>>] < size[x]
                 /\ <<"members", k + 1, j>> \in D /\ size[<<"members", k + 1, j>>] < size[x]
      <4>1. k - 1 \in 0 .. L /\ k + 1 \in 1 .. L + 1 /\ k \in Int /\ i + 1 <= k /\ k <= j - 1
        BY <2>0
      <4>2. /\ <<"member", i, k - 1>> \in D
            /\ size[<<"member", i, k - 1>>] = 3 * (L + 1 + (k - 1) - i) + 1
        BY <2>0, <2>1, <4>1
      <4>3. /\ <<"members", k + 1, j>> \in D
            /\ size[<<"members", k + 1, j>>] = 3 * (L + 1 + j - (k + 1)) + 2
        BY <2>0, <2>1, <4>1
      <4>4. size[<<"member", i, k - 1>>] < size[x]
        BY <2>0, <3>1, <4>1, <4>2
      <4>5. size[<<"members", k + 1, j>>] < size[x]
        BY <2>0, <3>1, <4>1, <4>3
      <4> QED  BY <4>2, <4>3, <4>4, <4>5
    <3> QED  BY <3>2, <3>3, <3>4
  <2>4. ASSUME x[1] = "member"
        PROVE  <<"object", i, j>> \in D /\ size[<<"object", i, j>>] < size[x]
    <3>1. size[x] = 3 * (L + 1 + j - i) + 1
      BY <2>0, <2>4
    <3>2. <<"object", i, j>> \in D /\ size[<<"object", i, j>>] = 3 * (L + 1 + j - i) + 0
      BY <2>0, <2>1
    <3>3. size[<<"object", i, j>>] < size[x]
      BY <2>0, <3>1, <3>2
    <3> QED  BY <3>2, <3>3
  <2> QED  BY <2>2, <2>3, <2>4 DEF i, j
<1>5. size \in [D -> 0 .. N]
  BY <1>3
<1>6. IsRecursion(F, D, BOOLEAN, size, N)
  <2>1. ASSUME NEW f \in [D -> BOOLEAN], NEW g \in [D -> BOOLEAN], NEW x \in D,
               \A y \in D : size[y] < size[x] => f[y] = g[y]
        PROVE  F[f][x] = F[g][x]
    <3>1. /\ F[f][x] = JsonRule(t, f, x[1], x[2], x[3])
          /\ F[g][x] = JsonRule(t, g, x[1], x[2], x[3])
      BY <1>1
    <3>2. x[1] \in K
      BY <1>3
    <3>3. CASE x[1] = "object"
      <4>1. CASE x[2] < x[3]
        <5>1. f[<<"members", x[2] + 1, x[3] - 1>>] = g[<<"members", x[2] + 1, x[3] - 1>>]
          BY <1>4, <2>1, <3>3, <4>1
        <5> HIDE DEF F
        <5> QED  BY <3>1, <3>3, <5>1 DEF JsonRule
      <4>2. CASE ~(x[2] < x[3])
        <5> HIDE DEF F
        <5> QED  BY <3>1, <3>3, <4>2 DEF JsonRule
      <4> QED  BY <4>1, <4>2
    <3>4. CASE x[1] = "members"
      <4>1. f[<<"member", x[2], x[3]>>] = g[<<"member", x[2], x[3]>>]
        BY <1>4, <2>1, <3>4
      <4>2. \A k \in x[2] + 1 .. x[3] - 1 :
                /\ f[<<"member", x[2], k - 1>>] = g[<<"member", x[2], k - 1>>]
                /\ f[<<"members", k + 1, x[3]>>] = g[<<"members", k + 1, x[3]>>]
        <5> HIDE DEF D, size
        <5> QED  BY <1>4, <2>1, <3>4
      <4> HIDE DEF F
      <4>3. JsonRule(t, f, "members", x[2], x[3]) <=> JsonRule(t, g, "members", x[2], x[3])
        BY <4>1, <4>2 DEF JsonRule
      <4>4. \A h : JsonRule(t, h, "members", x[2], x[3]) \in BOOLEAN
        BY DEF JsonRule
      <4> QED  BY <3>1, <3>4, <4>3, <4>4
    <3>5. CASE x[1] = "member"
      <4>1. f[<<"object", x[2], x[3]>>] = g[<<"object", x[2], x[3]>>]
        BY <1>4, <2>1, <3>5
      <4> HIDE DEF F
      <4> QED  BY <3>1, <3>5, <4>1 DEF JsonRule
    <3> QED  BY <3>2, <3>3, <3>4, <3>5
  <2>2. F \in [[D -> BOOLEAN] -> [D -> BOOLEAN]]
    BY <1>1
  <2>3. N \in Nat
    OBVIOUS
  <2> HIDE DEF F, D, size, N
  <2> QED  BY <1>5, <2>1, <2>2, <2>3 DEF IsRecursion
<1>7. \E f : f = Rule(f)
  <2> DEFINE f0 == [x \in D |-> FALSE]
  <2>1. f0 \in [D -> BOOLEAN]
    OBVIOUS
  <2>2. \E f \in [D -> BOOLEAN] : f = F[f]
    <3> HIDE DEF F, D, size, N, f0
    <3> QED  BY <1>6, <2>1, RecursionHasOneSolution
  <2>3. PICK f \in [D -> BOOLEAN] : f = F[f]
    BY <2>2
  <2>4. f = Rule(f)
    BY <2>3
  <2> QED  BY <2>4
<1> DEFINE f == Json(t)
           Good(x) == IF x[1] = "object" THEN Object(t, x[2], x[3])
                      ELSE x[2] <= x[3] /\ Body(t, x[2], x[3])
           S == {x \in D : f[x] => Good(x)}
<1>8. f = Rule(f)
  BY <1>7, Zenon DEF Json
<1>9. \A x \in D : f[x] = JsonRule(t, f, x[1], x[2], x[3])
  <2> HIDE DEF D, f
  <2> QED  BY <1>8
<1>10. ASSUME NEW x \in D, \A y \in D : size[y] < size[x] => y \in S
       PROVE  x \in S
  <2> DEFINE i == x[2]
             j == x[3]
  <2> HIDE DEF f
  <2> SUFFICES ASSUME f[x] PROVE Good(x)
    OBVIOUS
  <2>0. x[1] \in K /\ i \in 1 .. Len(t) + 1 /\ j \in 0 .. Len(t)
    BY <1>3
  <2>1. JsonRule(t, f, x[1], i, j)
    BY <1>9
  <2>2. \A y \in D : size[y] < size[x] /\ f[y] => Good(y)
    BY <1>10
  <2>3. \A k, m : /\ Good(<<"object", k, m>>) <=> Object(t, k, m)
                  /\ Good(<<"member", k, m>>) <=> k <= m /\ Body(t, k, m)
                  /\ Good(<<"members", k, m>>) <=> k <= m /\ Body(t, k, m)
    <3> TAKE k, m
    <3>1. /\ <<"object", k, m>>[1] = "object" /\ <<"object", k, m>>[2] = k
          /\ <<"object", k, m>>[3] = m
          /\ <<"member", k, m>>[1] = "member" /\ <<"member", k, m>>[2] = k
          /\ <<"member", k, m>>[3] = m
          /\ <<"members", k, m>>[1] = "members" /\ <<"members", k, m>>[2] = k
          /\ <<"members", k, m>>[3] = m
      OBVIOUS
    <3> QED  BY <3>1
  <2> HIDE DEF S, D, size, Good, i, j
  <2>4. CASE x[1] = "object"
    <3>1. /\ i < j /\ t[i] = Open /\ t[j] = Close
          /\ i + 1 = j \/ f[<<"members", i + 1, j - 1>>]
      BY <2>1, <2>4 DEF JsonRule
    <3>2. Body(t, i + 1, j - 1)
      <4>1. CASE i + 1 = j
        <5>1. ~(i + 1 <= j - 1)
          BY <2>0, <4>1
        <5> QED  BY <5>1 DEF Body
      <4>2. CASE f[<<"members", i + 1, j - 1>>]
        <5>1. Good(<<"members", i + 1, j - 1>>)
          BY <1>4, <2>2, <2>4, <3>1, <4>2 DEF i, j
        <5> QED  BY <2>3, <5>1
      <4> QED  BY <3>1, <4>1, <4>2
    <3> QED  BY <2>4, <3>1, <3>2 DEF Good, Object, i, j
  <2>5. CASE x[1] = "members"
    <3>1. ASSUME f[<<"member", i, j>>]
          PROVE  i <= j /\ Body(t, i, j)
      <4>1. Good(<<"member", i, j>>)
        BY <1>4, <2>2, <2>5, <3>1 DEF i, j
      <4> QED  BY <2>3, <4>1
    <3>2. ASSUME NEW k \in i + 1 .. j - 1, t[k] = Comma,
                 f[<<"member", i, k - 1>>], f[<<"members", k + 1, j>>]
          PROVE  i <= j /\ Body(t, i, j)
      <4>1. i \in 1 .. Len(t) /\ k - 1 \in i .. Len(t) /\ j \in k - 1 .. Len(t)
            /\ k \in 1 .. Len(t) /\ j \in k .. Len(t) /\ i <= j /\ k - 1 + 1 = k
        BY <2>0
      <4>2. Good(<<"member", i, k - 1>>) /\ Good(<<"members", k + 1, j>>)
        <5>1. k \in x[2] + 1 .. x[3] - 1
          BY DEF i, j
        <5>2. /\ <<"member", x[2], k - 1>> \in D
              /\ size[<<"member", x[2], k - 1>>] < size[x]
              /\ <<"members", k + 1, x[3]>> \in D
              /\ size[<<"members", k + 1, x[3]>>] < size[x]
          BY <1>4, <2>5, <5>1
        <5> QED  BY <2>2, <3>2, <5>2 DEF i, j
      <4>3. i <= k - 1 /\ Body(t, i, k - 1) /\ Body(t, k + 1, j)
        BY <2>3, <4>2
      <4>4. /\ AtDepth(Scan(t, i)[k - 1], 0)
            /\ \A m \in i .. k - 1 : Scan(t, i)[m].depth >= 0
        BY <4>3 DEF Body
      <4>5. Body(t, i, j) <=> Body(t, k, j)
        BY <4>1, <4>4, BodiesJoin
      <4>6. Body(t, k, j)
        <5>1. t[k] \notin {Open, Close, Quote}
          BY <3>2 DEF Comma, Open, Close, Quote
        <5> QED  BY <4>1, <4>3, <5>1, BodyEquation
      <4> QED  BY <4>1, <4>5, <4>6
    <3>3. i <= j /\ Body(t, i, j)
      BY <2>1, <2>5, <3>1, <3>2 DEF JsonRule
    <3> QED  BY <2>5, <3>3 DEF Good, i, j
  <2>6. CASE x[1] = "member"
    <3>1. \/ i = j /\ t[i] = Member
          \/ IsString(t, i, j)
          \/ f[<<"object", i, j>>]
      BY <2>1, <2>6 DEF JsonRule, IsJsonString
    <3>2. f[<<"object", i, j>>] => Object(t, i, j)
      BY <1>4, <2>2, <2>3, <2>6 DEF i, j
    <3>3. CASE i = j /\ t[i] = Member
      <4>1. i \in 1 .. Len(t) /\ j \in i .. Len(t) /\ ~(i + 1 <= j)
        BY <2>0, <3>3
      <4>2. Body(t, i + 1, j) /\ t[i] \notin {Open, Close, Quote}
        BY <3>3, <4>1 DEF Body, Member, Open, Close, Quote
      <4>3. Body(t, i, j) /\ i <= j
        BY <3>3, <4>1, <4>2, BodyEquation
      <4> QED  BY <2>6, <4>3 DEF Good, i, j
    <3>4. CASE IsString(t, i, j) \/ Object(t, i, j)
      <4>1. i < j
        BY <3>4 DEF IsString, Object
      <4>2. i \in 1 .. Len(t) /\ j \in i .. Len(t) /\ j \in i + 1 .. j /\ ~(j + 1 <= j)
        BY <2>0, <4>1
      <4>3. Body(t, j + 1, j)
        BY <4>2 DEF Body
      <4>4. Body(t, i, j) /\ i <= j
        BY <3>4, <4>2, <4>3, BodyEquation
      <4> QED  BY <2>6, <4>4 DEF Good, i, j
    <3> QED  BY <3>1, <3>2, <3>3, <3>4
  <2> QED  BY <2>0, <2>4, <2>5, <2>6
<1>11. D \subseteq S
  <2> HIDE DEF D, S, size, N
  <2> QED  BY <1>5, <1>10, SizeInduction
<1>12. ASSUME IsJson(t) PROVE IsBalanced(t)
  <2> DEFINE x == <<"object", 1, Len(t)>>
  <2>1. x \in D /\ x[1] = "object" /\ x[2] = 1 /\ x[3] = Len(t)
    BY DEF Spans
  <2>2. f[x]
    BY <1>12 DEF IsJson
  <2> HIDE DEF D, f, x
  <2>3. Object(t, 1, Len(t))
    BY <1>11, <2>1, <2>2
  <2> QED  BY <2>3, IsBalancedIsObject
<1> QED  BY <1>12

-----------------------------------------------------------------------------
\* The repairs.

\* FlattenSeq joins its pieces one after the other.
LEMMA Flattening ==
    ASSUME NEW T, NEW seqs \in Seq(Seq(T)), Len(seqs) # 0
    PROVE  \E g \in [1 .. Len(seqs) -> Seq(T)] :
              /\ g[1] = seqs[1]
              /\ \A i \in 2 .. Len(seqs) : g[i] = g[i - 1] \o seqs[i]
              /\ FlattenSeq(seqs) = g[Len(seqs)]
<1> DEFINE D == 1 .. Len(seqs)
           R == Seq(T)
           Rule(f) == [i \in D |-> IF i = 1 THEN seqs[i] ELSE f[i - 1] \o seqs[i]]
           F == [f \in [D -> R] |-> Rule(f)]
           size == [i \in D |-> i]
           f0 == [i \in D |-> <<>>]
<1>0. \A i \in D : seqs[i] \in R
  OBVIOUS
<1>1. ASSUME NEW f \in [D -> R]
      PROVE  Rule(f) \in [D -> R]
  <2>1. ASSUME NEW i \in D, i # 1
        PROVE  f[i - 1] \o seqs[i] \in R
    <3>1. i - 1 \in D
      BY <2>1
    <3>2. f[i - 1] \in R
      BY <3>1
    <3> QED  BY <1>0, <3>2
  <2> HIDE DEF R
  <2> QED  BY <1>0, <2>1
<1>2. IsRecursion(F, D, R, size, Len(seqs))
  <2>1. ASSUME NEW f \in [D -> R], NEW g \in [D -> R], NEW x \in D,
               \A y \in D : size[y] < size[x] => f[y] = g[y]
        PROVE  F[f][x] = F[g][x]
    <3>1. CASE x # 1
      <4>1. x - 1 \in D /\ size[x - 1] < size[x]
        BY <3>1
      <4>2. f[x - 1] = g[x - 1]
        BY <2>1, <4>1
      <4> HIDE DEF R
      <4> QED  BY <4>2
    <3>2. CASE x = 1
      <4> HIDE DEF R
      <4> QED  BY <3>2
    <3> QED  BY <3>1, <3>2
  <2>2. F \in [[D -> R] -> [D -> R]]
    <3> HIDE DEF R, D
    <3> QED  BY <1>1
  <2>3. Len(seqs) \in Nat /\ size \in [D -> 0 .. Len(seqs)]
    OBVIOUS
  <2> HIDE DEF F, D, R, size
  <2> QED  BY <2>1, <2>2, <2>3 DEF IsRecursion
<1>3. \E f : f = Rule(f)
  <2>1. f0 \in [D -> R]
    OBVIOUS
  <2>2. PICK f \in [D -> R] : f = F[f]
    <3> HIDE DEF F, D, R, size, f0
    <3> QED  BY <1>2, <2>1, RecursionHasOneSolution
  <2>3. f = Rule(f)
    <3> HIDE DEF R, D
    <3> QED  BY <2>2
  <2> QED  BY <2>3
<1> DEFINE g == CHOOSE f : f = Rule(f)
<1>4. g = Rule(g)
  <2> HIDE DEF Rule
  <2> QED  BY <1>3
<1>5. FlattenSeq(seqs) = g[Len(seqs)]
  BY Zenon DEF FlattenSeq
<1> HIDE DEF g
<1>6. \A i \in D : i # 1 => g[i] = g[i - 1] \o seqs[i]
  <2> HIDE DEF D
  <2> TAKE i \in D
  <2>1. g[i] = IF i = 1 THEN seqs[i] ELSE g[i - 1] \o seqs[i]
    BY <1>4, Zenon
  <2> QED  BY <2>1, Zenon
<1> DEFINE S == {n \in Nat : n + 1 \in D => g[n + 1] \in R}
<1>7. 0 \in S
  BY <1>0, <1>4
<1>8. ASSUME NEW n \in Nat, n \in S
      PROVE  n + 1 \in S
  <2> SUFFICES ASSUME n + 1 + 1 \in D PROVE g[n + 1 + 1] \in R
    OBVIOUS
  <2>1. PICK k \in D : k = n + 1 + 1 /\ k # 1 /\ k - 1 = n + 1 /\ k - 1 \in D
    OBVIOUS
  <2>2. g[k - 1] \in R
    BY <1>8, <2>1
  <2>3. g[k] = g[k - 1] \o seqs[k]
    <3> HIDE DEF D, R, S
    <3> QED  BY <1>6, <2>1, Zenon
  <2>4. seqs[k] \in R
    BY <1>0
  <2>5. g[k] \in R
    BY <2>2, <2>3, <2>4
  <2> QED  BY <2>1, <2>5
<1>9. \A i \in D : g[i] \in R
  <2>1. Nat \subseteq S
    <3> HIDE DEF S
    <3> QED  BY <1>7, <1>8, SetInduction
  <2> TAKE i \in D
  <2>2. i - 1 \in S /\ i - 1 + 1 = i
    <3>1. i - 1 \in Nat
      OBVIOUS
    <3> HIDE DEF S
    <3> QED  BY <2>1, <3>1
  <2> HIDE DEF R
  <2> QED  BY <2>2
<1>10. g \in [D -> R]
  <2> HIDE DEF D, R
  <2> QED  BY <1>4, <1>9
<1>11. g[1] = seqs[1] /\ \A i \in 2 .. Len(seqs) : g[i] = g[i - 1] \o seqs[i]
  <2>1. 1 \in D
    OBVIOUS
  <2>2. \A i \in 2 .. Len(seqs) : i \in D /\ i # 1
    OBVIOUS
  <2> HIDE DEF D
  <2> QED  BY <1>4, <2>1, <2>2
<1> QED  BY <1>5, <1>10, <1>11

\* What the repairs make of the token at i.
Removed(s, i) == s[i] = Comma /\ i < Len(s) /\ s[i + 1] = Close

\* Each token of s stands in Repair(s) at its place p[i], unless it is removed.
Places(s, r, p) ==
    /\ p \in [0 .. Len(s) -> Nat]
    /\ p[0] = 0 /\ p[Len(s)] = Len(r)
    /\ \A i \in 1 .. Len(s) :
          /\ Removed(s, i) => p[i] = p[i - 1]
          /\ ~Removed(s, i) => p[i] = p[i - 1] + 1 /\ r[p[i]] = Respelled(s[i])
    /\ \A i, j \in 0 .. Len(s) : i <= j => p[i] <= p[j]

\* There are such places.
LEMMA RepairPlaces ==
    ASSUME NEW s \in Seq(Tokens), Len(s) # 0
    PROVE  Repair(s) \in Seq(Tokens) /\ \E p : Places(s, Repair(s), p)
<1> DEFINE N == Len(s)
           piece(i) == CASE s[i] = Literal -> <<Member>>
                         [] s[i] = Comma /\ i < Len(s) /\ s[i + 1] = Close -> <<>>
                         [] OTHER -> <<s[i]>>
           seqs == [i \in DOMAIN s |-> piece(i)]
<1>1. ASSUME NEW i \in 1 .. N
      PROVE  /\ Removed(s, i) => piece(i) = <<>>
             /\ ~Removed(s, i) => piece(i) = <<Respelled(s[i])>>
             /\ Respelled(s[i]) \in Tokens
  <2>1. CASE s[i] = Literal
    <3>1. ~Removed(s, i) /\ piece(i) = <<Member>> /\ Respelled(s[i]) = Member /\ Member \in Tokens
      BY <2>1 DEF Removed, Literal, Comma, Respelled, Tokens
    <3> QED  BY <3>1
  <2>2. CASE s[i] # Literal /\ Removed(s, i)
    BY <2>2 DEF Removed, Respelled
  <2>3. CASE s[i] # Literal /\ ~Removed(s, i)
    BY <2>3 DEF Removed, Respelled
  <2> QED  BY <2>1, <2>2, <2>3
<1>2. \A i \in 1 .. N : piece(i) \in Seq(Tokens)
  <2> TAKE i \in 1 .. N
  <2>1. <<>> \in Seq(Tokens) /\ \A x \in Tokens : <<x>> \in Seq(Tokens)
    OBVIOUS
  <2> HIDE DEF piece, N
  <2> QED  BY <1>1, <2>1
<1>3. seqs \in Seq(Seq(Tokens)) /\ Len(seqs) = N /\ \A i \in 1 .. N : seqs[i] = piece(i)
  <2>1. DOMAIN s = 1 .. N /\ N \in Nat
    OBVIOUS
  <2>2. seqs \in [1 .. N -> Seq(Tokens)]
    <3> HIDE DEF piece, N
    <3> QED  BY <1>2, <2>1
  <2>3. seqs \in Seq(Seq(Tokens))
    <3> HIDE DEF piece, N, seqs
    <3> QED  BY <2>1, <2>2
  <2>4. Len(seqs) = N
    <3> HIDE DEF piece, N
    <3> QED  BY <2>1, <2>3
  <2>5. \A i \in 1 .. N : seqs[i] = piece(i)
    <3> HIDE DEF piece, N
    <3> QED  BY <2>1
  <2> QED  BY <2>3, <2>4, <2>5
<1>4. Repair(s) = FlattenSeq(seqs)
  BY Zenon DEF Repair
<1> HIDE DEF piece, seqs
<1>5. PICK g \in [1 .. N -> Seq(Tokens)] :
         /\ g[1] = seqs[1]
         /\ \A i \in 2 .. N : g[i] = g[i - 1] \o seqs[i]
         /\ Repair(s) = g[N]
  <2>1. Len(seqs) # 0
    BY <1>3
  <2>2. \E g \in [1 .. Len(seqs) -> Seq(Tokens)] :
           /\ g[1] = seqs[1]
           /\ \A i \in 2 .. Len(seqs) : g[i] = g[i - 1] \o seqs[i]
           /\ FlattenSeq(seqs) = g[Len(seqs)]
    BY <1>3, <2>1, Flattening
  <2> QED  BY <1>3, <1>4, <2>2, Zenon
<1> DEFINE p == [i \in 0 .. N |-> IF i = 0 THEN 0 ELSE Len(g[i])]
<1>6. /\ p \in [0 .. N -> Nat] /\ p[0] = 0 /\ \A i \in 1 .. N : p[i] = Len(g[i])
      /\ N \in Nat /\ N \in 1 .. N
  <2>1. \A i \in 1 .. N : g[i] \in Seq(Tokens)
    OBVIOUS
  <2>2. \A i \in 1 .. N : Len(g[i]) \in Nat
    BY <2>1
  <2> QED  BY <2>2
<1> HIDE DEF p, N
<1>7. ASSUME NEW i \in 1 .. N
      PROVE  /\ g[i] \in Seq(Tokens)
             /\ Removed(s, i) => p[i] = p[i - 1]
             /\ ~Removed(s, i) => p[i] = p[i - 1] + 1 /\ g[i][p[i]] = Respelled(s[i])
             /\ i # 1 => \A l \in 1 .. p[i - 1] : g[i][l] = g[i - 1][l]
  <2>1. g[i] \in Seq(Tokens) /\ seqs[i] \in Seq(Tokens)
    BY <1>2, <1>3
  <2>2. CASE i = 1
    <3>1. g[1] = piece(1) /\ p[1] = Len(g[1]) /\ p[1 - 1] = 0
      BY <1>3, <1>5, <1>6, <2>2
    <3>2. Removed(s, 1) => Len(g[1]) = 0
      BY <1>1, <2>2, <3>1
    <3>3. ~Removed(s, 1) => Len(g[1]) = 1 /\ g[1][1] = Respelled(s[1])
      BY <1>1, <2>2, <3>1
    <3> QED  BY <2>1, <2>2, <3>1, <3>2, <3>3
  <2>3. CASE i # 1
    <3>0. i \in 2 .. N /\ i - 1 \in 1 .. N
      BY <1>6, <2>3
    <3>1. g[i] = g[i - 1] \o piece(i) /\ g[i - 1] \in Seq(Tokens) /\ piece(i) \in Seq(Tokens)
      BY <1>2, <1>3, <1>5, <3>0
    <3>2. p[i] = Len(g[i]) /\ p[i - 1] = Len(g[i - 1]) /\ Len(g[i - 1]) \in Nat
      BY <1>6, <3>0, <3>1
    <3>3. /\ Len(g[i]) = Len(g[i - 1]) + Len(piece(i))
          /\ \A l \in 1 .. Len(g[i - 1]) : g[i][l] = g[i - 1][l]
      BY <3>1
    <3>4. Removed(s, i) => p[i] = p[i - 1]
      <4>1. Removed(s, i) => Len(piece(i)) = 0
        BY <1>1
      <4> QED  BY <3>2, <3>3, <4>1
    <3>5. ASSUME ~Removed(s, i)
          PROVE  p[i] = p[i - 1] + 1 /\ g[i][p[i]] = Respelled(s[i])
      <4>1. Len(piece(i)) = 1 /\ piece(i)[1] = Respelled(s[i])
        BY <1>1, <3>5
      <4>2. (g[i - 1] \o piece(i))[Len(g[i - 1]) + 1] = piece(i)[1]
        <5>1. /\ Len(g[i - 1]) + 1 \in 1 .. Len(g[i - 1]) + Len(piece(i))
              /\ ~(Len(g[i - 1]) + 1 <= Len(g[i - 1]))
              /\ Len(g[i - 1]) + 1 - Len(g[i - 1]) = 1
          BY <3>2, <4>1
        <5> QED  BY <3>1, <5>1, ConcatProperties
      <4> QED  BY <3>1, <3>2, <3>3, <4>1, <4>2
    <3> QED  BY <2>1, <3>2, <3>3, <3>4, <3>5
  <2> QED  BY <2>2, <2>3
<1>8. \A i \in 1 .. N : p[i - 1] <= p[i] /\ p[i - 1] \in Nat /\ p[i] \in Nat
  <2> TAKE i \in 1 .. N
  <2>1. i - 1 \in 0 .. N /\ i \in 0 .. N
    BY <1>6
  <2>2. p[i - 1] \in Nat /\ p[i] \in Nat
    BY <1>6, <2>1
  <2> QED  BY <1>7, <2>2
\* From one place to a later one nothing moves.
<1>9. ASSUME NEW i \in 0 .. N, NEW j \in i .. N
      PROVE  p[i] <= p[j] /\ (i # 0 => \A l \in 1 .. p[i] : g[j][l] = g[i][l])
  <2> DEFINE Good(k) == p[i] <= p[k] /\ (i # 0 => \A l \in 1 .. p[i] : g[k][l] = g[i][l])
             S == {n \in Nat : i + n <= N => Good(i + n)}
  <2>1. 0 \in S
    <3>1. p[i] \in Nat /\ i + 0 = i
      BY <1>6
    <3>2. Good(i)
      BY <3>1
    <3> HIDE DEF Good
    <3> QED  BY <3>1, <3>2
  <2>2. ASSUME NEW n \in Nat, n \in S
        PROVE  n + 1 \in S
    <3> SUFFICES ASSUME i + (n + 1) <= N PROVE Good(i + (n + 1))
      OBVIOUS
    <3> DEFINE k == i + n
    <3>1. /\ k + 1 \in 1 .. N /\ k \in 0 .. N /\ k + 1 - 1 = k /\ i + (n + 1) = k + 1
          /\ (i # 0 => k + 1 # 1)
      BY <1>6
    <3>2. Good(k)
      BY <1>6, <2>2
    <3> HIDE DEF k, S
    <3>3. p[i] <= p[k] /\ p[k] <= p[k + 1] /\ p[i] \in Nat /\ p[k] \in Nat /\ p[k + 1] \in Nat
      BY <1>6, <1>8, <3>1, <3>2
    <3>4. ASSUME i # 0, NEW l \in 1 .. p[i]
          PROVE  g[k + 1][l] = g[i][l]
      <4>1. l \in 1 .. p[k]
        BY <3>3
      <4>2. g[k + 1][l] = g[k][l]
        BY <1>7, <3>1, <3>4, <4>1
      <4> QED  BY <3>2, <3>4, <4>2
    <3>5. Good(k + 1)
      BY <3>3, <3>4
    <3> HIDE DEF Good
    <3> QED  BY <3>1, <3>5
  <2>3. Nat \subseteq S
    <3> HIDE DEF S
    <3> QED  BY <2>1, <2>2, SetInduction
  <2>4. j - i \in Nat /\ i + (j - i) = j /\ j <= N
    BY <1>6
  <2>5. Good(j)
    <3>1. j - i \in S
      BY <2>3, <2>4
    <3> HIDE DEF Good
    <3> QED  BY <2>4, <3>1
  <2> QED  BY <2>5
<1>10. Repair(s) = g[N] /\ g[N] \in Seq(Tokens)
  BY <1>5, <1>6
<1>11. ASSUME NEW i \in 1 .. N, ~Removed(s, i)
       PROVE  p[i] = p[i - 1] + 1 /\ g[N][p[i]] = Respelled(s[i])
  <2>1. p[i] = p[i - 1] + 1 /\ g[i][p[i]] = Respelled(s[i])
    BY <1>7, <1>11
  <2>2. p[i] \in 1 .. p[i]
    BY <1>8, <2>1
  <2>3. i \in 0 .. N /\ N \in i .. N /\ i # 0
    BY <1>6
  <2>4. g[N][p[i]] = g[i][p[i]]
    BY <1>9, <2>2, <2>3
  <2> QED  BY <2>1, <2>4
<1>12. Places(s, Repair(s), p)
  <2>1. p[N] = Len(Repair(s))
    BY <1>6, <1>10
  <2>2. \A i \in 1 .. N : Removed(s, i) => p[i] = p[i - 1]
    BY <1>7
  <2>3. \A i, j \in 0 .. N : i <= j => p[i] <= p[j]
    <3> TAKE i, j \in 0 .. N
    <3>1. i <= j => j \in i .. N
      BY <1>6
    <3> QED  BY <1>9, <3>1
  <2> QED  BY <1>6, <1>10, <1>11, <2>1, <2>2, <2>3 DEF Places, N
<1> QED  BY <1>10, <1>12

\* A removed comma ends an escape, in a string; nothing else sees it is gone.
Alike(q, r) ==
    /\ q.depth = r.depth
    /\ q.inString <=> r.inString
    /\ (q.escaped => q.inString) /\ (r.escaped => r.inString)
Same(q, r) == Alike(q, r) /\ (q.escaped <=> r.escaped)
AfterComma(q, r) == Alike(q, r) /\ ~q.escaped

\* A token that is kept, in its repaired spelling or not.
LEMMA KeptToken ==
    ASSUME NEW q \in States, NEW r \in States, NEW v \in States, NEW w \in States, NEW x,
           Same(q, r) \/ (x = Close /\ AfterComma(q, r)),
           Advances(q, x, v), Advances(r, Respelled(x), w)
    PROVE  Same(v, w)
<1> USE DEF Open, Close, Quote, Slash, Literal, Member, Same, AfterComma
<1> DEFINE y == Respelled(x)
<1>1. /\ q.depth \in Int /\ r.depth \in Int /\ v.depth \in Int /\ w.depth \in Int
      /\ q.depth = r.depth
  BY DEF States, Alike
<1>2. /\ x = Open <=> y = Open
      /\ x = Close <=> y = Close
      /\ x = Quote <=> y = Quote
      /\ x = Slash <=> y = Slash
  BY DEF Respelled
<1>3. /\ q.inString <=> r.inString
      /\ q.escaped => q.inString
      /\ r.escaped => r.inString
      /\ (q.escaped <=> r.escaped) \/ (x = Close /\ ~q.escaped)
  BY DEF Alike
<1>4. /\ v.inString <=> \/ q.inString /\ (q.escaped \/ x # Quote)
                        \/ ~q.inString /\ x = Quote
      /\ v.escaped <=> \/ q.inString /\ ~q.escaped /\ x = Slash
                       \/ ~q.inString /\ q.escaped
      /\ w.inString <=> \/ r.inString /\ (r.escaped \/ y # Quote)
                        \/ ~r.inString /\ y = Quote
      /\ w.escaped <=> \/ r.inString /\ ~r.escaped /\ y = Slash
                       \/ ~r.inString /\ r.escaped
  BY DEF Advances
<1>5. /\ q.inString \/ x \notin {Open, Close} => v.depth = q.depth
      /\ ~q.inString /\ x = Open => v.depth = q.depth + 1
      /\ ~q.inString /\ x = Close => v.depth = q.depth - 1
      /\ r.inString \/ y \notin {Open, Close} => w.depth = r.depth
      /\ ~r.inString /\ y = Open => w.depth = r.depth + 1
      /\ ~r.inString /\ y = Close => w.depth = r.depth - 1
  BY DEF Advances
<1>6. x # Close \/ (x # Quote /\ x # Slash)
  OBVIOUS
<1> HIDE DEF y, Open, Close, Quote, Slash, Literal, Member
<1>7. v.inString <=> w.inString
  BY <1>2, <1>3, <1>4, <1>6
<1>8. v.escaped <=> w.escaped
  BY <1>2, <1>3, <1>4, <1>6
<1>9. (v.escaped => v.inString) /\ (w.escaped => w.inString)
  <2>1. ~(x = Slash /\ x = Quote)
    BY DEF Slash, Quote
  <2> QED  BY <1>2, <1>3, <1>4, <2>1
<1>10. v.depth = w.depth
  <2>1. CASE q.inString \/ x \notin {Open, Close}
    BY <1>1, <1>2, <1>3, <1>5, <2>1
  <2>2. CASE ~q.inString /\ x = Open
    <3>1. v.depth = q.depth + 1 /\ w.depth = r.depth + 1
      BY <1>2, <1>3, <1>5, <2>2
    <3> QED  BY <1>1, <3>1
  <2>3. CASE ~q.inString /\ x = Close
    <3>1. v.depth = q.depth - 1 /\ w.depth = r.depth - 1
      BY <1>2, <1>3, <1>5, <2>3
    <3> QED  BY <1>1, <3>1
  <2> QED  BY <2>1, <2>2, <2>3
<1> QED  BY <1>7, <1>8, <1>9, <1>10 DEF Alike

\* A comma that is removed.
LEMMA RemovedComma ==
    ASSUME NEW q \in States, NEW r \in States, NEW v \in States,
           Same(q, r), Advances(q, Comma, v)
    PROVE  AfterComma(v, r)
<1> USE DEF Open, Close, Quote, Slash, Comma, Same, AfterComma
<1>1. v.depth = q.depth
  BY DEF Advances
<1>2. v.inString <=> q.inString
  BY DEF Advances, Alike
<1>3. ~v.escaped
  BY DEF Advances, Alike
<1> QED  BY <1>1, <1>2, <1>3 DEF Alike

\* The repairs change neither the depth nor the strings of what they keep.
LEMMA RepairedScan ==
    ASSUME NEW s \in Seq(Tokens), NEW r \in Seq(Tokens), NEW p, Places(s, r, p)
    PROVE  \A i \in 0 .. Len(s) : Scan(s, 1)[i].depth = Scan(r, 1)[p[i]].depth
<1> DEFINE N == Len(s)
           M == Len(r)
           removed(i) == i # 0 /\ Removed(s, i)
           Good(i) == IF removed(i) THEN AfterComma(Scan(s, 1)[i], Scan(r, 1)[p[i]])
                      ELSE Same(Scan(s, 1)[i], Scan(r, 1)[p[i]])
           S == {i \in Nat : i <= N => Good(i)}
<1>0. N \in Nat /\ M \in Nat /\ 1 \in 1 .. N + 1 /\ 1 \in 1 .. M + 1
  OBVIOUS
<1>1. /\ p \in [0 .. N -> Nat] /\ p[0] = 0 /\ p[N] = M
      /\ \A i \in 1 .. N : /\ Removed(s, i) => p[i] = p[i - 1]
                           /\ ~Removed(s, i) => p[i] = p[i - 1] + 1 /\ r[p[i]] = Respelled(s[i])
      /\ \A i, j \in 0 .. N : i <= j => p[i] <= p[j]
  BY DEF Places
<1>2. \A i \in 0 .. N : p[i] \in 0 .. M
  <2> TAKE i \in 0 .. N
  <2>1. p[i] \in Nat /\ p[i] <= p[N]
    BY <1>0, <1>1
  <2> QED  BY <1>1, <2>1
<1>3. /\ \A i \in 0 .. N : Scan(s, 1)[i] \in States
      /\ \A i \in 0 .. M : Scan(r, 1)[i] \in States
  <2>1. \A i \in 1 - 1 .. Len(s) : Scan(s, 1)[i] \in States
    BY <1>0, ScanSteps
  <2>2. \A i \in 1 - 1 .. Len(r) : Scan(r, 1)[i] \in States
    BY <1>0, ScanSteps
  <2> QED  BY <2>1, <2>2
<1>4. /\ \A i \in 1 .. N : Advances(Scan(s, 1)[i - 1], s[i], Scan(s, 1)[i])
      /\ \A i \in 1 .. M : Advances(Scan(r, 1)[i - 1], r[i], Scan(r, 1)[i])
  BY <1>0, ScanSteps
<1>5. 0 \in S
  <2>1. Scan(s, 1)[1 - 1] = Outside /\ Scan(r, 1)[1 - 1] = Outside
    BY <1>0, ScanSteps
  <2>2. Scan(s, 1)[0] = Outside /\ Scan(r, 1)[p[0]] = Outside
    BY <1>1, <2>1
  <2>3. Same(Outside, Outside) /\ ~removed(0)
    BY DEF Same, Alike, Outside
  <2> HIDE DEF removed
  <2> QED  BY <2>2, <2>3
<1> HIDE DEF N, M
<1>6. ASSUME NEW i \in Nat, i \in S
      PROVE  i + 1 \in S
  <2> SUFFICES ASSUME i + 1 <= N
               PROVE  Good(i + 1)
    OBVIOUS
  <2>1. i \in 0 .. N /\ i + 1 \in 1 .. N /\ i + 1 \in 0 .. N /\ i + 1 - 1 = i /\ i <= N
    BY <1>0
  <2>2. Good(i)
    BY <1>6, <2>1
  <2>3. /\ Scan(s, 1)[i] \in States /\ Scan(s, 1)[i + 1] \in States
        /\ Scan(r, 1)[p[i]] \in States /\ Scan(r, 1)[p[i + 1]] \in States
        /\ p[i] \in Nat /\ p[i + 1] \in 0 .. M
    BY <1>0, <1>1, <1>2, <1>3, <2>1
  <2>4. Advances(Scan(s, 1)[i], s[i + 1], Scan(s, 1)[i + 1])
    BY <1>4, <2>1
  <2>5. removed(i) => s[i + 1] = Close
    BY DEF Removed
  <2> HIDE DEF S
  <2>6. CASE Removed(s, i + 1)
    <3>1. s[i + 1] = Comma /\ p[i + 1] = p[i]
      BY <1>1, <2>1, <2>6 DEF Removed
    <3>2. ~removed(i)
      <4>1. Comma # Close
        BY DEF Comma, Close
      <4> QED  BY <2>5, <3>1, <4>1
    <3>3. Same(Scan(s, 1)[i], Scan(r, 1)[p[i]])
      BY <2>2, <3>2
    <3>4. removed(i + 1)
      BY <2>6
    <3>5. AfterComma(Scan(s, 1)[i + 1], Scan(r, 1)[p[i]])
      BY <2>3, <2>4, <3>1, <3>3, RemovedComma
    <3> HIDE DEF removed
    <3> QED  BY <3>1, <3>4, <3>5
  <2>7. CASE ~Removed(s, i + 1)
    <3>1. p[i + 1] = p[i] + 1 /\ r[p[i + 1]] = Respelled(s[i + 1])
      BY <1>1, <2>1, <2>7
    <3>2. p[i + 1] \in 1 .. M /\ p[i + 1] - 1 = p[i]
      BY <2>3, <3>1
    <3>3. Advances(Scan(r, 1)[p[i]], Respelled(s[i + 1]), Scan(r, 1)[p[i + 1]])
      <4>1. Advances(Scan(r, 1)[p[i + 1] - 1], r[p[i + 1]], Scan(r, 1)[p[i + 1]])
        BY <1>4, <3>2
      <4> QED  BY <3>1, <3>2, <4>1
    <3>4. ~removed(i + 1)
      BY <2>7
    <3> HIDE DEF removed
    <3>5. Same(Scan(s, 1)[i + 1], Scan(r, 1)[p[i + 1]])
      <4>1. \/ Same(Scan(s, 1)[i], Scan(r, 1)[p[i]])
            \/ s[i + 1] = Close /\ AfterComma(Scan(s, 1)[i], Scan(r, 1)[p[i]])
        BY <2>2, <2>5
      <4> HIDE DEF Good
      <4> QED  BY <2>3, <2>4, <3>3, <4>1, KeptToken
    <3> QED  BY <3>4, <3>5
  <2> QED  BY <2>6, <2>7
<1>7. Nat \subseteq S
  <2> HIDE DEF S
  <2> QED  BY <1>5, <1>6, SetInduction
<1>8. ASSUME NEW i \in 0 .. N
      PROVE  Scan(s, 1)[i].depth = Scan(r, 1)[p[i]].depth
  <2>1. i \in S /\ i <= N
    <3> HIDE DEF S
    <3> QED  BY <1>0, <1>7
  <2>2. Alike(Scan(s, 1)[i], Scan(r, 1)[p[i]])
    BY <2>1 DEF Same, AfterComma
  <2> QED  BY <2>2 DEF Alike
<1> QED  BY <1>8 DEF N

\* Nothing is made of nothing.
LEMMA EmptyIsRepaired ==
    ASSUME NEW s \in Seq(Tokens), Len(s) = 0
    PROVE  Repair(s) = <<>>
<1>1. s = <<>>
  OBVIOUS
<1>2. DOMAIN s = {}
  BY <1>1
<1> DEFINE piece(i) == CASE s[i] = Literal -> <<Member>>
                         [] s[i] = Comma /\ i < Len(s) /\ s[i + 1] = Close -> <<>>
                         [] OTHER -> <<s[i]>>
           seqs == [i \in DOMAIN s |-> piece(i)]
<1>3. Repair(s) = FlattenSeq(seqs)
  BY Zenon DEF Repair
<1> HIDE DEF piece
<1>4. seqs = <<>>
  BY <1>2
<1>5. FlattenSeq(<<>>) = <<>>
  <2>1. Len(<<>>) = 0
    OBVIOUS
  <2> QED  BY <2>1, Zenon DEF FlattenSeq
<1> HIDE DEF seqs
<1> QED  BY <1>3, <1>4, <1>5

\* The repairs of _repair make nothing balanced that was not.
THEOREM RepairedIsBalanced ==
    ASSUME NEW s \in Seq(Tokens)
    PROVE  Repair(s) \in Seq(Tokens) /\ (IsBalanced(Repair(s)) => IsBalanced(s))
<1> DEFINE r == Repair(s)
           N == Len(s)
           M == Len(r)
<1>1. CASE N = 0
  <2>1. r = <<>>
    BY <1>1, EmptyIsRepaired
  <2>2. ~IsBalanced(<<>>) /\ <<>> \in Seq(Tokens)
    <3>1. <<>> \in Seq(Tokens) /\ ~(1 < Len(<<>>))
      OBVIOUS
    <3> QED  BY <3>1, IsBalancedIsObject DEF Object
  <2> HIDE DEF r
  <2> QED  BY <2>1, <2>2 DEF r
<1>2. CASE N # 0
  <2>1. r \in Seq(Tokens)
    BY <1>2, RepairPlaces
  <2>2. PICK p : Places(s, r, p)
    BY <1>2, RepairPlaces
  <2> SUFFICES ASSUME IsBalanced(r) PROVE IsBalanced(s)
    BY <2>1
  <2> HIDE DEF r
  <2>3. /\ p \in [0 .. N -> Nat] /\ p[0] = 0 /\ p[N] = M
        /\ \A i \in 1 .. N : /\ Removed(s, i) => p[i] = p[i - 1]
                             /\ ~Removed(s, i) => p[i] = p[i - 1] + 1 /\ r[p[i]] = Respelled(s[i])
        /\ \A i, j \in 0 .. N : i <= j => p[i] <= p[j]
    BY <2>2 DEF Places
  <2>4. 1 < M /\ r[1] = Open /\ M \in Nat /\ N \in Nat /\ N \in 1 .. N /\ 1 \in 1 .. N
    BY <1>2, <2>1, IsBalancedIsObject DEF Object
  <2>5. /\ Scan(r, 1)[M].depth = 0
        /\ \A m \in 1 .. M - 1 : Scan(r, 1)[m].depth >= 1
    <3>1. SubSeq(r, 1, M) = r /\ 1 \in 1 .. M /\ M \in 1 + 1 .. M
      BY <2>1, <2>4
    <3> QED  BY <2>1, <2>4, <3>1, BalancedSubSeq
  <2>6. ~Removed(s, N) /\ p[N] = p[N - 1] + 1
    <3>1. ~Removed(s, N)
      BY <2>4 DEF Removed
    <3> QED  BY <2>3, <2>4, <3>1
  <2>7. ~Removed(s, 1)
    <3> SUFFICES ASSUME Removed(s, 1) PROVE FALSE
      OBVIOUS
    <3>1. p[1] = 0 /\ s[2] = Close /\ 2 \in 1 .. N
      <4>1. s[1 + 1] = Close /\ 1 < N
        BY DEF Removed
      <4>2. p[1] = p[1 - 1]
        BY <2>3, <2>4
      <4> QED  BY <2>3, <2>4, <4>1, <4>2
    <3>2. ~Removed(s, 2)
      BY <3>1 DEF Removed, Comma, Close
    <3>3. p[2] = p[2 - 1] + 1 /\ r[p[2]] = Respelled(s[2])
      BY <2>3, <3>1, <3>2
    <3>4. r[1] = Close
      <4>1. p[2] = 1
        BY <3>1, <3>3
      <4>2. Respelled(Close) = Close
        BY DEF Respelled, Close, Literal
      <4> QED  BY <3>1, <3>3, <4>1, <4>2
    <3> QED  BY <2>4, <3>4 DEF Open, Close
  <2>8. p[1] = 1 /\ s[1] = Open
    <3>1. p[1] = p[1 - 1] + 1 /\ r[p[1]] = Respelled(s[1])
      BY <2>3, <2>4, <2>7
    <3>2. p[1] = 1
      BY <2>3, <3>1
    <3>3. Respelled(s[1]) = Open
      BY <2>4, <3>1, <3>2
    <3> QED  BY <3>2, <3>3 DEF Respelled, Open, Literal, Member
  <2>9. N \in 1 + 1 .. N
    <3>1. N # 1
      BY <2>3, <2>4, <2>8
    <3> HIDE DEF N
    <3> QED  BY <2>4, <3>1
  <2>10. \A i \in 0 .. N : Scan(s, 1)[i].depth = Scan(r, 1)[p[i]].depth
    BY <2>1, <2>2, RepairedScan
  <2>11. Scan(s, 1)[N].depth = 0
    BY <2>3, <2>4, <2>5, <2>10
  <2>12. ASSUME NEW i \in 1 .. N - 1
         PROVE  Scan(s, 1)[i].depth >= 1
    <3>1. i \in 0 .. N /\ N - 1 \in 0 .. N /\ 1 \in 0 .. N /\ 1 <= i /\ i <= N - 1
      BY <2>4
    <3>2. p[1] <= p[i] /\ p[i] <= p[N - 1] /\ p[i] \in Nat /\ p[N - 1] \in Nat
      BY <2>3, <3>1
    <3>3. p[i] \in 1 .. M - 1
      BY <2>3, <2>4, <2>6, <2>8, <3>2
    <3> QED  BY <2>5, <2>10, <3>1, <3>3
  <2>13. SubSeq(s, 1, N) = s
    OBVIOUS
  <2> QED  BY <2>4, <2>8, <2>9, <2>11, <2>12, <2>13, BalancedSubSeq
<1> QED  BY <1>1, <1>2

-----------------------------------------------------------------------------
\* The parser.

\* What is left without the fences is a text again.
LEMMA StrippedReplies ==
    ASSUME NEW t \in Seq(Tokens)
    PROVE  StripFences(t) \in Seq(Tokens)
<1> DEFINE fences == Positions(t, Fence)
           open   == First(fences)
           close  == First(fences \ {open})
<1>1. ASSUME NEW S \in SUBSET DOMAIN t
      PROVE  First(S) \in 0 .. Len(t)
  <2>1. CASE S = {}
    BY <2>1 DEF First
  <2>2. CASE S # {}
    <3>1. S \in SUBSET Nat
      OBVIOUS
    <3>2. Min(S) \in S
      BY <2>2, <3>1, MinIsSmallest
    <3> QED  BY <2>2, <3>2 DEF First
  <2> QED  BY <2>1, <2>2
<1>2. fences \in SUBSET DOMAIN t
  BY DEF Positions
<1> HIDE DEF fences
<1>3. open \in 0 .. Len(t) /\ close \in 0 .. Len(t)
  BY <1>1, <1>2
<1>4. StripFences(t) = IF close = 0 THEN t ELSE SubSeq(t, open + 1, close - 1)
  BY DEF StripFences, fences
<1> HIDE DEF open, close
<1>5. SubSeq(t, open + 1, close - 1) \in Seq(Tokens)
  <2>1. \A i \in open + 1 .. close - 1 : t[i] \in Tokens
    BY <1>3
  <2>2. open + 1 \in Int /\ close - 1 \in Int
    BY <1>3
  <2> QED  BY <2>1, <2>2, SubSeqProperties
<1> QED  BY <1>4, <1>5

\* Candidates has two or four elements, in this order.
LEMMA Joined ==
    ASSUME NEW a, NEW b, NEW d, NEW e
    PROVE  /\ DOMAIN (<<a>> \o <<b>>) = {1, 2}
           /\ (<<a>> \o <<b>>)[1] = a /\ (<<a>> \o <<b>>)[2] = b
           /\ DOMAIN (<<a, b>> \o <<d, e>>) = {1, 2, 3, 4}
           /\ (<<a, b>> \o <<d, e>>)[1] = a /\ (<<a, b>> \o <<d, e>>)[2] = b
           /\ (<<a, b>> \o <<d, e>>)[3] = d /\ (<<a, b>> \o <<d, e>>)[4] = e
<1> DEFINE S == {a, b, d, e}
           u == <<a>> \o <<b>>
           v == <<a, b>> \o <<d, e>>
<1>1. /\ <<a>> \in Seq(S) /\ <<b>> \in Seq(S) /\ Len(<<a>>) = 1 /\ Len(<<b>>) = 1
      /\ <<a, b>> \in Seq(S) /\ <<d, e>> \in Seq(S) /\ Len(<<a, b>>) = 2 /\ Len(<<d, e>>) = 2
  OBVIOUS
<1>2. /\ u \in Seq(S) /\ Len(u) = 2
      /\ \A i \in 1 .. 2 : u[i] = IF i <= 1 THEN <<a>>[i] ELSE <<b>>[i - 1]
      /\ v \in Seq(S) /\ Len(v) = 4
      /\ \A i \in 1 .. 4 : v[i] = IF i <= 2 THEN <<a, b>>[i] ELSE <<d, e>>[i - 2]
  <2> HIDE DEF S
  <2> QED  BY <1>1, ConcatProperties
<1> HIDE DEF S, u, v
<1>3. DOMAIN u = {1, 2} /\ DOMAIN v = {1, 2, 3, 4}
  <2>1. DOMAIN u = 1 .. 2 /\ DOMAIN v = 1 .. 4
    BY <1>2
  <2> QED  BY <2>1
<1>4. u[1] = a /\ u[2] = b /\ v[1] = a /\ v[2] = b /\ v[3] = d /\ v[4] = e
  BY <1>2
<1> QED  BY <1>3, <1>4 DEF u, v

\* The first object of a reply without its fences, as it is if it is JSON, repaired if
\* that makes it so.
ObjectIn(t) ==
    LET object == FirstObject(StripFences(t))
    IN  IF object = NoObject THEN NoObject
        ELSE IF IsJson(object) THEN object
        ELSE IF IsJson(Repair(object)) THEN Repair(object) ELSE NoObject

\* parse_lead_json reads a reply of any length as the object in it, whichever of its
\* candidates json.loads takes.
LEMMA ParserIsRight ==
    ASSUME NEW t \in Seq(Tokens)
    PROVE  ParseLeadJson(t) = ObjectIn(t)
<1> DEFINE s == StripFences(t)
           x == FindJsonObject(s)
           c == Candidates(t)
           good == {i \in DOMAIN c : IsJson(c[i])}
<1>1. s \in Seq(Tokens) /\ x = FirstObject(s)
  BY StrippedReplies, FindJsonObjectIsRight
<1>2. Repair(s) \in Seq(Tokens)
  BY <1>1, RepairedIsBalanced
\* A reply that is JSON as a whole, repaired or not, is the object found in it.
<1>3. IsJson(s) \/ IsJson(Repair(s)) => x = s /\ s # NoObject
  <2>1. IsJson(s) \/ IsJson(Repair(s)) => IsBalanced(s)
    BY <1>1, <1>2, JsonIsBalanced, RepairedIsBalanced
  <2> QED  BY <1>1, <2>1, WholeObject
<1>4. /\ ParseLeadJson(t) = IF good = {} THEN NoObject ELSE c[Min(good)]
      /\ ObjectIn(t) = IF FirstObject(s) = NoObject THEN NoObject
                       ELSE IF IsJson(FirstObject(s)) THEN FirstObject(s)
                       ELSE IF IsJson(Repair(FirstObject(s))) THEN Repair(FirstObject(s))
                       ELSE NoObject
  BY DEF ParseLeadJson, ObjectIn
\* Only the object itself, or the reply when it is that object, can be JSON.
<1>5. CASE x \in {NoObject, s}
  <2>1. c = <<s>> \o <<Repair(s)>>
    <3>1. Strict(t) = <<s>>
      BY <1>5 DEF Strict
    <3>2. Repaired(<<s>>) = <<Repair(s)>>
      <4>1. DOMAIN <<s>> = {1} /\ <<s>>[1] = s
        OBVIOUS
      <4> HIDE DEF s
      <4> QED  BY <4>1 DEF Repaired
    <3> HIDE DEF s
    <3> QED  BY <3>1, <3>2, Zenon DEF Candidates
  <2>2. DOMAIN c = {1, 2} /\ c[1] = s /\ c[2] = Repair(s)
    <3> DEFINE y == Repair(s)
    <3> HIDE DEF c, s, y
    <3>1. c = <<s>> \o <<y>>
      BY <2>1 DEF y
    <3>2. DOMAIN c = {1, 2} /\ c[1] = s /\ c[2] = y
      BY <3>1, Joined
    <3> QED  BY <3>2 DEF y
  <2> HIDE DEF c, s, x
  <2>3. CASE IsJson(s)
    <3>1. 1 \in good /\ good \in SUBSET Nat /\ \A i \in good : i >= 1
      BY <2>2, <2>3
    <3>2. Min(good) = 1
      <4> HIDE DEF good
      <4>1. Min(good) \in good /\ Min(good) <= 1
        BY <3>1, MinIsSmallest
      <4>2. Min(good) \in Nat /\ Min(good) >= 1
        BY <3>1, <4>1
      <4> QED  BY <4>1, <4>2
    <3> HIDE DEF good
    <3> QED  BY <1>1, <1>3, <1>4, <2>2, <2>3, <3>1, <3>2
  <2>4. CASE ~IsJson(s) /\ IsJson(Repair(s))
    <3>1. good = {2}
      BY <2>2, <2>4
    <3>2. Min(good) = 2
      <4>1. {2} \in SUBSET Nat /\ {2} # {}
        OBVIOUS
      <4>2. Min({2}) \in {2}
        BY <4>1, MinIsSmallest
      <4> QED  BY <3>1, <4>2
    <3> HIDE DEF good
    <3>3. good # {}
      BY <3>1
    <3> QED  BY <1>1, <1>3, <1>4, <2>2, <2>4, <3>2, <3>3
  <2>5. CASE ~IsJson(s) /\ ~IsJson(Repair(s))
    <3>1. good = {}
      BY <2>2, <2>5
    <3> HIDE DEF good
    <3> QED  BY <1>1, <1>4, <1>5, <2>5, <3>1
  <2> QED  BY <2>3, <2>4, <2>5
<1>6. CASE x \notin {NoObject, s}
  <2>1. c = <<s, x>> \o <<Repair(s), Repair(x)>>
    <3>1. Strict(t) = <<s, x>>
      BY <1>6 DEF Strict
    <3>2. Repaired(<<s, x>>) = <<Repair(s), Repair(x)>>
      <4>1. DOMAIN <<s, x>> = {1, 2} /\ <<s, x>>[1] = s /\ <<s, x>>[2] = x
        OBVIOUS
      <4> HIDE DEF s, x
      <4> QED  BY <4>1 DEF Repaired
    <3> HIDE DEF s, x
    <3> QED  BY <3>1, <3>2, Zenon DEF Candidates
  <2>2. DOMAIN c = {1, 2, 3, 4} /\ c[1] = s /\ c[2] = x /\ c[3] = Repair(s) /\ c[4] = Repair(x)
    <3> DEFINE y == Repair(s)
               z == Repair(x)
    <3> HIDE DEF c, s, x, y, z
    <3>1. c = <<s, x>> \o <<y, z>>
      BY <2>1 DEF y, z
    <3>2. DOMAIN c = {1, 2, 3, 4} /\ c[1] = s /\ c[2] = x /\ c[3] = y /\ c[4] = z
      BY <3>1, Joined
    <3> QED  BY <3>2 DEF y, z
  <2>3. ~IsJson(s) /\ ~IsJson(Repair(s))
    BY <1>3, <1>6
  <2> HIDE DEF c, s, x
  <2>4. CASE IsJson(x)
    <3>1. 2 \in good /\ good \in SUBSET Nat /\ \A i \in good : i >= 2
      BY <2>2, <2>3, <2>4
    <3>2. Min(good) = 2
      <4> HIDE DEF good
      <4>1. Min(good) \in good /\ Min(good) <= 2
        BY <3>1, MinIsSmallest
      <4>2. Min(good) \in Nat /\ Min(good) >= 2
        BY <3>1, <4>1
      <4> QED  BY <4>1, <4>2
    <3> HIDE DEF good
    <3> QED  BY <1>1, <1>4, <1>6, <2>2, <2>4, <3>1, <3>2
  <2>5. CASE ~IsJson(x) /\ IsJson(Repair(x))
    <3>1. good = {4}
      BY <2>2, <2>3, <2>5
    <3>2. Min(good) = 4
      <4>1. {4} \in SUBSET Nat /\ {4} # {}
        OBVIOUS
      <4>2. Min({4}) \in {4}
        BY <4>1, MinIsSmallest
      <4> QED  BY <3>1, <4>2
    <3> HIDE DEF good
    <3>3. good # {}
      BY <3>1
    <3> QED  BY <1>1, <1>4, <1>6, <2>2, <2>5, <3>2, <3>3
  <2>6. CASE ~IsJson(x) /\ ~IsJson(Repair(x))
    <3>1. good = {}
      BY <2>2, <2>3, <2>6
    <3> HIDE DEF good
    <3> QED  BY <1>1, <1>4, <1>6, <2>6, <3>1
  <2> QED  BY <2>4, <2>5, <2>6
<1> QED  BY <1>5, <1>6

-----------------------------------------------------------------------------
\* What the reply holds and what is read of it.

\* First is the smallest, too.
LEMMA FirstIsSmallest ==
    ASSUME NEW S \in SUBSET Nat, NEW m \in S, \A n \in S : m <= n
    PROVE  First(S) = m
<1>1. Min(S) \in S /\ Min(S) <= m
  BY MinIsSmallest
<1>2. Min(S) \in Nat /\ m \in Nat /\ m <= Min(S)
  BY <1>1
<1>3. First(S) = Min(S)
  BY DEF First
<1> QED  BY <1>1, <1>2, <1>3

\* A part of a part.
LEMMA PartOfPart ==
    ASSUME NEW t \in Seq(Tokens), NEW d \in Nat, NEW e \in d .. Len(t),
           NEW a \in 1 .. e - d, NEW j \in a .. e - d
    PROVE  /\ SubSeq(t, d + 1, e) \in Seq(Tokens)
           /\ Len(SubSeq(t, d + 1, e)) = e - d
           /\ \A k \in 1 .. e - d : SubSeq(t, d + 1, e)[k] = t[k + d]
           /\ SubSeq(SubSeq(t, d + 1, e), a, j) = SubSeq(t, a + d, j + d)
<1> DEFINE s == SubSeq(t, d + 1, e)
           u == SubSeq(s, a, j)
           v == SubSeq(t, a + d, j + d)
<1>1. s \in Seq(Tokens) /\ Len(s) = e - d /\ \A k \in 1 .. e - d : s[k] = t[k + d]
  <2>1. \A k \in d + 1 .. e : t[k] \in Tokens
    OBVIOUS
  <2> QED  BY <2>1, SubSeqProperties
<1> HIDE DEF s
<1>2. u \in Seq(Tokens) /\ Len(u) = j - a + 1 /\ \A k \in 1 .. j - a + 1 : u[k] = s[a + k - 1]
  <2>1. \A k \in a .. j : s[k] \in Tokens
    BY <1>1
  <2> QED  BY <2>1, SubSeqProperties
<1>3. /\ v \in Seq(Tokens) /\ Len(v) = j - a + 1
      /\ \A k \in 1 .. j - a + 1 : v[k] = t[a + d + k - 1]
  <2>1. \A k \in a + d .. j + d : t[k] \in Tokens
    OBVIOUS
  <2>2. a + d \in Int /\ j + d \in Int /\ (j + d) - (a + d) + 1 = j - a + 1
    OBVIOUS
  <2> QED  BY <2>1, <2>2, SubSeqProperties
<1>4. \A k \in 1 .. j - a + 1 : u[k] = v[k]
  <2> TAKE k \in 1 .. j - a + 1
  <2>1. a + k - 1 \in 1 .. e - d /\ (a + k - 1) + d = a + d + k - 1
    OBVIOUS
  <2> QED  BY <1>1, <1>2, <1>3, <2>1
<1> HIDE DEF u, v
<1>5. u = v
  BY <1>2, <1>3, <1>4
<1> QED  BY <1>1, <1>5 DEF s, u, v

\* What is left without the fences is a part of the reply.
LEMMA StrippedIsPart ==
    ASSUME NEW t \in Seq(Tokens)
    PROVE  \E d \in Nat : \E e \in d .. Len(t) : StripFences(t) = SubSeq(t, d + 1, e)
<1> DEFINE fences == Positions(t, Fence)
           open   == First(fences)
           close  == First(fences \ {open})
<1>1. StripFences(t) = IF close = 0 THEN t ELSE SubSeq(t, open + 1, close - 1)
  BY DEF StripFences
<1>2. fences \in SUBSET Nat /\ \A k \in fences : k \in 1 .. Len(t)
  BY DEF Positions
<1> HIDE DEF fences
<1>3. CASE close = 0
  <2>1. SubSeq(t, 0 + 1, Len(t)) = t /\ Len(t) \in 0 .. Len(t)
    OBVIOUS
  <2> QED  BY <1>1, <1>3, <2>1
<1>4. CASE close # 0
  <2>1. fences \ {open} # {} /\ fences # {}
    BY <1>4 DEF First
  <2>2. /\ open \in fences /\ \A k \in fences : open <= k
        /\ close \in fences \ {open}
    <3>1. open = Min(fences) /\ close = Min(fences \ {open})
      BY <2>1 DEF First
    <3>2. Min(fences) \in fences /\ \A k \in fences : Min(fences) <= k
      BY <1>2, <2>1, MinIsSmallest
    <3> HIDE DEF open
    <3>3. Min(fences \ {open}) \in fences \ {open}
      BY <1>2, <2>1, MinIsSmallest
    <3> HIDE DEF close
    <3> QED  BY <3>1, <3>2, <3>3
  <2> HIDE DEF open, close
  <2>3. open \in Nat /\ close - 1 \in open .. Len(t)
    <3>1. open \in 1 .. Len(t) /\ close \in 1 .. Len(t) /\ open <= close /\ close # open
      BY <1>2, <2>2
    <3> QED  BY <3>1
  <2> QED  BY <1>1, <1>4, <2>3
<1> QED  BY <1>3, <1>4

\* If an object is expected in some place, that place is in that part, and no brace of
\* the part comes before it.
LEMMA StrippedKeepsIntroduced ==
    ASSUME NEW t \in Seq(Tokens), NEW i \in 1 .. Len(t), NEW j \in i .. Len(t),
           Introduced(t, i, j)
    PROVE  \E d \in 0 .. i - 1 : \E e \in j .. Len(t) :
              /\ StripFences(t) = SubSeq(t, d + 1, e)
              /\ \A k \in d + 1 .. i - 1 : t[k] # Open
<1> DEFINE fences == Positions(t, Fence)
           open   == First(fences)
           close  == First(fences \ {open})
<1>1. StripFences(t) = IF close = 0 THEN t ELSE SubSeq(t, open + 1, close - 1)
  BY DEF StripFences
<1>2. fences \in SUBSET Nat /\ \A k \in fences : k \in 1 .. Len(t) /\ t[k] = Fence
  BY DEF Positions
<1>3. CASE (\A f, g \in fences : f = g) /\ \A k \in 1 .. i - 1 : t[k] # Open
  <2> HIDE DEF fences
  <2>1. fences \ {open} = {}
    <3>1. CASE fences = {}
      BY <3>1
    <3>2. CASE fences # {}
      <4>1. open \in fences
        BY <1>2, <3>2, MinIsSmallest DEF First
      <4> HIDE DEF open
      <4> QED  BY <1>3, <4>1
    <3> QED  BY <3>1, <3>2
  <2>2. close = 0
    BY <2>1 DEF First
  <2> HIDE DEF open, close
  <2>3. SubSeq(t, 0 + 1, Len(t)) = t /\ Len(t) \in j .. Len(t) /\ 0 \in 0 .. i - 1
    OBVIOUS
  <2>4. \A k \in 0 + 1 .. i - 1 : t[k] # Open
    BY <1>3
  <2> QED  BY <1>1, <2>2, <2>3, <2>4
<1>4. ASSUME NEW f \in 1 .. i - 1, NEW g \in j + 1 .. Len(t),
             t[f] = Fence, t[g] = Fence,
             \A k \in 1 .. g - 1 : t[k] = Fence => k = f,
             \A k \in f + 1 .. i - 1 : t[k] # Open
      PROVE  \E d \in 0 .. i - 1 : \E e \in j .. Len(t) :
                /\ StripFences(t) = SubSeq(t, d + 1, e)
                /\ \A k \in d + 1 .. i - 1 : t[k] # Open
  <2>1. f \in fences /\ g \in fences
    BY <1>4 DEF Positions
  <2>2. \A k \in fences : k = f \/ g <= k
    <3> TAKE k \in fences
    <3>1. k \in 1 .. Len(t) /\ t[k] = Fence
      BY <1>2
    <3> QED  BY <1>4, <3>1
  <2> HIDE DEF fences
  <2>3. open = f
    <3>1. \A k \in fences : f <= k
      BY <1>2, <2>2
    <3> QED  BY <1>2, <2>1, <3>1, FirstIsSmallest
  <2>4. close = g
    <3>1. g \in fences \ {f} /\ \A k \in fences \ {f} : g <= k
      BY <2>1, <2>2
    <3>2. fences \ {f} \in SUBSET Nat
      BY <1>2
    <3>3. First(fences \ {f}) = g
      BY <3>1, <3>2, FirstIsSmallest
    <3> QED  BY <2>3, <3>3
  <2> HIDE DEF open, close
  <2>5. StripFences(t) = SubSeq(t, f + 1, g - 1) /\ f \in 0 .. i - 1 /\ g - 1 \in j .. Len(t)
    BY <1>1, <2>3, <2>4
  <2> QED  BY <1>4, <2>5
<1> QED  BY <1>3, <1>4 DEF Introduced

\* The balanced object at the first brace is the first object.
LEMMA FirstObjectIsAt ==
    ASSUME NEW s \in Seq(Tokens), NEW a \in 1 .. Len(s), NEW j \in a + 1 .. Len(s),
           s[a] = Open, \A k \in 1 .. a - 1 : s[k] # Open, IsBalanced(SubSeq(s, a, j))
    PROVE  FirstObject(s) = SubSeq(s, a, j)
<1> DEFINE P == Positions(s, Open)
           B == {n \in DOMAIN s : a < n /\ IsBalanced(SubSeq(s, a, n))}
<1>1. First(P) = a
  <2>1. P \in SUBSET Nat /\ a \in P
    BY DEF Positions
  <2>2. \A k \in P : a <= k
    <3> TAKE k \in P
    <3>1. k \in 1 .. Len(s) /\ s[k] = Open
      BY DEF Positions
    <3>2. ~(k \in 1 .. a - 1)
      BY <3>1
    <3> QED  BY <3>1, <3>2
  <2> HIDE DEF P
  <2> QED  BY <2>1, <2>2, FirstIsSmallest
<1>2. FirstObject(s) = IF a = 0 \/ B = {} THEN NoObject ELSE SubSeq(s, a, Min(B))
  BY <1>1 DEF FirstObject
<1>3. j \in B
  OBVIOUS
<1>4. ASSUME NEW n \in B PROVE n = j
  <2>1. n \in a + 1 .. Len(s) /\ IsBalanced(SubSeq(s, a, n))
    OBVIOUS
  <2>2. Scan(s, a)[n].depth = 0 /\ \A m \in a .. n - 1 : Scan(s, a)[m].depth >= 1
    BY <2>1, BalancedSubSeq
  <2>3. Scan(s, a)[j].depth = 0 /\ \A m \in a .. j - 1 : Scan(s, a)[m].depth >= 1
    BY BalancedSubSeq
  <2>4. ~(n \in a .. j - 1) /\ ~(j \in a .. n - 1)
    BY <2>2, <2>3
  <2> QED  BY <2>1, <2>4
<1>5. B = {j}
  BY <1>3, <1>4
<1>6. Min(B) = j
  <2>1. {j} \in SUBSET Nat /\ {j} # {}
    OBVIOUS
  <2>2. Min({j}) \in {j}
    BY <2>1, MinIsSmallest
  <2> QED  BY <1>5, <2>2
<1> HIDE DEF B
<1> QED  BY <1>2, <1>3, <1>6

\* The first object, if there is one, is a balanced part of the text.
LEMMA FirstObjectIsPart ==
    ASSUME NEW s \in Seq(Tokens), FirstObject(s) # NoObject
    PROVE  \E a \in 1 .. Len(s) : \E j \in a + 1 .. Len(s) :
              /\ s[a] = Open /\ s[j] = Close
              /\ IsBalanced(SubSeq(s, a, j))
              /\ FirstObject(s) = SubSeq(s, a, j)
<1> DEFINE P == Positions(s, Open)
           a == First(P)
           B == {n \in DOMAIN s : a < n /\ IsBalanced(SubSeq(s, a, n))}
<1>1. FirstObject(s) = IF a = 0 \/ B = {} THEN NoObject ELSE SubSeq(s, a, Min(B))
  BY DEF FirstObject
<1>2. a # 0 /\ B # {}
  <2> HIDE DEF a, B
  <2> QED  BY <1>1
<1>3. a \in 1 .. Len(s) /\ s[a] = Open
  <2>1. P \in SUBSET Nat /\ P # {}
    BY <1>2 DEF Positions, First
  <2>2. a \in P
    BY <2>1, MinIsSmallest DEF First
  <2> QED  BY <2>2 DEF Positions
<1> HIDE DEF a
<1>4. Min(B) \in B
  <2>1. B \in SUBSET Nat
    OBVIOUS
  <2> QED  BY <1>2, <2>1, MinIsSmallest
<1>5. PICK j \in B : j = Min(B)
  BY <1>4
<1>6. j \in a + 1 .. Len(s) /\ IsBalanced(SubSeq(s, a, j))
  BY <1>3
<1>7. s[j] = Close
  <2> DEFINE u == SubSeq(s, a, j)
  <2>1. u \in Seq(Tokens) /\ Len(u) = j - a + 1 /\ u[j - a + 1] = s[j]
    <3>1. \A k \in a .. j : s[k] \in Tokens
      BY <1>3, <1>6
    <3>2. j - a + 1 \in 1 .. j - a + 1 /\ a + (j - a + 1) - 1 = j
      BY <1>3, <1>6
    <3> QED  BY <3>1, <3>2, <1>3, <1>6, SubSeqProperties
  <2> HIDE DEF u
  <2>2. u[Len(u)] = Close
    BY <1>6, <2>1, IsBalancedIsObject DEF Object, u
  <2> QED  BY <2>1, <2>2
<1> HIDE DEF B
<1> QED  BY <1>1, <1>2, <1>3, <1>5, <1>6, <1>7

\* A JSON object that stands where one is expected is read as it is.
THEOREM IntroducedJsonIsRead ==
    ASSUME NEW t \in Seq(Tokens), NEW i \in 1 .. Len(t), NEW j \in i + 1 .. Len(t),
           t[i] = Open, Introduced(t, i, j), IsJson(SubSeq(t, i, j))
    PROVE  ParseLeadJson(t) = SubSeq(t, i, j)
<1> DEFINE x == SubSeq(t, i, j)
<1>1. PICK d \in 0 .. i - 1, e \in j .. Len(t) :
         /\ StripFences(t) = SubSeq(t, d + 1, e)
         /\ \A k \in d + 1 .. i - 1 : t[k] # Open
  <2>1. j \in i .. Len(t)
    OBVIOUS
  <2> QED  BY <2>1, StrippedKeepsIntroduced
<1> DEFINE s == SubSeq(t, d + 1, e)
           a == i - d
           b == j - d
<1>2. /\ d \in Nat /\ e \in d .. Len(t) /\ a \in 1 .. e - d /\ b \in a .. e - d
      /\ b \in a + 1 .. e - d /\ a + d = i /\ b + d = j
  OBVIOUS
<1>3. /\ s \in Seq(Tokens) /\ Len(s) = e - d /\ \A k \in 1 .. e - d : s[k] = t[k + d]
      /\ SubSeq(s, a, b) = x
  <2> HIDE DEF a, b
  <2> QED  BY <1>2, PartOfPart
<1>4. s[a] = Open /\ \A k \in 1 .. a - 1 : s[k] # Open
  <2>1. s[a] = Open
    BY <1>2, <1>3
  <2>2. ASSUME NEW k \in 1 .. a - 1 PROVE s[k] # Open
    <3>1. k + d \in d + 1 .. i - 1 /\ k \in 1 .. e - d
      OBVIOUS
    <3> QED  BY <1>1, <1>3, <3>1
  <2> QED  BY <2>1, <2>2
<1>5. x \in Seq(Tokens) /\ IsBalanced(x)
  <2>1. x \in Seq(Tokens)
    <3>1. \A k \in i .. j : t[k] \in Tokens
      OBVIOUS
    <3> QED  BY <3>1, SubSeqProperties
  <2> QED  BY <2>1, JsonIsBalanced
<1>6. FirstObject(s) = x
  <2> HIDE DEF s, a, b, x
  <2> QED  BY <1>2, <1>3, <1>4, <1>5, FirstObjectIsAt
<1>7. x # NoObject
  BY <1>5, NoObjectAssumption
<1>8. ObjectIn(t) = x
  <2> HIDE DEF s, x
  <2>1. FirstObject(StripFences(t)) = x
    BY <1>1, <1>6 DEF s
  <2>2. IsJson(x)
    BY DEF x
  <2> QED  BY <1>7, <2>1, <2>2 DEF ObjectIn
<1> QED  BY <1>8, ParserIsRight

\* The repairs mend, and do no more.
LEMMA RepairedIsMended ==
    ASSUME NEW s \in Seq(Tokens)
    PROVE  MendedFrom(s, Repair(s))
<1> DEFINE N == Len(s)
           r == Repair(s)
           D == BeforeClose(s)
           Before(i) == D \cap 1 .. i
<1>1. D \in SUBSET (1 .. N) /\ \A k \in 1 .. N : k \in D <=> Removed(s, k)
  BY DEF BeforeClose, Positions, Removed
<1>2. CASE N = 0
  <2>1. r = <<>> /\ D = {} /\ DOMAIN s = {} /\ Len(<<>>) = N - 0
    <3>1. r = <<>>
      BY <1>2, EmptyIsRepaired
    <3>2. 1 .. N = {} /\ DOMAIN s = 1 .. N /\ Len(<<>>) = N - 0
      BY <1>2
    <3> HIDE DEF r, D, N
    <3> QED  BY <1>1, <3>1, <3>2
  <2>2. Cardinality({}) = 0
    BY FS_EmptySet
  <2>3. {} \in SUBSET D
    OBVIOUS
  <2> HIDE DEF r, D, N
  <2>4. /\ Len(r) = N - Cardinality({})
        /\ \A k \in DOMAIN s \ {} : r[k - Cardinality({} \cap 1 .. k)] = Respelled(s[k])
    BY <2>1, <2>2
  <2> QED  BY <2>3, <2>4 DEF MendedFrom, r, D, N
<1>3. CASE N # 0
  <2>1. PICK p : Places(s, r, p)
    BY <1>3, RepairPlaces
  <2>2. /\ p \in [0 .. N -> Nat] /\ p[0] = 0 /\ p[N] = Len(r)
        /\ \A i \in 1 .. N : /\ i \in D => p[i] = p[i - 1]
                             /\ i \notin D => p[i] = p[i - 1] + 1 /\ r[p[i]] = Respelled(s[i])
    BY <1>1, <2>1 DEF Places
  <2> HIDE DEF D, r
  \* A token's place is its index less what is dropped up to it.
  <2> DEFINE Good(i) == i <= N => /\ IsFiniteSet(Before(i))
                                  /\ Cardinality(Before(i)) \in Nat
                                  /\ p[i] = i - Cardinality(Before(i))
             S == {i \in Nat : Good(i)}
  <2>3. Good(0)
    <3>1. Before(0) = {}
      OBVIOUS
    <3> HIDE DEF Before
    <3>2. IsFiniteSet(Before(0)) /\ Cardinality(Before(0)) = 0
      BY <3>1, FS_EmptySet
    <3>3. p[0] = 0 - 0 /\ 0 \in Nat
      BY <2>2
    <3>4. p[0] = 0 - Cardinality(Before(0)) /\ Cardinality(Before(0)) \in Nat
      BY <3>2, <3>3
    <3> QED  BY <3>2, <3>4
  <2>4. ASSUME NEW i \in Nat, Good(i)
        PROVE  Good(i + 1)
    <3> SUFFICES ASSUME i + 1 <= N
                 PROVE  /\ IsFiniteSet(Before(i + 1))
                        /\ Cardinality(Before(i + 1)) \in Nat
                        /\ p[i + 1] = i + 1 - Cardinality(Before(i + 1))
      OBVIOUS
    <3>1. /\ IsFiniteSet(Before(i)) /\ Cardinality(Before(i)) \in Nat
          /\ p[i] = i - Cardinality(Before(i))
      BY <2>4
    <3>2. i + 1 \in 1 .. N /\ (i + 1) - 1 = i
      OBVIOUS
    <3>3. 1 .. i + 1 = 1 .. i \cup {i + 1}
      OBVIOUS
    <3>4. i + 1 \notin Before(i)
      OBVIOUS
    <3>5. CASE i + 1 \in D
      <4>1. Before(i + 1) = Before(i) \cup {i + 1}
        BY <3>3, <3>5
      <4> HIDE DEF Before
      <4>2. /\ IsFiniteSet(Before(i + 1))
            /\ Cardinality(Before(i + 1)) = Cardinality(Before(i)) + 1
        BY <3>1, <3>4, <4>1, FS_AddElement
      <4>3. p[i + 1] = p[i]
        BY <2>2, <3>2, <3>5
      <4> QED  BY <3>1, <4>2, <4>3
    <3>6. CASE i + 1 \notin D
      <4>1. Before(i + 1) = Before(i)
        BY <3>3, <3>6
      <4>2. p[i + 1] = p[i] + 1
        BY <2>2, <3>2, <3>6
      <4> HIDE DEF Before
      <4> QED  BY <3>1, <4>1, <4>2
    <3> QED  BY <3>5, <3>6
  <2>5. Nat \subseteq S
    <3> HIDE DEF Good
    <3>1. 0 \in S /\ \A i \in Nat : i \in S => i + 1 \in S
      BY <2>3, <2>4
    <3> HIDE DEF S
    <3> QED  BY <3>1, SetInduction
  <2>6. \A i \in 1 .. N : p[i] = i - Cardinality(Before(i)) /\ Cardinality(Before(i)) \in Nat
    <3> TAKE i \in 1 .. N
    <3>1. i \in S /\ i <= N
      <4> HIDE DEF S
      <4> QED  BY <2>5
    <3> QED  BY <3>1
  <2> HIDE DEF S, Good
  <2>7. Before(N) = D
    BY <1>1
  <2>8. Len(r) = N - Cardinality(D)
    <3>1. N \in 1 .. N
      BY <1>3
    <3> HIDE DEF Before
    <3> QED  BY <2>2, <2>6, <2>7, <3>1
  <2>9. \A k \in DOMAIN s \ D : r[k - Cardinality(D \cap 1 .. k)] = Respelled(s[k])
    BY <2>2, <2>6
  <2>10. D \in SUBSET D
    OBVIOUS
  <2> QED  BY <2>8, <2>9, <2>10 DEF MendedFrom, D, r
<1> QED  BY <1>2, <1>3

\* What is read is a balanced object of the reply, as it is or mended.
THEOREM OnlyObjectsAreRead ==
    ASSUME NEW t \in Seq(Tokens), ParseLeadJson(t) # NoObject
    PROVE  \E i \in 1 .. Len(t) : \E j \in i + 1 .. Len(t) :
              /\ t[i] = Open /\ t[j] = Close
              /\ IsBalanced(SubSeq(t, i, j))
              /\ \/ ParseLeadJson(t) = SubSeq(t, i, j)
                 \/ /\ ~IsJson(SubSeq(t, i, j))
                    /\ MendedFrom(SubSeq(t, i, j), ParseLeadJson(t))
<1>0. PICK d \in Nat : \E e \in d .. Len(t) : StripFences(t) = SubSeq(t, d + 1, e)
  BY StrippedIsPart
<1>1. PICK e \in d .. Len(t) : StripFences(t) = SubSeq(t, d + 1, e)
  BY <1>0
<1> DEFINE s == SubSeq(t, d + 1, e)
           x == FirstObject(s)
<1>2. s \in Seq(Tokens) /\ Len(s) = e - d
  <2>1. \A k \in d + 1 .. e : t[k] \in Tokens
    OBVIOUS
  <2> QED  BY <2>1, SubSeqProperties
<1>3. /\ x # NoObject
      /\ \/ ParseLeadJson(t) = x
         \/ ~IsJson(x) /\ ParseLeadJson(t) = Repair(x)
  <2>1. ParseLeadJson(t) = ObjectIn(t) /\ FirstObject(StripFences(t)) = x
    BY <1>1, ParserIsRight
  <2> HIDE DEF x
  <2> QED  BY <2>1 DEF ObjectIn
<1>9. PICK a \in 1 .. Len(s) : \E b \in a + 1 .. Len(s) :
         s[a] = Open /\ s[b] = Close /\ IsBalanced(SubSeq(s, a, b)) /\ x = SubSeq(s, a, b)
  <2> HIDE DEF s
  <2> QED  BY <1>2, <1>3, FirstObjectIsPart
<1>4. PICK b \in a + 1 .. Len(s) :
         s[a] = Open /\ s[b] = Close /\ IsBalanced(SubSeq(s, a, b)) /\ x = SubSeq(s, a, b)
  BY <1>9
<1> DEFINE i == a + d
           j == b + d
<1>5. /\ a \in 1 .. e - d /\ b \in a .. e - d /\ b \in 1 .. e - d
      /\ i \in 1 .. Len(t) /\ j \in i + 1 .. Len(t)
  BY <1>2
<1>6. s[a] = t[i] /\ s[b] = t[j] /\ SubSeq(s, a, b) = SubSeq(t, i, j)
  BY <1>5, PartOfPart
<1> HIDE DEF i, j
<1>7. SubSeq(t, i, j) \in Seq(Tokens)
  <2>1. \A k \in i .. j : t[k] \in Tokens
    BY <1>5
  <2> QED  BY <1>5, <2>1, SubSeqProperties
<1> HIDE DEF s, x
<1>8. \/ ParseLeadJson(t) = SubSeq(t, i, j)
      \/ ~IsJson(SubSeq(t, i, j)) /\ MendedFrom(SubSeq(t, i, j), ParseLeadJson(t))
  BY <1>3, <1>4, <1>6, <1>7, RepairedIsMended
<1> QED  BY <1>4, <1>5, <1>6, <1>8
==============================================================================
