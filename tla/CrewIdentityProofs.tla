-------------------------- MODULE CrewIdentityProofs --------------------------
(***************************************************************************)
(* Proofs about CrewIdentity: type correctness with the unique account of  *)
(* a person; every redirect ends at a person; visibility is current; the   *)
(* reconciliation of a capture does not fail.                              *)
(*                                                                         *)
(* Canonical and AfterRepairs are recursive functions.  What they compute  *)
(* is proved from two first-order facts: a set of numbers that contains 0  *)
(* and is closed under successor is Nat, and a step function can be        *)
(* iterated.                                                               *)
(***************************************************************************)
EXTENDS CrewIdentity, FiniteSetTheorems, TLAPS

-----------------------------------------------------------------------------
(* Induction and iteration                                                  *)

LEMMA LeastNat ==
    ASSUME NEW S \in SUBSET Nat, S # {}
    PROVE  \E n \in S : \A m \in S : n <= m
<1> DEFINE L == OpToRel(<, Nat)
<1>1. PICK n \in S : \A m \in S : <<m, n>> \notin L
  <2> HIDE DEF L
  <2>1. IsWellFoundedOn(L, Nat)
    BY NatLessThanWellFounded DEF L
  <2> QED BY <2>1, WFMin
<1>2. ASSUME NEW m \in S PROVE n <= m
  <2>1. ~(m < n)
    BY <1>1 DEF OpToRel
  <2> QED BY <2>1
<1> QED BY <1>2

LEMMA Induction ==
    ASSUME NEW S \in SUBSET Nat, 0 \in S, \A n \in S : n + 1 \in S
    PROVE  S = Nat
<1> DEFINE T == Nat \ S
<1> SUFFICES ASSUME T # {} PROVE FALSE
  OBVIOUS
<1>1. PICK n \in T : \A m \in T : n <= m
  <2>1. T \in SUBSET Nat
    OBVIOUS
  <2> HIDE DEF T
  <2> QED BY <2>1, LeastNat
<1>2. n - 1 \in S
  BY <1>1
<1> QED BY <1>1, <1>2

\* f starts at x and goes on by the step functions.
Iterates(f, X, x, step) ==
    f \in [Nat -> X] /\ f[0] = x /\ \A n \in Nat : f[n + 1] = step[n][f[n]]

\* Every step function can be iterated from every start.
LEMMA Iteration ==
    ASSUME NEW X, NEW x \in X, NEW step \in [Nat -> [X -> X]]
    PROVE  \E f : Iterates(f, X, x, step)
<1> DEFINE Runs(n, g) == /\ g \in [0..n -> X] /\ g[0] = x
                         /\ \A m \in 0..n : m < n => g[m + 1] = step[m][g[m]]
           S == {n \in Nat : \E g : Runs(n, g)}
           Agree == {m \in Nat : \A n, k \in Nat : \A g, h :
                        Runs(n, g) /\ Runs(k, h) /\ m <= n /\ m <= k => g[m] = h[m]}
<1>1. S = Nat
  <2>1. 0 \in S
    <3>1. Runs(0, [m \in 0..0 |-> x])
      OBVIOUS
    <3> QED BY <3>1
  <2>2. ASSUME NEW n \in S PROVE n + 1 \in S
    <3>1. PICK g : Runs(n, g)
      OBVIOUS
    <3> DEFINE h == [m \in 0..(n + 1) |-> IF m = n + 1 THEN step[n][g[n]] ELSE g[m]]
    <3>2. h \in [0..(n + 1) -> X]
      BY <3>1
    <3>3. h[0] = x
      BY <3>1
    <3>4. ASSUME NEW m \in 0..(n + 1), m < n + 1 PROVE h[m + 1] = step[m][h[m]]
      <4>1. CASE m = n
        BY <4>1
      <4>2. CASE m < n
        BY <3>1, <4>2
      <4> QED BY <3>4, <4>1, <4>2
    <3>5. Runs(n + 1, h)
      BY <3>2, <3>3, <3>4
    <3> HIDE DEF Runs, h
    <3> QED BY <3>5
  <2>3. S \in SUBSET Nat
    OBVIOUS
  <2> HIDE DEF S
  <2> QED BY <2>1, <2>2, <2>3, Induction
<1>2. Agree = Nat
  <2>1. 0 \in Agree
    OBVIOUS
  <2>2. ASSUME NEW m \in Agree PROVE m + 1 \in Agree
    <3>1. ASSUME NEW n \in Nat, NEW k \in Nat, NEW g, NEW h,
                 Runs(n, g), Runs(k, h), m + 1 <= n, m + 1 <= k
          PROVE  g[m + 1] = h[m + 1]
      <4>1. m <= n /\ m <= k /\ m \in 0..n /\ m \in 0..k /\ m < n /\ m < k
        BY <3>1
      <4>2. g[m + 1] = step[m][g[m]] /\ h[m + 1] = step[m][h[m]]
        BY <3>1, <4>1
      <4> HIDE DEF Runs
      <4>3. g[m] = h[m]
        BY <3>1, <4>1
      <4> QED BY <4>2, <4>3
    <3> HIDE DEF Runs
    <3> QED BY <3>1
  <2>3. Agree \in SUBSET Nat
    OBVIOUS
  <2> HIDE DEF Agree
  <2> QED BY <2>1, <2>2, <2>3, Induction
<1> DEFINE run(n) == CHOOSE g : Runs(n, g)
           f == [n \in Nat |-> run(n)[n]]
<1>3. \A n \in Nat : Runs(n, run(n))
  <2> SUFFICES ASSUME NEW n \in Nat PROVE Runs(n, run(n))
    OBVIOUS
  <2>1. \E g : Runs(n, g)
    BY <1>1
  <2> HIDE DEF Runs
  <2> QED BY <2>1
<1> HIDE DEF run
<1>4. f \in [Nat -> X]
  BY <1>3
<1>5. f[0] = x
  BY <1>3
<1>6. ASSUME NEW n \in Nat PROVE f[n + 1] = step[n][f[n]]
  <2>1. Runs(n, run(n)) /\ Runs(n + 1, run(n + 1))
    BY <1>3
  <2>2. run(n + 1)[n + 1] = step[n][run(n + 1)[n]]
    BY <2>1
  <2>3. run(n + 1)[n] = run(n)[n]
    <3>1. n \in Agree
      <4> HIDE DEF Agree
      <4> QED BY <1>2
    <3>2. n + 1 \in Nat /\ n <= n /\ n <= n + 1
      OBVIOUS
    <3> HIDE DEF Runs
    <3> QED BY <2>1, <3>1, <3>2
  <2> QED BY <2>2, <2>3
<1>7. Iterates(f, X, x, step)
  BY <1>4, <1>5, <1>6 DEF Iterates
<1> HIDE DEF f
<1> QED BY <1>7

-----------------------------------------------------------------------------
(* Redirects                                                                *)

Redirects(people, p) ==
    CHOOSE at : at = [n \in Nat |-> IF n = 0 THEN p
                                    ELSE LET q == at[n - 1] IN
                                         IF people[q].into = "nobody" THEN q ELSE people[q].into]

\* Where one redirect of person q leads.
Follow(people, q) == IF people[q].into = "nobody" THEN q ELSE people[q].into

\* Redirects lead to people.
Closed(people) == \A p \in Persons : people[p].into \in Persons \cup {"nobody"}

LEMMA CanonicalIs ==
    ASSUME NEW people, NEW p
    PROVE  Canonical(people, p) =
               LET end == Redirects(people, p)[Cardinality(Persons)] IN
               IF people[p].into = "nobody" THEN p
               ELSE IF people[end].into = "nobody" THEN end ELSE "nobody"
BY Zenon DEF Canonical, Redirects

LEMMA RedirectsRun ==
    ASSUME NEW people, Closed(people), NEW p \in Persons
    PROVE  /\ Redirects(people, p) \in [Nat -> Persons]
           /\ Redirects(people, p)[0] = p
           /\ \A n \in Nat : Redirects(people, p)[n + 1] = Follow(people, Redirects(people, p)[n])
<1> DEFINE step == [n \in Nat |-> [q \in Persons |-> Follow(people, q)]]
           body(at) == [n \in Nat |-> IF n = 0 THEN p
                                      ELSE LET q == at[n - 1] IN
                                           IF people[q].into = "nobody" THEN q ELSE people[q].into]
<1>1. step \in [Nat -> [Persons -> Persons]]
  BY DEF Follow, Closed
<1>2. PICK f : Iterates(f, Persons, p, step)
  <2> HIDE DEF step
  <2> QED BY <1>1, Iteration
<1>3. f = body(f)
  <2>1. ASSUME NEW n \in Nat, n # 0 PROVE f[n] = Follow(people, f[n - 1])
    <3>1. n - 1 \in Nat /\ (n - 1) + 1 = n
      BY <2>1
    <3> QED BY <1>2, <3>1 DEF Iterates
  <2> QED BY <1>2, <2>1 DEF Follow, Iterates
<1>4. Redirects(people, p) = body(Redirects(people, p))
  <2>1. \E at : at = body(at)
    BY <1>3
  <2> QED BY <2>1, Zenon DEF Redirects
<1> DEFINE R == Redirects(people, p)
<1>5. R[0] = p
  BY <1>4
<1>6. ASSUME NEW n \in Nat PROVE R[n + 1] = Follow(people, R[n])
  <2>1. n + 1 \in Nat /\ n + 1 # 0 /\ (n + 1) - 1 = n
    OBVIOUS
  <2>2. body(R)[n + 1] = Follow(people, R[n])
    BY <2>1 DEF Follow
  <2> QED BY <1>4, <2>2
<1>7. DOMAIN R = Nat /\ R = [n \in Nat |-> R[n]]
  <2>1. body(R) = [n \in Nat |-> body(R)[n]] /\ DOMAIN body(R) = Nat
    OBVIOUS
  <2> HIDE DEF body
  <2> QED BY <1>4, <2>1
<1> HIDE DEF R
<1>8. \A n \in Nat : R[n] \in Persons
  <2> DEFINE S == {n \in Nat : R[n] \in Persons}
  <2>1. 0 \in S
    BY <1>5
  <2>2. \A n \in S : n + 1 \in S
    BY <1>6 DEF Closed, Follow
  <2>3. S \in SUBSET Nat
    OBVIOUS
  <2>4. S = Nat
    <3> HIDE DEF S
    <3> QED BY <2>1, <2>2, <2>3, Induction
  <2> QED BY <2>4
<1>9. R \in [Nat -> Persons]
  BY <1>7, <1>8
<1> QED BY <1>5, <1>6, <1>9 DEF R

\* The canonical person is a person whom nothing redirects, or nobody.
LEMMA CanonicalPerson ==
    ASSUME NEW people, Closed(people), NEW p \in Persons
    PROVE  /\ Canonical(people, p) \in Persons \cup {"nobody"}
           /\ Canonical(people, p) # "nobody" => people[Canonical(people, p)].into = "nobody"
<1>1. Redirects(people, p)[Cardinality(Persons)] \in Persons
  BY RedirectsRun, FS_CardinalityType, CrewAssumption
<1> QED BY <1>1, CanonicalIs

\* It depends on the redirects alone.
LEMMA CanonicalSame ==
    ASSUME NEW people, NEW others, Closed(people), NEW p \in Persons,
           \A q \in Persons : others[q].into = people[q].into
    PROVE  Canonical(others, p) = Canonical(people, p)
<1> DEFINE R == Redirects(people, p)
           Q == Redirects(others, p)
           S == {n \in Nat : R[n] = Q[n]}
<1>1. Closed(others)
  BY DEF Closed
<1>2. /\ R \in [Nat -> Persons] /\ R[0] = p /\ \A n \in Nat : R[n + 1] = Follow(people, R[n])
      /\ Q \in [Nat -> Persons] /\ Q[0] = p /\ \A n \in Nat : Q[n + 1] = Follow(others, Q[n])
  BY <1>1, RedirectsRun
<1> HIDE DEF R, Q
<1>3. 0 \in S
  BY <1>2
<1>4. \A n \in S : n + 1 \in S
  BY <1>2 DEF Follow
<1>5. S = Nat
  <2>1. S \in SUBSET Nat
    OBVIOUS
  <2> HIDE DEF S
  <2> QED BY <1>3, <1>4, <2>1, Induction
<1>6. Cardinality(Persons) \in Nat
  BY FS_CardinalityType, CrewAssumption
<1>7. R[Cardinality(Persons)] = Q[Cardinality(Persons)] /\ R[Cardinality(Persons)] \in Persons
  BY <1>2, <1>5, <1>6
<1> QED BY <1>7, CanonicalIs DEF R, Q

\* A rank that every redirect lowers: redirects do not go round.
Ranked(people) ==
    \E rank \in [Persons -> Nat] :
        \A p \in Persons : people[p].into # "nobody" => rank[people[p].into] < rank[p]

\* Redirects that do not go round end within as many steps as there are people.
LEMMA CanonicalEnds ==
    ASSUME NEW people, Closed(people), Ranked(people), NEW p \in Persons
    PROVE  Canonical(people, p) # "nobody"
<1> DEFINE N == Cardinality(Persons)
           R == Redirects(people, p)
<1>1. N \in Nat
  BY FS_CardinalityType, CrewAssumption
<1>2. R \in [Nat -> Persons] /\ R[0] = p /\ \A n \in Nat : R[n + 1] = Follow(people, R[n])
  BY RedirectsRun
<1> HIDE DEF N, R
<1>3. PICK rank \in [Persons -> Nat] :
        \A q \in Persons : people[q].into # "nobody" => rank[people[q].into] < rank[q]
  BY DEF Ranked
<1>4. ASSUME people[R[N]].into # "nobody" PROVE FALSE
  \* Nothing before the Nth is an end, so the ranks fall.
  <2> DEFINE Open == {n \in Nat : n <= N => people[R[N - n]].into # "nobody"}
  <2>1. Open = Nat
    <3>1. 0 \in Open
      BY <1>1, <1>2, <1>4
    <3>2. ASSUME NEW n \in Open PROVE n + 1 \in Open
      <4> SUFFICES ASSUME n + 1 <= N, people[R[N - (n + 1)]].into = "nobody" PROVE FALSE
        OBVIOUS
      <4>1. N - (n + 1) \in Nat /\ (N - (n + 1)) + 1 = N - n /\ n <= N
        BY <1>1
      <4>2. R[N - n] = R[N - (n + 1)]
        BY <1>2, <4>1 DEF Follow
      <4> QED BY <4>1, <4>2
    <3>3. Open \in SUBSET Nat
      OBVIOUS
    <3> HIDE DEF Open
    <3> QED BY <3>1, <3>2, <3>3, Induction
  <2>2. ASSUME NEW n \in 0..N PROVE people[R[n]].into # "nobody"
    <3>1. N - n \in Nat /\ N - n <= N /\ N - (N - n) = n
      BY <1>1
    <3>2. N - n \in Open
      <4> HIDE DEF Open
      <4> QED BY <2>1, <3>1
    <3> QED BY <3>1, <3>2
  <2>3. ASSUME NEW n \in 0..N, n + 1 <= N PROVE rank[R[n + 1]] < rank[R[n]]
    BY <1>1, <1>2, <1>3, <2>2 DEF Follow
  <2> DEFINE Falls == {k \in Nat : \A n \in 0..N : n + k + 1 <= N => rank[R[n + k + 1]] < rank[R[n]]}
  <2>4. Falls = Nat
    <3>1. 0 \in Falls
      BY <2>3
    <3>2. ASSUME NEW k \in Falls PROVE k + 1 \in Falls
      <4> SUFFICES ASSUME NEW n \in 0..N, n + (k + 1) + 1 <= N
                   PROVE  rank[R[n + (k + 1) + 1]] < rank[R[n]]
        OBVIOUS
      <4>1. n + k + 1 \in 0..N /\ (n + k + 1) + 1 = n + (k + 1) + 1 /\ n + k + 1 <= N
        BY <1>1
      <4>2. rank[R[(n + k + 1) + 1]] < rank[R[n + k + 1]]
        BY <2>3, <4>1
      <4>3. rank[R[n + k + 1]] < rank[R[n]]
        BY <4>1
      <4>4. R[n + k + 1] \in Persons /\ R[n] \in Persons /\ R[n + (k + 1) + 1] \in Persons
        BY <1>2, <4>1
      <4> QED BY <1>3, <4>1, <4>2, <4>3, <4>4
    <3>3. Falls \in SUBSET Nat
      OBVIOUS
    <3> HIDE DEF Falls
    <3> QED BY <3>1, <3>2, <3>3, Induction
  <2>5. ASSUME NEW i \in 0..N, NEW j \in 0..N, i < j PROVE R[i] # R[j]
    <3>1. j - i - 1 \in Nat /\ i + (j - i - 1) + 1 = j /\ j <= N
      BY <1>1, <2>5
    <3>2. j - i - 1 \in Falls
      <4> HIDE DEF Falls
      <4> QED BY <2>4, <3>1
    <3>3. rank[R[j]] < rank[R[i]]
      BY <3>1, <3>2
    <3> QED BY <1>1, <1>2, <1>3, <3>3
  \* There are more of them than people.
  <2> DEFINE f == [n \in 0..N |-> R[n]]
  <2>6. f \in [0..N -> Persons]
    BY <1>1, <1>2
  <2>7. IsFiniteSet(0..N) /\ Cardinality(0..N) = N + 1
    BY <1>1, FS_Interval
  <2>8. Cardinality(Persons) < Cardinality(0..N) /\ IsFiniteSet(Persons)
    BY <1>1, <2>7, CrewAssumption DEF N
  <2>9. PICK i \in 0..N, j \in 0..N : i # j /\ f[i] = f[j]
    <3> HIDE DEF f
    <3> QED BY <2>6, <2>7, <2>8, FS_PigeonHole
  <2>10. i < j \/ j < i
    BY <1>1, <2>9
  <2> QED BY <2>5, <2>9, <2>10
<1>5. R[N] \in Persons
  BY <1>1, <1>2
<1> QED BY <1>4, <1>5, CanonicalIs, CrewAssumption DEF N, R

\* Sound redirects are followed to their end.
LEMMA CanonicalIsEnd ==
    ASSUME NEW people, Closed(people), Ranked(people), NEW p \in Persons
    PROVE  /\ Canonical(people, p) = Redirects(people, p)[Cardinality(Persons)]
           /\ Canonical(people, p) \in Persons /\ people[Canonical(people, p)].into = "nobody"
<1> DEFINE N == Cardinality(Persons)
           R == Redirects(people, p)
<1>1. N \in Nat
  BY FS_CardinalityType, CrewAssumption
<1>2. R \in [Nat -> Persons] /\ R[0] = p /\ \A n \in Nat : R[n + 1] = Follow(people, R[n])
  BY RedirectsRun
<1>3. /\ Canonical(people, p) # "nobody"
      /\ Canonical(people, p) = IF people[p].into = "nobody" THEN p
                                ELSE IF people[R[N]].into = "nobody" THEN R[N] ELSE "nobody"
  BY CanonicalEnds, CanonicalIs
<1> HIDE DEF N, R
<1>4. CASE people[p].into = "nobody"
  <2> DEFINE S == {n \in Nat : R[n] = p}
  <2>1. 0 \in S /\ (\A n \in S : n + 1 \in S) /\ S \in SUBSET Nat
    BY <1>2, <1>4 DEF Follow
  <2>2. S = Nat
    <3> HIDE DEF S
    <3> QED BY <2>1, Induction
  <2> QED BY <1>1, <1>3, <1>4, <2>2 DEF N, R
<1>5. CASE people[p].into # "nobody"
  BY <1>1, <1>2, <1>3, <1>5 DEF N, R
<1> QED BY <1>4, <1>5

\* Following one redirect does not change where the redirects end.
LEMMA CanonicalFollow ==
    ASSUME NEW people, Closed(people), Ranked(people), NEW p \in Persons
    PROVE  Canonical(people, Follow(people, p)) = Canonical(people, p)
<1> DEFINE N == Cardinality(Persons)
           q == Follow(people, p)
           R == Redirects(people, p)
           Q == Redirects(people, q)
           S == {n \in Nat : Q[n] = R[n + 1]}
<1>0. N \in Nat /\ q \in Persons
  BY FS_CardinalityType, CrewAssumption DEF Closed, Follow
<1>1. /\ R \in [Nat -> Persons] /\ R[0] = p /\ \A n \in Nat : R[n + 1] = Follow(people, R[n])
      /\ Q \in [Nat -> Persons] /\ Q[0] = q /\ \A n \in Nat : Q[n + 1] = Follow(people, Q[n])
  BY <1>0, RedirectsRun
<1>2. /\ Canonical(people, p) = R[N] /\ people[R[N]].into = "nobody"
      /\ Canonical(people, q) = Q[N]
  BY <1>0, CanonicalIsEnd
<1> HIDE DEF N, R, Q
<1>3. S = Nat
  <2>1. 0 \in S
    BY <1>1
  <2>2. ASSUME NEW n \in S PROVE n + 1 \in S
    <3>1. n \in Nat /\ n + 1 \in Nat /\ Q[n] = R[n + 1]
      OBVIOUS
    <3>2. Q[n + 1] = Follow(people, Q[n]) /\ R[(n + 1) + 1] = Follow(people, R[n + 1])
      BY <1>1, <3>1
    <3> QED BY <3>1, <3>2
  <2>3. S \in SUBSET Nat
    OBVIOUS
  <2> HIDE DEF S
  <2> QED BY <2>1, <2>2, <2>3, Induction
<1>4. Q[N] = R[N + 1] /\ R[N + 1] = R[N]
  BY <1>0, <1>1, <1>2, <1>3 DEF Follow
<1> QED BY <1>2, <1>4

\* Redirects that are only added are followed from where the old ones ended.
LEMMA CanonicalGoesOn ==
    ASSUME NEW people, Closed(people), Ranked(people), NEW others, Closed(others), Ranked(others),
           \A q \in Persons : people[q].into # "nobody" => others[q].into = people[q].into,
           NEW p \in Persons
    PROVE  Canonical(others, p) = Canonical(others, Canonical(people, p))
<1> DEFINE N == Cardinality(Persons)
           R == Redirects(people, p)
           S == {n \in Nat : Canonical(others, R[n]) = Canonical(others, p)}
<1>1. N \in Nat
  BY FS_CardinalityType, CrewAssumption
<1>2. R \in [Nat -> Persons] /\ R[0] = p /\ \A n \in Nat : R[n + 1] = Follow(people, R[n])
  BY RedirectsRun
<1>3. Canonical(people, p) = R[N]
  BY CanonicalIsEnd
<1> HIDE DEF N, R
<1>4. S = Nat
  <2>1. 0 \in S
    BY <1>2
  <2>2. ASSUME NEW n \in S PROVE n + 1 \in S
    <3>1. n \in Nat /\ R[n] \in Persons /\ R[n + 1] = Follow(people, R[n])
      BY <1>2
    <3>2. CASE people[R[n]].into = "nobody"
      BY <3>1, <3>2 DEF Follow
    <3>3. CASE people[R[n]].into # "nobody"
      <4>1. R[n + 1] = Follow(others, R[n])
        BY <3>1, <3>3 DEF Follow
      <4>2. Canonical(others, R[n + 1]) = Canonical(others, R[n])
        BY <3>1, <4>1, CanonicalFollow
      <4> QED BY <3>1, <4>2
    <3> QED BY <3>2, <3>3
  <2>3. S \in SUBSET Nat
    OBVIOUS
  <2> HIDE DEF S
  <2> QED BY <2>1, <2>2, <2>3, Induction
<1> QED BY <1>1, <1>3, <1>4

-----------------------------------------------------------------------------
(* People, merges and redirects                                             *)

People == [Persons -> [login : Logins \cup {NoLogin}, into : Persons \cup {"nobody"}, live : BOOLEAN]]

\* A Deputy employee is never a duplicate.
EmployeesEnd(people) == \A e \in Employees : people[e].into = "nobody"

\* Redirects are sound: they do not go round and none leaves an employee.
Sound(people) == EmployeesEnd(people) /\ Ranked(people)

LEMMA PeopleClosed ==
    ASSUME NEW people \in People
    PROVE  Closed(people)
BY DEF People, Closed

\* What leaves the redirects alone leaves them sound.
LEMMA SameSound ==
    ASSUME NEW people, NEW others, Sound(people), Closed(people),
           \A p \in Persons : others[p].into = people[p].into
    PROVE  Sound(others)
<1>1. EmployeesEnd(others)
  BY CrewAssumption DEF Sound, EmployeesEnd
<1>2. PICK rank \in [Persons -> Nat] :
        \A p \in Persons : people[p].into # "nobody" => rank[people[p].into] < rank[p]
  BY DEF Sound, Ranked
<1>3. Ranked(others)
  BY <1>2 DEF Ranked
<1> QED BY <1>1, <1>3 DEF Sound

LEMMA MergedType ==
    ASSUME NEW people \in People, NEW s \in Persons, NEW t \in Persons, NEW u \in Logins \cup {NoLogin}
    PROVE  MergedInto(people, s, t, u) \in People
BY DEF People, MergedInto

\* A merge of a person who is not an employee into one that at most an
\* employee follows: the employees get rank 0, the target 1, the others keep
\* their order above.
LEMMA MergedSound ==
    ASSUME NEW people \in People, Sound(people), NEW s \in Persons \ Employees, NEW t \in Persons,
           t # s, people[t].into \in {"nobody"} \cup Employees, NEW u \in Logins \cup {NoLogin}
    PROVE  Sound(MergedInto(people, s, t, u))
<1> DEFINE others == MergedInto(people, s, t, u)
<1>1. \A p \in Persons : others[p].into = IF p = s THEN t ELSE people[p].into
  BY DEF MergedInto, People
<1> HIDE DEF others
<1>2. EmployeesEnd(others)
  BY <1>1, CrewAssumption DEF Sound, EmployeesEnd
<1>3. PICK rank \in [Persons -> Nat] :
        \A p \in Persons : people[p].into # "nobody" => rank[people[p].into] < rank[p]
  BY DEF Sound, Ranked
<1> DEFINE lifted == [p \in Persons |-> IF p \in Employees THEN 0 ELSE IF p = t THEN 1 ELSE rank[p] + 2]
<1>4. lifted \in [Persons -> Nat]
  BY <1>3
<1>5. ASSUME NEW p \in Persons, others[p].into # "nobody"
      PROVE  lifted[others[p].into] < lifted[p]
  <2>1. p \notin Employees
    BY <1>2, <1>5 DEF EmployeesEnd
  <2>2. CASE p = s
    BY <1>1, <1>3, <2>1, <2>2
  <2>3. CASE p = t
    BY <1>1, <1>5, <2>1, <2>3, CrewAssumption
  <2>4. CASE p \notin {s, t}
    <3>1. others[p].into = people[p].into /\ people[p].into \in Persons
      BY <1>1, <1>5, <2>4 DEF People
    <3>2. rank[people[p].into] < rank[p] /\ rank[p] \in Nat /\ rank[people[p].into] \in Nat
      BY <1>3, <1>5, <3>1
    <3> QED BY <2>1, <2>4, <3>1, <3>2
  <2> QED BY <2>2, <2>3, <2>4
<1>6. Ranked(others)
  BY <1>4, <1>5 DEF Ranked
<1> QED BY <1>2, <1>6 DEF Sound, others

-----------------------------------------------------------------------------
(* The repairs of a reconciliation, one after the other                     *)

RepairStep(evidence, u, before) ==
    IF before.failed \/ u \notin Repairs(evidence) THEN before
    ELSE LET e == CHOOSE x \in evidence[u] : TRUE IN
         [people |-> Repaired(before.people, u, e), failed |-> RepairFails(before.people, u, e)]

After(evidence) ==
    CHOOSE after : after =
        [u \in 0..LoginCount |->
            IF u = 0 THEN [people |-> crew, failed |-> FALSE]
            ELSE LET before == after[u - 1] IN
                 IF before.failed \/ u \notin Repairs(evidence) THEN before
                 ELSE LET e == CHOOSE x \in evidence[u] : TRUE IN
                      [people |-> Repaired(before.people, u, e), failed |-> RepairFails(before.people, u, e)]]

Repairing == [people : People, failed : BOOLEAN]

LEMMA AfterRepairsIs ==
    ASSUME NEW evidence
    PROVE  AfterRepairs(evidence) = IF Repairs(evidence) = {} THEN After(evidence)[0]
                                    ELSE After(evidence)[LoginCount]
BY Zenon DEF AfterRepairs, After

\* An account to be repaired has one proven employee.
LEMMA Proven ==
    ASSUME NEW evidence \in [Logins -> SUBSET Employees], NEW u \in Repairs(evidence)
    PROVE  /\ u \in Logins /\ user[u] = "active"
           /\ \E e \in Employees : /\ evidence[u] = {e} /\ (CHOOSE x \in evidence[u] : TRUE) = e
                                   /\ crew[e].login \in {NoLogin, u}
<1>1. u \in Logins /\ user[u] = "active" /\ Cardinality(evidence[u]) = 1
      /\ \A e \in evidence[u] : crew[e].login \in {NoLogin, u}
  BY DEF Repairs
<1>2. IsFiniteSet(evidence[u]) /\ evidence[u] \subseteq Employees
  BY <1>1, CrewAssumption, FS_Subset
<1>3. PICK e : evidence[u] = {e}
  BY <1>1, <1>2, FS_Singleton
<1> QED BY <1>1, <1>2, <1>3

\* A repair links the employee, changes nothing, or merges into the employee.
LEMMA RepairedCases ==
    ASSUME NEW people, NEW u, NEW e
    PROVE  \/ Current(u) = {} /\ Repaired(people, u, e) = [people EXCEPT ![e].login = u]
           \/ Current(u) # {} /\ Current(u) \cap Employees # {} /\ Repaired(people, u, e) = people
           \/ \E s \in Current(u) \ Employees : Repaired(people, u, e) = MergedInto(people, s, e, u)
<1> DEFINE s == CHOOSE p \in Current(u) : TRUE
<1>1. CASE Current(u) = {}
  BY <1>1 DEF Repaired
<1>2. CASE Current(u) # {}
  <2>1. s \in Current(u)
    BY <1>2
  <2>2. Repaired(people, u, e) = IF s \in Employees THEN people ELSE MergedInto(people, s, e, u)
    BY <1>2 DEF Repaired
  <2> HIDE DEF s
  <2> QED BY <1>2, <2>1, <2>2
<1> QED BY <1>1, <1>2

LEMMA RepairedType ==
    ASSUME NEW people \in People, NEW u \in Logins, NEW e \in Employees
    PROVE  Repaired(people, u, e) \in People
<1>1. e \in Persons
  BY CrewAssumption
<1>2. [people EXCEPT ![e].login = u] \in People
  BY <1>1 DEF People
<1>3. \A s \in Current(u) : MergedInto(people, s, e, u) \in People
  BY <1>1, MergedType DEF Current
<1> QED BY <1>2, <1>3, RepairedCases

LEMMA RepairStepType ==
    ASSUME NEW evidence \in [Logins -> SUBSET Employees], NEW u \in Logins, NEW b \in Repairing
    PROVE  RepairStep(evidence, u, b) \in Repairing
<1>1. CASE b.failed \/ u \notin Repairs(evidence)
  BY <1>1 DEF RepairStep
<1>2. CASE ~(b.failed \/ u \notin Repairs(evidence))
  <2>1. PICK e \in Employees : (CHOOSE x \in evidence[u] : TRUE) = e
    BY <1>2, Proven
  <2>2. RepairStep(evidence, u, b) =
          [people |-> Repaired(b.people, u, e), failed |-> RepairFails(b.people, u, e)]
    BY <1>2, <2>1 DEF RepairStep
  <2>3. Repaired(b.people, u, e) \in People
    BY RepairedType DEF Repairing
  <2>4. RepairFails(b.people, u, e) \in BOOLEAN
    BY DEF RepairFails
  <2> QED BY <2>2, <2>3, <2>4 DEF Repairing
<1> QED BY <1>1, <1>2

LEMMA RepairsRun ==
    ASSUME crew \in People, NEW evidence \in [Logins -> SUBSET Employees]
    PROVE  /\ After(evidence)[0] = [people |-> crew, failed |-> FALSE]
           /\ \A u \in 0..LoginCount : After(evidence)[u] \in Repairing
           /\ \A u \in Logins : After(evidence)[u] = RepairStep(evidence, u, After(evidence)[u - 1])
<1> DEFINE start == [people |-> crew, failed |-> FALSE]
           step == [n \in Nat |-> [b \in Repairing |->
                       IF n + 1 \in Logins THEN RepairStep(evidence, n + 1, b) ELSE b]]
           body(after) == [u \in 0..LoginCount |->
                              IF u = 0 THEN [people |-> crew, failed |-> FALSE]
                              ELSE LET before == after[u - 1] IN
                                   IF before.failed \/ u \notin Repairs(evidence) THEN before
                                   ELSE LET e == CHOOSE x \in evidence[u] : TRUE IN
                                        [people |-> Repaired(before.people, u, e),
                                         failed |-> RepairFails(before.people, u, e)]]
<1>0. LoginCount \in Nat /\ Logins = 1..LoginCount
  BY CrewAssumption DEF Logins
<1>1. start \in Repairing
  BY DEF Repairing
<1>2. step \in [Nat -> [Repairing -> Repairing]]
  BY RepairStepType
<1>3. PICK f : Iterates(f, Repairing, start, step)
  <2> HIDE DEF step, start
  <2> QED BY <1>1, <1>2, Iteration
<1>4. \A after : body(after) = [u \in 0..LoginCount |-> IF u = 0 THEN start
                                                       ELSE RepairStep(evidence, u, after[u - 1])]
  BY DEF RepairStep
<1> DEFINE g == [u \in 0..LoginCount |-> f[u]]
<1>5. g = body(g)
  <2>1. ASSUME NEW u \in 1..LoginCount PROVE g[u] = RepairStep(evidence, u, g[u - 1])
    <3>1. u - 1 \in Nat /\ (u - 1) + 1 = u /\ u - 1 \in 0..LoginCount /\ u \in Logins /\ u \in 0..LoginCount
      BY <1>0
    <3>2. f[u - 1] \in Repairing /\ f[u] = step[u - 1][f[u - 1]]
      BY <1>3, <3>1 DEF Iterates
    <3> QED BY <3>1, <3>2
  <2>2. g[0] = start
    BY <1>0, <1>3 DEF Iterates
  <2>3. g = [u \in 0..LoginCount |-> IF u = 0 THEN start ELSE RepairStep(evidence, u, g[u - 1])]
    <3>1. \A u \in 0..LoginCount : u # 0 => u \in 1..LoginCount
      BY <1>0
    <3>2. \A u \in 0..LoginCount : g[u] = IF u = 0 THEN start ELSE RepairStep(evidence, u, g[u - 1])
      BY <2>1, <2>2, <3>1
    <3>3. g = [u \in 0..LoginCount |-> g[u]]
      OBVIOUS
    <3> HIDE DEF g, start
    <3> QED BY <3>2, <3>3
  <2> HIDE DEF body, g, start
  <2> QED BY <1>4, <2>3
<1>6. After(evidence) = body(After(evidence))
  <2>1. \E after : after = body(after)
    BY <1>5
  <2> QED BY <2>1, Zenon DEF After
<1> DEFINE A == After(evidence)
<1>7. A = [u \in 0..LoginCount |-> IF u = 0 THEN start ELSE RepairStep(evidence, u, A[u - 1])]
  <2> HIDE DEF body, start
  <2> QED BY <1>4, <1>6
<1> HIDE DEF A
<1>8. A[0] = start
  BY <1>0, <1>7
<1>9. ASSUME NEW u \in Logins PROVE A[u] = RepairStep(evidence, u, A[u - 1])
  <2>1. u \in 0..LoginCount /\ u # 0
    BY <1>0
  <2>2. \A v \in 0..LoginCount : A[v] = IF v = 0 THEN start ELSE RepairStep(evidence, v, A[v - 1])
    <3> HIDE DEF start
    <3> QED BY <1>7, Zenon
  <2> QED BY <2>1, <2>2
<1>10. \A u \in 0..LoginCount : A[u] \in Repairing
  <2> DEFINE S == {n \in Nat : n <= LoginCount => A[n] \in Repairing}
  <2>1. 0 \in S
    BY <1>1, <1>8
  <2>2. ASSUME NEW n \in S PROVE n + 1 \in S
    <3>1. CASE n + 1 <= LoginCount
      <4>1. n + 1 \in Logins /\ (n + 1) - 1 = n /\ n <= LoginCount /\ n + 1 \in Nat
        BY <1>0, <3>1
      <4>2. A[n] \in Repairing /\ A[n + 1] = RepairStep(evidence, n + 1, A[n])
        BY <1>9, <4>1
      <4>3. A[n + 1] \in Repairing
        BY <4>1, <4>2, RepairStepType
      <4> QED BY <4>1, <4>3
    <3>2. CASE ~(n + 1 <= LoginCount)
      BY <3>2
    <3> QED BY <3>1, <3>2
  <2>3. S \in SUBSET Nat
    OBVIOUS
  <2>4. S = Nat
    <3> HIDE DEF S
    <3> QED BY <2>1, <2>2, <2>3, Induction
  <2> QED BY <1>0, <2>4
<1> QED BY <1>8, <1>9, <1>10 DEF A

\* Induction over the accounts, in the order in which they are repaired.
LEMMA LoginInduction ==
    ASSUME NEW S, 0 \in S, \A u \in Logins : u - 1 \in S => u \in S
    PROVE  \A u \in 0..LoginCount : u \in S
<1> DEFINE T == {n \in Nat : n <= LoginCount => n \in S}
<1>0. LoginCount \in Nat /\ Logins = 1..LoginCount
  BY CrewAssumption DEF Logins
<1>1. 0 \in T
  OBVIOUS
<1>2. ASSUME NEW n \in T PROVE n + 1 \in T
  <2>1. CASE n + 1 <= LoginCount
    <3>1. n + 1 \in Logins /\ (n + 1) - 1 = n /\ n \in S /\ n + 1 \in Nat
      BY <1>0, <2>1
    <3>2. n + 1 \in S
      BY <3>1
    <3> QED BY <3>1, <3>2
  <2>2. CASE ~(n + 1 <= LoginCount)
    BY <2>2
  <2> QED BY <2>1, <2>2
<1>3. T = Nat
  <2>1. T \in SUBSET Nat
    OBVIOUS
  <2> HIDE DEF T
  <2> QED BY <1>1, <1>2, <2>1, Induction
<1> QED BY <1>0, <1>3

\* No person merged into another has an account.
Unlinked(people) == \A p \in Persons : people[p].into # "nobody" => people[p].login = NoLogin

\* What every repair keeps.
Kept(people) ==
    /\ Sound(people)
    /\ \A p \in Persons : people[p].into \in {crew[p].into} \cup Employees
    /\ \A p \in Persons : crew[p].into # "nobody" => people[p].into = crew[p].into
    /\ Unlinked(crew) => Unlinked(people)

LEMMA RepairedKept ==
    ASSUME NEW people \in People, Kept(people), NEW u \in Logins, NEW e \in Employees
    PROVE  Kept(Repaired(people, u, e))
<1>0. /\ e \in Persons /\ people[e].into = "nobody" /\ u # NoLogin
      /\ Sound(people) /\ Closed(people)
  BY CrewAssumption, PeopleClosed DEF Kept, Sound, EmployeesEnd, Logins, NoLogin
<1>1. Kept([people EXCEPT ![e].login = u])
  <2> DEFINE others == [people EXCEPT ![e].login = u]
  <2>1. \A p \in Persons : /\ others[p].into = people[p].into
                           /\ p # e => others[p].login = people[p].login
    BY DEF People
  <2> HIDE DEF others
  <2>2. Sound(others)
    BY <1>0, <2>1, SameSound
  <2>3. Unlinked(people) => Unlinked(others)
    BY <1>0, <2>1 DEF Unlinked
  <2> QED BY <2>1, <2>2, <2>3 DEF Kept, others
<1>2. ASSUME NEW s \in Current(u) \ Employees
      PROVE  Kept(MergedInto(people, s, e, u))
  <2> DEFINE others == MergedInto(people, s, e, u)
  <2>1. s \in Persons \ Employees /\ s # e /\ crew[s].into = "nobody"
    BY <1>2 DEF Current
  <2>2. Sound(others)
    BY <1>0, <2>1, MergedSound
  <2>3. \A p \in Persons :
          /\ others[p].into = IF p = s THEN e ELSE people[p].into
          /\ others[p].login = IF p = s THEN NoLogin ELSE IF p = e THEN u ELSE people[p].login
    BY <1>0, <2>1 DEF MergedInto, People
  <2> HIDE DEF others
  <2>4. Unlinked(people) => Unlinked(others)
    BY <1>0, <2>1, <2>3 DEF Unlinked
  <2>5. \A p \in Persons : crew[p].into # "nobody" => others[p].into = crew[p].into
    BY <2>1, <2>3 DEF Kept
  <2>6. \A p \in Persons : others[p].into \in {crew[p].into} \cup Employees
    BY <2>3 DEF Kept
  <2> QED BY <2>2, <2>4, <2>5, <2>6 DEF Kept, others
<1> QED BY <1>1, <1>2, RepairedCases

\* The repairs keep the redirects sound and, unless they fail, the accounts
\* of the people unique.
LEMMA RepairsKeep ==
    ASSUME CrewTypeOK, Sound(crew), NEW evidence \in [Logins -> SUBSET Employees]
    PROVE  /\ AfterRepairs(evidence) \in Repairing
           /\ Kept(AfterRepairs(evidence).people)
           /\ AfterRepairs(evidence).failed \/ Linkable(AfterRepairs(evidence).people)
<1> DEFINE A == After(evidence)
           S == {u \in 0..LoginCount : Kept(A[u].people) /\ (A[u].failed \/ Linkable(A[u].people))}
<1>0. crew \in People /\ Linkable(crew) /\ LoginCount \in Nat
  BY CrewAssumption DEF CrewTypeOK, People
<1>1. /\ A[0] = [people |-> crew, failed |-> FALSE]
      /\ \A u \in 0..LoginCount : A[u] \in Repairing
      /\ \A u \in Logins : A[u] = RepairStep(evidence, u, A[u - 1])
  BY <1>0, RepairsRun
<1> HIDE DEF A
<1>2. 0 \in S
  <2>1. Kept(crew)
    BY DEF Kept
  <2> QED BY <1>0, <1>1, <2>1
<1>3. ASSUME NEW u \in Logins, u - 1 \in S PROVE u \in S
  <2>1. u \in 0..LoginCount /\ A[u - 1] \in Repairing /\ A[u] = RepairStep(evidence, u, A[u - 1])
    BY <1>0, <1>1, <1>3 DEF Logins
  <2>2. CASE A[u] = A[u - 1]
    BY <1>3, <2>1, <2>2
  <2>3. CASE u \in Repairs(evidence) /\ ~A[u - 1].failed
    <3>1. PICK e \in Employees : (CHOOSE x \in evidence[u] : TRUE) = e
      BY <2>3, Proven
    <3>2. /\ A[u].people = Repaired(A[u - 1].people, u, e)
          /\ A[u].failed = RepairFails(A[u - 1].people, u, e)
      <4>1. RepairStep(evidence, u, A[u - 1]) =
              [people |-> Repaired(A[u - 1].people, u, e), failed |-> RepairFails(A[u - 1].people, u, e)]
        BY <2>3, <3>1 DEF RepairStep
      <4> QED BY <2>1, <4>1
    <3>3. A[u - 1].people \in People /\ Kept(A[u - 1].people)
      BY <1>3, <2>1 DEF Repairing
    <3>4. Kept(A[u].people)
      BY <3>2, <3>3, RepairedKept
    <3>5. A[u].failed \/ Linkable(A[u].people)
      BY <3>2 DEF RepairFails
    <3> QED BY <2>1, <3>4, <3>5
  <2> QED BY <2>1, <2>2, <2>3 DEF RepairStep
<1>4. \A u \in 0..LoginCount : u \in S
  <2> HIDE DEF S
  <2> QED BY <1>2, <1>3, LoginInduction
<1>5. 0 \in 0..LoginCount /\ LoginCount \in 0..LoginCount
  BY <1>0
<1>6. AfterRepairs(evidence) \in {A[0], A[LoginCount]}
  BY AfterRepairsIs DEF A
<1> QED BY <1>1, <1>4, <1>5, <1>6

-----------------------------------------------------------------------------
(* The invariant                                                            *)

\* A pending edit knows two different people; the duplicate is no employee, and
\* while the edit waits only a reconciliation merges, into employees.
EditInv ==
    /\ edit.op # "none" => edit.target \in Persons
    /\ edit.op = "merge" =>
          /\ edit.source \in Persons \ Employees /\ edit.source # edit.target
          /\ crew[edit.target].into \in {"nobody"} \cup Employees

CInv == CrewTypeOK /\ Sound(crew) /\ EditInv /\ (~astray => Unlinked(crew))

Edits == [op : {"none", "merge", "transfer", "save"}, source : Persons \cup {"nobody"},
          target : Persons \cup {"nobody"}, login : Logins \cup {NoLogin}, live : BOOLEAN]

LEMMA CrewTypes ==
    CrewTypeOK <=> /\ crew \in People /\ edit \in Edits /\ Linkable(crew)
                   /\ user \in [Logins -> {"absent", "active", "inactive"}]
                   /\ proof \in [Logins -> SUBSET Employees]
                   /\ snapshot \in [Days -> Persons \cup {"nobody"}] /\ shown \in [Days -> SUBSET Logins]
                   /\ astray \in BOOLEAN /\ unlisted \in BOOLEAN
BY DEF CrewTypeOK, People, Edits

LEMMA RebuildsType ==
    ASSUME Rebuilds
    PROVE  shown' \in [Days -> SUBSET Logins] /\ unlisted' \in BOOLEAN
BY DEF Rebuilds, Visible

LEMMA InitCInv == CrewInit => CInv
<1> SUFFICES ASSUME CrewInit PROVE CInv
  OBVIOUS
<1>1. crew = [p \in Persons |-> [login |-> NoLogin, into |-> "nobody", live |-> TRUE]]
  BY DEF CrewInit
<1>2. crew \in People /\ Linkable(crew)
  BY <1>1 DEF People, Linkable
<1>3. edit \in Edits /\ edit.op = "none"
  BY DEF CrewInit, NoEdit, Edits
<1>4. CrewTypeOK
  BY <1>2, <1>3, CrewTypes DEF CrewInit
<1>5. EmployeesEnd(crew)
  BY <1>1, CrewAssumption DEF EmployeesEnd
<1>6. Ranked(crew)
  <2>1. [p \in Persons |-> 0] \in [Persons -> Nat]
    OBVIOUS
  <2> QED BY <1>1, <2>1 DEF Ranked
<1>7. Unlinked(crew)
  BY <1>1 DEF Unlinked
<1> QED BY <1>3, <1>4, <1>5, <1>6, <1>7 DEF CInv, Sound, EditInv

\* What the loop reads is a canonical person.
LEMMA ReadPerson ==
    ASSUME CrewTypeOK, NEW p \in Persons, Canonical(crew, p) # "nobody"
    PROVE  Canonical(crew, p) \in Persons /\ crew[Canonical(crew, p)].into = "nobody"
BY CrewTypes, PeopleClosed, CanonicalPerson

LEMMA ReadsInv ==
    ASSUME CInv, MergeReads \/ TransferReads \/ PersonReads
    PROVE  CInv'
<1>0. /\ UNCHANGED <<crew, user, proof, snapshot, shown, astray, unlisted>>
      /\ CrewTypeOK /\ crew \in People
  BY CrewTypes DEF CInv, MergeReads, TransferReads, PersonReads
<1>1. edit' \in Edits /\ EditInv'
  <2>1. ASSUME NEW s \in Persons, NEW t \in Persons, crew[t].into = "nobody",
               s # t, s \notin Employees,
               edit' = [NoEdit EXCEPT !.op = "merge", !.source = s, !.target = t, !.login = crew[s].login]
        PROVE  edit' \in Edits /\ EditInv'
    <3>1. crew[s].login \in Logins \cup {NoLogin}
      BY <1>0 DEF People
    <3>2. edit' = [op |-> "merge", source |-> s, target |-> t, login |-> crew[s].login, live |-> TRUE]
      BY <2>1 DEF NoEdit
    <3>3. edit' \in Edits
      BY <3>1, <3>2 DEF Edits
    <3>4. edit'.source = s /\ edit'.target = t /\ crew' = crew
      BY <1>0, <3>2
    <3> QED BY <2>1, <3>3, <3>4 DEF EditInv
  <2>2. ASSUME NEW u \in Logins, NEW b \in Persons, NEW t, t = Canonical(crew, b), t # "nobody",
               edit' = [NoEdit EXCEPT !.op = "transfer", !.target = t, !.login = u]
        PROVE  edit' \in Edits /\ EditInv'
    <3>1. t \in Persons
      BY <1>0, <2>2, ReadPerson
    <3>2. edit' = [op |-> "transfer", source |-> "nobody", target |-> t, login |-> u, live |-> TRUE]
      BY <2>2 DEF NoEdit
    <3> QED BY <3>1, <3>2 DEF Edits, EditInv
  <2>3. ASSUME NEW p \in Persons, NEW u \in Logins \cup {NoLogin}, NEW live \in BOOLEAN,
               edit' = [NoEdit EXCEPT !.op = "save", !.target = p, !.login = u, !.live = live]
        PROVE  edit' \in Edits /\ EditInv'
    <3>1. edit' = [op |-> "save", source |-> "nobody", target |-> p, login |-> u, live |-> live]
      BY <2>3 DEF NoEdit
    <3> QED BY <3>1 DEF Edits, EditInv
  <2>4. CASE MergeReads
    <3>1. PICK a \in Persons, b \in Persons :
            LET s == Canonical(crew, a)  t == Canonical(crew, b) IN
            /\ "nobody" \notin {s, t} /\ s # t /\ s \notin Employees
            /\ edit' = [NoEdit EXCEPT !.op = "merge", !.source = s, !.target = t, !.login = crew[s].login]
      BY <2>4 DEF MergeReads
    <3> DEFINE s == Canonical(crew, a)
               t == Canonical(crew, b)
    <3>2. /\ s # "nobody" /\ t # "nobody" /\ s # t /\ s \notin Employees
          /\ edit' = [NoEdit EXCEPT !.op = "merge", !.source = s, !.target = t, !.login = crew[s].login]
      BY <3>1
    <3>3. s \in Persons /\ t \in Persons /\ crew[t].into = "nobody"
      BY <1>0, <3>2, ReadPerson
    <3> HIDE DEF s, t
    <3> QED BY <2>1, <3>2, <3>3
  <2>5. CASE TransferReads
    BY <2>2, <2>5 DEF TransferReads
  <2>6. CASE PersonReads
    BY <2>3, <2>6 DEF PersonReads
  <2> QED BY <2>4, <2>5, <2>6
<1>2. Linkable(crew)'
  BY <1>0, CrewTypes DEF Linkable
<1>3. CrewTypeOK'
  BY <1>0, <1>1, <1>2, CrewTypes DEF CrewTypeOK, Edits
<1> QED BY <1>0, <1>1, <1>3 DEF CInv, Sound, EmployeesEnd, Ranked, Unlinked

\* The tables after a step that changes people and rebuilds the visibility.
LEMMA RebuiltTypes ==
    ASSUME CrewTypeOK, crew' \in People, Linkable(crew'), UNCHANGED user, Rebuilds,
           edit' \in Edits, astray' \in BOOLEAN, proof' \in [Logins -> SUBSET Employees],
           snapshot' \in [Days -> Persons \cup {"nobody"}]
    PROVE  CrewTypeOK'
<1>1. Linkable(crew)'
  BY DEF Linkable
<1>2. user' \in [Logins -> {"absent", "active", "inactive"}]
  BY CrewTypes
<1> QED BY <1>1, <1>2, RebuildsType DEF CrewTypeOK, People, Edits

\* What an edit makes of the people it finds.
LEMMA EditedPeople ==
    ASSUME CInv, edit.op # "none"
    PROVE  /\ Edited \in People /\ Sound(Edited)
           /\ (~astray /\ crew[edit.target].into = "nobody") => Unlinked(Edited)
<1> DEFINE t == edit.target
           s == edit.source
           u == edit.login
<1>0. /\ crew \in People /\ Sound(crew) /\ Closed(crew) /\ t \in Persons
      /\ u \in Logins \cup {NoLogin} /\ edit.live \in BOOLEAN /\ edit.op \in {"merge", "transfer", "save"}
      /\ edit.op = "merge" => /\ s \in Persons \ Employees /\ s # t
                              /\ crew[t].into \in {"nobody"} \cup Employees
      /\ ~astray => Unlinked(crew)
  BY CrewTypes, PeopleClosed DEF CInv, Edits, EditInv
<1>1. CASE edit.op = "merge"
  <2>1. Edited = MergedInto(crew, s, t, u)
    BY <1>1 DEF Edited
  <2>2. MergedInto(crew, s, t, u) \in People /\ Sound(MergedInto(crew, s, t, u))
    <3> HIDE DEF s, t, u
    <3> QED BY <1>0, <1>1, MergedType, MergedSound
  <2>3. \A p \in Persons :
          /\ MergedInto(crew, s, t, u)[p].into = IF p = s THEN t ELSE crew[p].into
          /\ MergedInto(crew, s, t, u)[p].login =
                IF p = s \/ (p = t /\ u # NoLogin) THEN IF p = s THEN NoLogin ELSE u ELSE crew[p].login
    BY <1>0, <1>1 DEF MergedInto, People
  <2>4. (~astray /\ crew[t].into = "nobody") => Unlinked(MergedInto(crew, s, t, u))
    <3> HIDE DEF s, t, u
    <3> QED BY <1>0, <1>1, <2>3 DEF Unlinked
  <2> QED BY <2>1, <2>2, <2>4
<1>2. CASE edit.op = "transfer"
  <2> DEFINE others == [p \in Persons |-> IF p = t THEN [crew[p] EXCEPT !.login = u]
                                         ELSE IF crew[p].login = u THEN [crew[p] EXCEPT !.login = NoLogin]
                                         ELSE crew[p]]
  <2>1. Edited = others
    BY <1>2 DEF Edited
  <2>2. others \in People
    BY <1>0 DEF People
  <2>3. \A p \in Persons : /\ others[p].into = crew[p].into
                           /\ p # t => others[p].login \in {crew[p].login, NoLogin}
    BY <1>0 DEF People
  <2> HIDE DEF others
  <2>4. Sound(others)
    BY <1>0, <2>3, SameSound
  <2>5. (~astray /\ crew[t].into = "nobody") => Unlinked(others)
    BY <1>0, <2>3 DEF Unlinked
  <2> QED BY <2>1, <2>2, <2>4, <2>5
<1>3. CASE edit.op = "save"
  <2> DEFINE others == [crew EXCEPT ![t].login = u, ![t].live = edit.live]
  <2>1. Edited = others
    BY <1>3 DEF Edited
  <2>2. others \in People
    BY <1>0 DEF People
  <2>3. \A p \in Persons : others[p].into = crew[p].into /\ (p # t => others[p].login = crew[p].login)
    BY <1>0 DEF People
  <2> HIDE DEF others
  <2>4. Sound(others)
    BY <1>0, <2>3, SameSound
  <2>5. (~astray /\ crew[t].into = "nobody") => Unlinked(others)
    BY <1>0, <2>3 DEF Unlinked
  <2> QED BY <2>1, <2>2, <2>4, <2>5
<1> QED BY <1>0, <1>1, <1>2, <1>3

LEMMA EditWritesInv ==
    ASSUME CInv, EditWrites
    PROVE  CInv'
<1>1. /\ edit.op # "none" /\ Linkable(Edited) /\ crew' = Edited /\ edit' = NoEdit
      /\ astray' = (astray \/ crew[edit.target].into # "nobody")
      /\ UNCHANGED <<user, proof, snapshot>> /\ Rebuilds
  BY DEF EditWrites
<1>2. crew' \in People /\ Sound(crew') /\ (~astray' => Unlinked(crew'))
  BY <1>1, EditedPeople
<1>3. edit' \in Edits /\ edit'.op = "none"
  BY <1>1 DEF NoEdit, Edits
<1>4. CrewTypeOK /\ astray' \in BOOLEAN
  BY <1>1, CrewTypes DEF CInv
<1>5. CrewTypeOK'
  BY <1>1, <1>2, <1>3, <1>4, RebuiltTypes, CrewTypes
<1> QED BY <1>2, <1>3, <1>5 DEF CInv, EditInv, Sound, EmployeesEnd, Ranked, Unlinked

LEMMA EditLostInv ==
    ASSUME CInv, EditLost
    PROVE  CInv'
<1>1. edit' = NoEdit /\ UNCHANGED <<crew, user, proof, snapshot, shown, astray, unlisted>>
  BY DEF EditLost
<1>2. edit' \in Edits /\ edit'.op = "none"
  BY <1>1 DEF NoEdit, Edits
<1>3. CrewTypeOK'
  BY <1>1, <1>2 DEF CInv, CrewTypeOK, Edits, Linkable
<1> QED BY <1>1, <1>2, <1>3 DEF CInv, EditInv, Sound, EmployeesEnd, Ranked, Unlinked

\* A reconciliation that does not fail, with the evidence it is run on.
LEMMA RepairedInv ==
    ASSUME CInv, NEW evidence \in [Logins -> SUBSET Employees],
           ~AfterRepairs(evidence).failed, crew' = AfterRepairs(evidence).people, proof' = evidence,
           UNCHANGED <<user, snapshot, edit, astray>>, Rebuilds
    PROVE  CInv'
<1>1. CrewTypeOK /\ Sound(crew)
  BY DEF CInv
<1>2. crew' \in People /\ Kept(crew') /\ Linkable(crew')
  BY <1>1, RepairsKeep DEF Repairing
<1>3. CrewTypeOK'
  BY <1>1, <1>2, RebuiltTypes, CrewTypes
<1>4. Sound(crew') /\ (Unlinked(crew) => Unlinked(crew'))
      /\ \A p \in Persons : crew'[p].into \in {crew[p].into} \cup Employees
  BY <1>2 DEF Kept
<1>5. EditInv'
  BY <1>4 DEF CInv, EditInv
<1> QED BY <1>3, <1>4, <1>5 DEF CInv, Sound, EmployeesEnd, Ranked, Unlinked

LEMMA ReconciliationInv ==
    ASSUME CInv, Reconciles \/ \E u \in Logins : CaptureProves(u)
    PROVE  CInv'
<1>1. CASE Reconciles
  <2>1. proof \in [Logins -> SUBSET Employees]
    BY CrewTypes DEF CInv
  <2> QED BY <1>1, <2>1, RepairedInv DEF Reconciles
<1>2. ASSUME NEW u \in Logins, CaptureProves(u) PROVE CInv'
  <2>1. PICK found \in SUBSET Employees \ {{}} :
          LET evidence == [proof EXCEPT ![u] = found]
              repaired == AfterRepairs(evidence)
          IN
          /\ user[u] # "absent" /\ ~repaired.failed
          /\ proof' = evidence /\ crew' = repaired.people
          /\ UNCHANGED <<user, snapshot, edit, astray>>
          /\ Rebuilds
    BY <1>2 DEF CaptureProves
  <2> DEFINE evidence == [proof EXCEPT ![u] = found]
  <2>2. evidence \in [Logins -> SUBSET Employees]
    BY CrewTypes DEF CInv
  <2>3. /\ ~AfterRepairs(evidence).failed /\ crew' = AfterRepairs(evidence).people /\ proof' = evidence
        /\ UNCHANGED <<user, snapshot, edit, astray>> /\ Rebuilds
    BY <2>1
  <2> HIDE DEF evidence
  <2> QED BY <2>2, <2>3, RepairedInv
<1> QED BY <1>1, <1>2

\* A step that leaves people, accounts and the pending edit alone.
LEMMA TablesInv ==
    ASSUME CInv, UNCHANGED <<crew, user, edit, astray>>, unlisted' \in BOOLEAN,
           proof' \in [Logins -> SUBSET Employees], shown' \in [Days -> SUBSET Logins],
           snapshot' \in [Days -> Persons \cup {"nobody"}]
    PROVE  CInv'
<1>1. CrewTypeOK'
  BY DEF CInv, CrewTypeOK, Linkable
<1> QED BY <1>1 DEF CInv, EditInv, Sound, EmployeesEnd, Ranked, Unlinked

\* A step that changes accounts, and at most the logins of people.
LEMMA LoginsInv ==
    ASSUME CInv, UNCHANGED <<edit, astray>>, crew' \in People,
           user' \in [Logins -> {"absent", "active", "inactive"}],
           \A p \in Persons : crew'[p].into = crew[p].into, Linkable(crew)',
           Unlinked(crew) => Unlinked(crew'),
           unlisted' \in BOOLEAN, proof' \in [Logins -> SUBSET Employees],
           shown' \in [Days -> SUBSET Logins], UNCHANGED snapshot
    PROVE  CInv'
<1>1. CrewTypeOK'
  BY DEF CInv, CrewTypeOK, People
<1>2. Sound(crew')
  BY CrewTypes, PeopleClosed, SameSound DEF CInv
<1>3. EditInv'
  BY DEF CInv, EditInv
<1> QED BY <1>1, <1>2, <1>3 DEF CInv, Sound, EmployeesEnd, Ranked, Unlinked

LEMMA AccountActivatedInv ==
    ASSUME CInv, NEW u \in Logins, AccountActivated(u)
    PROVE  CInv'
<1>0. /\ crew \in People /\ Linkable(crew) /\ user \in [Logins -> {"absent", "active", "inactive"}]
      /\ proof \in [Logins -> SUBSET Employees] /\ shown \in [Days -> SUBSET Logins]
      /\ u # NoLogin /\ NoLogin \notin Logins
  BY CrewTypes DEF CInv, Logins, NoLogin
<1>1. /\ user[u] = "absent" /\ user' = [user EXCEPT ![u] = "active"] /\ unlisted' = TRUE
      /\ UNCHANGED <<proof, snapshot, shown, edit, astray>>
  BY DEF AccountActivated
<1>2. /\ crew' \in People /\ \A p \in Persons : crew'[p].into = crew[p].into
      /\ Unlinked(crew) => Unlinked(crew')
      /\ \E h \in Persons : /\ \A p \in Persons : p # h => crew'[p].login = crew[p].login
                            /\ crew'[h].login \in {crew[h].login, u}
    \/ UNCHANGED crew
  <2>1. ASSUME NEW h \in Persons, crew[h].into = "nobody", crew' = [crew EXCEPT ![h].login = u]
        PROVE  /\ crew' \in People /\ \A p \in Persons : crew'[p].into = crew[p].into
               /\ Unlinked(crew) => Unlinked(crew')
               /\ \A p \in Persons : p # h => crew'[p].login = crew[p].login
               /\ crew'[h].login = u
    BY <1>0, <2>1 DEF People, Unlinked
  <2> QED BY <2>1 DEF AccountActivated
<1>3. \A p \in Persons : crew[p].login # u
  BY <1>0, <1>1 DEF Linkable
<1>4. Linkable(crew)'
  <2>1. \A p \in Persons : crew'[p].login # NoLogin => user'[crew'[p].login] # "absent"
    BY <1>0, <1>1, <1>2 DEF Linkable, People
  <2>2. \A p, q \in Persons : p # q /\ crew'[p].login = crew'[q].login => crew'[p].login = NoLogin
    BY <1>0, <1>2, <1>3 DEF Linkable
  <2> QED BY <2>1, <2>2 DEF Linkable
<1>5. crew' \in People /\ (\A p \in Persons : crew'[p].into = crew[p].into) /\ (Unlinked(crew) => Unlinked(crew'))
  BY <1>0, <1>2
<1>6. user' \in [Logins -> {"absent", "active", "inactive"}]
  BY <1>0, <1>1
<1> QED BY <1>0, <1>1, <1>4, <1>5, <1>6, LoginsInv

LEMMA ActivityChangesInv ==
    ASSUME CInv, NEW u \in Logins, ActivityChanges(u)
    PROVE  CInv'
<1>0. /\ crew \in People /\ Linkable(crew) /\ user \in [Logins -> {"absent", "active", "inactive"}]
      /\ proof \in [Logins -> SUBSET Employees] /\ shown \in [Days -> SUBSET Logins]
  BY CrewTypes DEF CInv
<1>1. /\ user[u] # "absent" /\ unlisted' = TRUE
      /\ user' = [user EXCEPT ![u] = IF user[u] = "active" THEN "inactive" ELSE "active"]
      /\ UNCHANGED <<crew, proof, snapshot, shown, edit, astray>>
  BY DEF ActivityChanges
<1>2. user' \in [Logins -> {"absent", "active", "inactive"}]
      /\ \A v \in Logins : user[v] # "absent" => user'[v] # "absent"
  BY <1>0, <1>1
<1>3. Linkable(crew)'
  BY <1>0, <1>1, <1>2 DEF Linkable, People
<1>4. Unlinked(crew) => Unlinked(crew')
  BY <1>1
<1> QED BY <1>0, <1>1, <1>2, <1>3, <1>4, LoginsInv

LEMMA LoginPurgedInv ==
    ASSUME CInv, NEW u \in Logins, LoginPurged(u)
    PROVE  CInv'
<1>0. /\ crew \in People /\ Linkable(crew) /\ user \in [Logins -> {"absent", "active", "inactive"}]
      /\ proof \in [Logins -> SUBSET Employees] /\ shown \in [Days -> SUBSET Logins] /\ unlisted \in BOOLEAN
      /\ u # NoLogin /\ NoLogin \notin Logins
  BY CrewTypes DEF CInv, Logins, NoLogin
<1>1. /\ user' = [user EXCEPT ![u] = "absent"] /\ proof' = [proof EXCEPT ![u] = {}]
      /\ crew' = [p \in Persons |-> IF crew[p].login = u THEN [crew[p] EXCEPT !.login = NoLogin] ELSE crew[p]]
      /\ shown' = [d \in Days |-> shown[d] \ {u}] /\ UNCHANGED <<snapshot, edit, astray, unlisted>>
  BY DEF LoginPurged
<1>2. crew' \in People
      /\ \A p \in Persons : /\ crew'[p].into = crew[p].into
                            /\ crew'[p].login = IF crew[p].login = u THEN NoLogin ELSE crew[p].login
  BY <1>0, <1>1 DEF People
<1>3. Linkable(crew)'
  <2>1. \A v \in Logins : v # u => user'[v] = user[v]
    BY <1>0, <1>1
  <2> QED BY <1>0, <1>2, <2>1 DEF Linkable, People
<1>4. Unlinked(crew) => Unlinked(crew')
  BY <1>2 DEF Unlinked
<1>5. /\ user' \in [Logins -> {"absent", "active", "inactive"}]
      /\ proof' \in [Logins -> SUBSET Employees] /\ shown' \in [Days -> SUBSET Logins]
  BY <1>0, <1>1
<1> QED BY <1>0, <1>1, <1>2, <1>3, <1>4, <1>5, LoginsInv

LEMMA NextCInv == CInv /\ [CrewNext]_crewVars => CInv'
<1> SUFFICES ASSUME CInv, [CrewNext]_crewVars PROVE CInv'
  OBVIOUS
<1>0. /\ proof \in [Logins -> SUBSET Employees] /\ shown \in [Days -> SUBSET Logins]
      /\ snapshot \in [Days -> Persons \cup {"nobody"}] /\ unlisted \in BOOLEAN
  BY CrewTypes DEF CInv
<1>1. ASSUME NEW u \in Logins, ProofCancelled(u) PROVE CInv'
  BY <1>0, <1>1, TablesInv DEF ProofCancelled
<1>2. ASSUME NEW d \in Days, Publishes(d) PROVE CInv'
  <2>1. /\ UNCHANGED <<crew, user, proof, edit, astray>> /\ Rebuilds
        /\ \E p \in Persons : snapshot' = [snapshot EXCEPT ![d] = p]
    BY <1>2 DEF Publishes
  <2>2. snapshot' \in [Days -> Persons \cup {"nobody"}]
    BY <1>0, <2>1
  <2> QED BY <1>0, <2>1, <2>2, RebuildsType, TablesInv
<1>3. CASE UNCHANGED crewVars
  BY <1>0, <1>3, TablesInv DEF crewVars
<1> QED BY <1>1, <1>2, <1>3, ReadsInv, EditWritesInv, EditLostInv, ReconciliationInv, AccountActivatedInv,
          ActivityChangesInv, LoginPurgedInv DEF CrewNext

-----------------------------------------------------------------------------
(* Visibility                                                               *)

\* A purge takes the account out of what is shown, and out of what is to be
\* shown: the redirects and the other accounts stay.
LEMMA PurgedVisible ==
    ASSUME CInv, NEW u \in Logins, LoginPurged(u), NEW d \in Days
    PROVE  Visible(crew', user', snapshot', d) = Visible(crew, user, snapshot, d) \ {u}
<1> DEFINE p == snapshot[d]
           q == Canonical(crew, p)
<1>0. /\ crew \in People /\ Closed(crew) /\ user \in [Logins -> {"absent", "active", "inactive"}]
      /\ snapshot \in [Days -> Persons \cup {"nobody"}] /\ "nobody" \notin Persons
  BY CrewTypes, PeopleClosed, CrewAssumption DEF CInv
<1>1. /\ user' = [user EXCEPT ![u] = "absent"] /\ snapshot' = snapshot
      /\ crew' = [h \in Persons |-> IF crew[h].login = u THEN [crew[h] EXCEPT !.login = NoLogin] ELSE crew[h]]
  BY DEF LoginPurged
<1>2. \A h \in Persons : /\ crew'[h].into = crew[h].into /\ crew'[h].live = crew[h].live
                         /\ crew'[h].login = IF crew[h].login = u THEN NoLogin ELSE crew[h].login
  BY <1>0, <1>1 DEF People
<1>3. user'[u] = "absent" /\ \A v \in Logins \ {u} : user'[v] = user[v]
  BY <1>0, <1>1
<1>4. NoLogin \notin Logins
  BY DEF Logins, NoLogin
<1>5. CASE p = "nobody"
  BY <1>1, <1>5 DEF Visible
<1>6. CASE p # "nobody"
  <2>1. p \in Persons
    BY <1>0, <1>6
  <2>2. Canonical(crew', p) = q
    BY <1>0, <1>2, <2>1, CanonicalSame
  <2>3. q \in Persons \cup {"nobody"}
    BY <1>0, <2>1, CanonicalPerson
  <2>4. /\ Visible(crew, user, snapshot, d) =
             {v \in Logins : q # "nobody" /\ crew[q].live /\ crew[q].login = v /\ user[v] = "active"}
        /\ Visible(crew', user', snapshot', d) =
             {v \in Logins : q # "nobody" /\ crew'[q].live /\ crew'[q].login = v /\ user'[v] = "active"}
    BY <1>1, <1>6, <2>2 DEF Visible
  <2> HIDE DEF q
  <2>5. ASSUME NEW v \in Logins, q # "nobody"
        PROVE  (crew'[q].live /\ crew'[q].login = v /\ user'[v] = "active") <=>
                   (crew[q].live /\ crew[q].login = v /\ user[v] = "active" /\ v # u)
    BY <1>2, <1>3, <1>4, <2>3, <2>5
  <2> QED BY <2>4, <2>5
<1> QED BY <1>5, <1>6

LEMMA NextVisible ==
    ASSUME CInv, VisibilityCurrent, [CrewNext]_crewVars
    PROVE  VisibilityCurrent'
<1>1. ASSUME Rebuilds PROVE VisibilityCurrent'
  BY <1>1 DEF Rebuilds, VisibilityCurrent
<1>2. ASSUME UNCHANGED <<crew, user, snapshot, shown, unlisted>> PROVE VisibilityCurrent'
  BY <1>2 DEF VisibilityCurrent
<1>3. ASSUME unlisted' = TRUE PROVE VisibilityCurrent'
  BY <1>3 DEF VisibilityCurrent
<1>4. ASSUME NEW u \in Logins, LoginPurged(u) PROVE VisibilityCurrent'
  <2>1. shown' = [d \in Days |-> shown[d] \ {u}] /\ unlisted' = unlisted
    BY <1>4 DEF LoginPurged
  <2>2. \A d \in Days : Visible(crew', user', snapshot', d) = Visible(crew, user, snapshot, d) \ {u}
    BY <1>4, PurgedVisible
  <2> QED BY <2>1, <2>2 DEF VisibilityCurrent
<1>5. CASE MergeReads \/ TransferReads \/ PersonReads \/ EditLost \/ UNCHANGED crewVars
  BY <1>2, <1>5 DEF MergeReads, TransferReads, PersonReads, EditLost, crewVars
<1>6. CASE EditWrites \/ Reconciles \/ (\E u \in Logins : CaptureProves(u)) \/ (\E d \in Days : Publishes(d))
  BY <1>1, <1>6 DEF EditWrites, Reconciles, CaptureProves, Publishes
<1>7. CASE \E u \in Logins : AccountActivated(u) \/ ActivityChanges(u)
  BY <1>3, <1>7 DEF AccountActivated, ActivityChanges
<1>8. CASE \E u \in Logins : ProofCancelled(u)
  BY <1>2, <1>8 DEF ProofCancelled
<1> QED BY <1>4, <1>5, <1>6, <1>7, <1>8 DEF CrewNext

-----------------------------------------------------------------------------
(* The reconciliation does not fail                                         *)

\* No two active accounts have the same single employee as their evidence.
Apart(evidence) ==
    \A u, v \in Logins :
        u # v /\ user[u] = "active" /\ user[v] = "active" /\ Cardinality(evidence[u]) = 1
            => evidence[u] # evidence[v]

\* Before account u is repaired, the repairs done so far were of other accounts
\* and left the employees of those to come as they were.
Untroubled(evidence, n, people) ==
    /\ Linkable(people)
    /\ \A p \in Persons : people[p].login \in {NoLogin, crew[p].login} \cup {v \in Repairs(evidence) : v <= n}
    /\ \A v \in Repairs(evidence) : v > n => \A e \in evidence[v] : people[e].login = crew[e].login

LEMMA RepairSucceeds ==
    ASSUME CInv, ~astray, NEW evidence \in [Logins -> SUBSET Employees], Apart(evidence),
           NEW u \in Repairs(evidence), NEW people \in People, Untroubled(evidence, u - 1, people),
           NEW e \in Employees, evidence[u] = {e}, crew[e].login \in {NoLogin, u}
    PROVE  ~RepairFails(people, u, e) /\ Untroubled(evidence, u, Repaired(people, u, e))
<1>0. /\ u \in Logins /\ u \in Nat /\ u # NoLogin /\ u - 1 < u /\ user[u] = "active" /\ e \in Persons
      /\ crew \in People /\ Linkable(crew) /\ Unlinked(crew) /\ Logins \subseteq Nat
  BY Proven, CrewTypes, CrewAssumption DEF CInv, Logins, NoLogin
<1>1. people[e].login \in {NoLogin, u}
  BY <1>0 DEF Untroubled
<1>2. \A p \in Persons : people[p].login = u => p \in Current(u)
  <2> SUFFICES ASSUME NEW p \in Persons, people[p].login = u PROVE p \in Current(u)
    OBVIOUS
  <2>1. \A v \in Repairs(evidence) : v <= u - 1 => v # u
    BY <1>0
  <2>2. crew[p].login = u
    BY <1>0, <2>1 DEF Untroubled
  <2>3. crew[p].into = "nobody"
    BY <1>0, <2>2 DEF Unlinked
  <2> QED BY <2>2, <2>3 DEF Current
<1>3. \A p, q \in Current(u) : p = q
  BY <1>0 DEF Current, Linkable
<1>4. ASSUME NEW others,
             \A p \in Persons : p # e => others[p].login \in {NoLogin, people[p].login},
             others[e].login \in {people[e].login, u},
             \A p \in Persons : p # e /\ p \in Employees => others[p].login = people[p].login,
             Linkable(others)
      PROVE  Untroubled(evidence, u, others)
  <2>1. \A p \in Persons : others[p].login \in {NoLogin, crew[p].login} \cup {v \in Repairs(evidence) : v <= u}
    <3>1. \A v \in Repairs(evidence) : v <= u - 1 => v <= u
      BY <1>0, Proven
    <3> QED BY <1>0, <1>4, <3>1 DEF Untroubled
  <2>2. ASSUME NEW v \in Repairs(evidence), v > u, NEW h \in evidence[v]
        PROVE  others[h].login = crew[h].login
    <3>1. v \in Logins /\ user[v] = "active" /\ v # u /\ v > u - 1
      BY <1>0, <2>2, Proven
    <3>2. evidence[v] = {h} /\ h \in Employees
      BY Proven
    <3>3. Cardinality(evidence[u]) = 1
      BY DEF Repairs
    <3>4. h # e
      BY <1>0, <3>1, <3>2, <3>3 DEF Apart
    <3> QED BY <1>4, <3>1, <3>2, <3>4, CrewAssumption DEF Untroubled
  <2> QED BY <1>4, <2>1, <2>2 DEF Untroubled
<1>5. CASE Current(u) = {} /\ Repaired(people, u, e) = [people EXCEPT ![e].login = u]
  <2> DEFINE others == [people EXCEPT ![e].login = u]
  <2>1. \A p \in Persons : others[p].login = IF p = e THEN u ELSE people[p].login
    BY <1>0 DEF People
  <2> HIDE DEF others
  <2>2. Linkable(others)
    BY <1>0, <1>2, <1>5, <2>1 DEF Untroubled, Linkable
  <2>3. Untroubled(evidence, u, others)
    BY <1>0, <1>4, <2>1, <2>2
  <2> QED BY <1>5, <2>2, <2>3 DEF RepairFails, others
<1>6. CASE Current(u) \cap Employees # {} /\ Repaired(people, u, e) = people
  <2>1. Linkable(people)
    BY DEF Untroubled
  <2>2. Untroubled(evidence, u, people)
    BY <1>0, <1>4, <2>1
  <2> QED BY <1>6, <2>1, <2>2 DEF RepairFails
<1>7. ASSUME NEW s \in Current(u) \ Employees, Repaired(people, u, e) = MergedInto(people, s, e, u)
      PROVE  ~RepairFails(people, u, e) /\ Untroubled(evidence, u, Repaired(people, u, e))
  <2> DEFINE others == MergedInto(people, s, e, u)
  <2>1. s \in Persons /\ s # e
    BY <1>7 DEF Current
  <2>2. \A p \in Persons :
          others[p].login = IF p = s THEN NoLogin ELSE IF p = e THEN u ELSE people[p].login
    BY <1>0, <2>1 DEF MergedInto, People
  <2> HIDE DEF others
  <2>3. \A p \in Persons : people[p].login = u => p = s
    BY <1>2, <1>3, <1>7
  <2>4. Linkable(others)
    BY <1>0, <2>1, <2>2, <2>3 DEF Untroubled, Linkable
  <2>5. Untroubled(evidence, u, others)
    BY <1>0, <1>4, <1>7, <2>1, <2>2, <2>4
  <2> QED BY <1>1, <1>7, <2>4, <2>5 DEF RepairFails, others
<1> QED BY <1>5, <1>6, <1>7, RepairedCases

LEMMA RepairsSucceed ==
    ASSUME CInv, ~astray, NEW evidence \in [Logins -> SUBSET Employees], Apart(evidence)
    PROVE  ~AfterRepairs(evidence).failed
<1> DEFINE A == After(evidence)
           S == {u \in 0..LoginCount : ~A[u].failed /\ Untroubled(evidence, u, A[u].people)}
<1>0. crew \in People /\ Linkable(crew) /\ LoginCount \in Nat
  BY CrewTypes, CrewAssumption DEF CInv
<1>1. /\ A[0] = [people |-> crew, failed |-> FALSE]
      /\ \A u \in 0..LoginCount : A[u] \in Repairing
      /\ \A u \in Logins : A[u] = RepairStep(evidence, u, A[u - 1])
  BY <1>0, RepairsRun
<1> HIDE DEF A
<1>2. 0 \in S
  BY <1>0, <1>1 DEF Untroubled
<1>3. ASSUME NEW u \in Logins, u - 1 \in S PROVE u \in S
  <2>1. /\ u \in 0..LoginCount /\ u \in Nat /\ A[u - 1] \in Repairing
        /\ A[u] = RepairStep(evidence, u, A[u - 1])
        /\ ~A[u - 1].failed /\ Untroubled(evidence, u - 1, A[u - 1].people)
    BY <1>0, <1>1, <1>3 DEF Logins
  <2>2. CASE u \notin Repairs(evidence)
    <3>1. A[u] = A[u - 1]
      BY <2>1, <2>2 DEF RepairStep
    <3>2. \A v \in Repairs(evidence) : v \in Nat /\ (v <= u - 1 => v <= u) /\ (v > u => v > u - 1)
      BY <2>1, Proven DEF Logins
    <3>3. Untroubled(evidence, u, A[u - 1].people)
      BY <2>1, <3>2 DEF Untroubled
    <3> QED BY <2>1, <3>1, <3>3
  <2>3. CASE u \in Repairs(evidence)
    <3>1. PICK e \in Employees : /\ evidence[u] = {e} /\ (CHOOSE x \in evidence[u] : TRUE) = e
                                 /\ crew[e].login \in {NoLogin, u}
      BY <2>3, Proven
    <3>2. RepairStep(evidence, u, A[u - 1]) =
            [people |-> Repaired(A[u - 1].people, u, e), failed |-> RepairFails(A[u - 1].people, u, e)]
      BY <2>1, <2>3, <3>1 DEF RepairStep
    <3>3. A[u - 1].people \in People
      BY <2>1 DEF Repairing
    <3>4. /\ ~RepairFails(A[u - 1].people, u, e)
          /\ Untroubled(evidence, u, Repaired(A[u - 1].people, u, e))
      BY <2>1, <2>3, <3>1, <3>3, RepairSucceeds
    <3> QED BY <2>1, <3>2, <3>4
  <2> QED BY <2>2, <2>3
<1>4. \A u \in 0..LoginCount : u \in S
  <2> HIDE DEF S
  <2> QED BY <1>2, <1>3, LoginInduction
<1>5. 0 \in 0..LoginCount /\ LoginCount \in 0..LoginCount
  BY <1>0
<1>6. AfterRepairs(evidence) \in {A[0], A[LoginCount]}
  BY AfterRepairsIs DEF A
<1> QED BY <1>4, <1>5, <1>6

-----------------------------------------------------------------------------
(* Merges last                                                              *)

\* A step that adds redirects at most.
Adds == \A p \in Persons : crew[p].into # "nobody" => crew'[p].into = crew[p].into

\* An edit redirects its duplicate, and that one only.
LEMMA EditAdds ==
    ASSUME CInv, EditWrites, ~Overtaken
    PROVE  Adds
<1> DEFINE s == edit.source
           t == edit.target
           u == edit.login
<1>0. crew \in People /\ crew' = Edited /\ edit.op \in {"merge", "transfer", "save"}
      /\ t \in Persons
  BY CrewTypes DEF CInv, Edits, EditInv, EditWrites
<1>1. CASE edit.op = "merge"
  <2>1. crew[s].into = "nobody" /\ crew' = MergedInto(crew, s, t, u)
    BY <1>0, <1>1 DEF Overtaken, Edited
  <2> HIDE DEF s, t, u
  <2>2. \A p \in Persons : p # s => crew'[p].into = crew[p].into
    BY <1>0, <2>1 DEF MergedInto, People
  <2> QED BY <2>1, <2>2 DEF Adds
<1>2. CASE edit.op = "transfer"
  <2>1. crew' = [p \in Persons |-> IF p = t THEN [crew[p] EXCEPT !.login = u]
                                   ELSE IF crew[p].login = u THEN [crew[p] EXCEPT !.login = NoLogin]
                                   ELSE crew[p]]
    BY <1>0, <1>2 DEF Edited
  <2> QED BY <1>0, <2>1 DEF Adds, People
<1>3. CASE edit.op = "save"
  <2>1. crew' = [crew EXCEPT ![t].login = u, ![t].live = edit.live]
    BY <1>0, <1>3 DEF Edited
  <2> QED BY <1>0, <2>1 DEF Adds, People
<1> QED BY <1>0, <1>1, <1>2, <1>3

\* So does a reconciliation: it merges people nobody had merged.
LEMMA RepairAdds ==
    ASSUME CInv, Reconciles \/ \E u \in Logins : CaptureProves(u)
    PROVE  Adds
<1>1. ASSUME NEW evidence \in [Logins -> SUBSET Employees], crew' = AfterRepairs(evidence).people
      PROVE  Adds
  <2>1. Kept(AfterRepairs(evidence).people)
    BY RepairsKeep DEF CInv
  <2> QED BY <1>1, <2>1 DEF Adds, Kept
<1>2. proof \in [Logins -> SUBSET Employees]
  BY CrewTypes DEF CInv
<1>3. CASE Reconciles
  BY <1>1, <1>2, <1>3 DEF Reconciles
<1>4. ASSUME NEW u \in Logins, CaptureProves(u) PROVE Adds
  <2>1. PICK found \in SUBSET Employees \ {{}} :
          crew' = AfterRepairs([proof EXCEPT ![u] = found]).people
    BY <1>4 DEF CaptureProves
  <2>2. [proof EXCEPT ![u] = found] \in [Logins -> SUBSET Employees]
    BY <1>2
  <2> QED BY <1>1, <2>1, <2>2
<1> QED BY <1>3, <1>4

LEMMA NextAdds ==
    ASSUME CInv, [CrewNext]_crewVars, ~(Overtaken /\ edit' # edit)
    PROVE  Adds
<1>0. crew \in People
  BY CrewTypes DEF CInv
<1>1. CASE UNCHANGED crew
  BY <1>1 DEF Adds
<1>2. CASE EditWrites
  <2>1. edit' # edit
    BY <1>2 DEF EditWrites, NoEdit
  <2> QED BY <1>2, <2>1, EditAdds
<1>3. ASSUME NEW u \in Logins, AccountActivated(u) PROVE Adds
  BY <1>0, <1>3 DEF AccountActivated, Adds, People
<1>4. ASSUME NEW u \in Logins, LoginPurged(u) PROVE Adds
  BY <1>0, <1>4 DEF LoginPurged, Adds, People
<1>5. MergeReads \/ TransferReads \/ PersonReads \/ EditLost => UNCHANGED crew
  BY DEF MergeReads, TransferReads, PersonReads, EditLost
<1>6. \A u \in Logins : ProofCancelled(u) \/ ActivityChanges(u) => UNCHANGED crew
  BY DEF ProofCancelled, ActivityChanges
<1>7. \A d \in Days : Publishes(d) => UNCHANGED crew
  BY DEF Publishes
<1> QED BY <1>1, <1>2, <1>3, <1>4, <1>5, <1>6, <1>7, RepairAdds DEF CrewNext, crewVars

-----------------------------------------------------------------------------
(* Theorems                                                                 *)

\* The inductive invariant: well-typed tables with unique accounts, redirects
\* that do not go round nor leave an employee, and no account on a person
\* merged before unless an edit put it there.
THEOREM CrewInductive == CrewSpec => []CInv
BY InitCInv, NextCInv, PTL DEF CrewSpec

\* The tables stay well typed and every account belongs to at most one person,
\* an existing one, whatever the loop read before it writes and in whatever
\* order captures, merges, invitations and purges commit.
THEOREM CrewTypeCorrect == CrewSpec => []CrewTypeOK
<1>1. CInv => CrewTypeOK
  BY DEF CInv
<1> QED BY <1>1, CrewInductive, PTL

\* _canonical_person_id_conn finds a person for every redirect: merges written
\* from what was read before another merge make no cycle.
THEOREM EveryRedirectEnds == CrewSpec => []RedirectsEnd
<1>1. CInv => RedirectsEnd
  <2> SUFFICES ASSUME CInv, NEW p \in Persons PROVE Canonical(crew, p) # "nobody"
    BY DEF RedirectsEnd
  <2>1. crew \in People /\ Ranked(crew)
    BY CrewTypes DEF CInv, Sound
  <2> QED BY <2>1, PeopleClosed, CanonicalEnds
<1> QED BY <1>1, CrewInductive, PTL

\* What published assignments show, after every transaction that rebuilds it,
\* is what the redirects and the accounts say; only activations and changes of
\* an account's activity wait for the next rebuild.
THEOREM VisibilityIsCurrent == CrewSpec => []VisibilityCurrent
<1>1. CrewInit => VisibilityCurrent
  BY DEF CrewInit, VisibilityCurrent, Visible
<1>2. CInv /\ VisibilityCurrent /\ [CrewNext]_crewVars => VisibilityCurrent'
  BY NextVisible
<1> QED BY <1>1, <1>2, CrewInductive, PTL DEF CrewSpec

\* _reconcile_authenticated_identities_conn raises on no evidence of any
\* capture, whatever merges, transfers and saves came before, unless one of them
\* wrote to a person merged since it was read, or two active accounts prove to
\* be the same employee.
THEOREM ReconciliationSucceeds == CrewSpec => []ReconciliationRuns
<1>1. CInv => ReconciliationRuns
  <2> SUFFICES ASSUME CInv, NEW evidence \in [Logins -> SUBSET Employees], AfterRepairs(evidence).failed,
                      ~astray, Apart(evidence)
               PROVE  FALSE
    BY DEF ReconciliationRuns, Apart
  <2> QED BY RepairsSucceed
<1> QED BY <1>1, CrewInductive, PTL

\* A duplicate that _merge_crew_people_conn retired is never told apart again
\* from the person it was merged into, over chains of merges and repairs of
\* several accounts in one reconciliation; the exception is a merge that an
\* Admin's request read before another transaction merged its duplicate.
THEOREM DuplicatesStayMerged == CrewSpec => MergesLast
<1>1. CInv /\ CInv' /\ [CrewNext]_crewVars =>
        (~(Overtaken /\ edit' # edit) =>
           \A p \in Persons : Canonical(crew', p) = Canonical(crew', Canonical(crew, p)))
  <2> SUFFICES ASSUME CInv, CInv', [CrewNext]_crewVars, ~(Overtaken /\ edit' # edit), NEW p \in Persons
               PROVE  Canonical(crew', p) = Canonical(crew', Canonical(crew, p))
    OBVIOUS
  <2>1. Adds
    BY NextAdds
  <2>2. crew \in People /\ Ranked(crew)
    BY CrewTypes DEF CInv, Sound
  <2>3. crew' \in People /\ Ranked(crew')
    BY DEF CInv, CrewTypeOK, People, Sound, Ranked
  <2> QED BY <2>1, <2>2, <2>3, PeopleClosed, CanonicalGoesOn DEF Adds
<1> QED BY <1>1, CrewInductive, PTL DEF CrewSpec, MergesLast

=============================================================================
