----------------------- MODULE DisposableStacks_proofs -----------------------
(***************************************************************************)
(* Proofs about DisposableStacks: every resource has one owner, a disposal *)
(* goes through what it found in reverse, and every failure is reported.   *)
(*                                                                         *)
(* The argument.  A resource is in one sequence: the items of one stack or *)
(* what one disposal found (Single, Complete).  What a disposal found is   *)
(* what it has left followed by what it called, reversed (Loops), and it   *)
(* is in the order of acceptance (Sorted), so a called resource is above   *)
(* all that are left and below all called before.  The errors follow: the  *)
(* latest disposer has not failed yet while its disposal is open           *)
(* (FailedCalled), so its error is new and smaller than the others.        *)
(***************************************************************************)
EXTENDS DisposableStacks, SequenceTheorems, FiniteSetTheorems, TLAPS

Has(q, r) == \E i \in DOMAIN q : q[i] = r

\* A stack that is not constructed yet holds nothing.
Unmade == \A s \in Stack : s > made => items[s] = <<>> /\ status[s] = "Pending"

\* Resources are held, and found by a disposal, in the order of acceptance.
Sorted == \A s \in Stack : Ascending(items[s]) /\ Ascending(taken[s])

\* No two sequences share a resource.
Single ==
    \A s, t \in Stack : \A r \in Resource :
        /\ Has(items[s], r) => ~ Has(taken[t], r)
        /\ Has(items[s], r) /\ Has(items[t], r) => s = t
        /\ Has(taken[s], r) /\ Has(taken[t], r) => s = t

\* Only accepted resources are anywhere.
Existing ==
    \A s \in Stack : \A r \in Resource :
        Has(items[s], r) \/ Has(taken[s], r) => r <= accepted

\* Every accepted resource is somewhere.
Complete ==
    \A r \in 1 .. accepted : \E s \in Made : Has(items[s], r) \/ Has(taken[s], r)

Ownership == Unmade /\ Sorted /\ Single /\ Existing /\ Complete

Open(s) == loop[s] \in {"running", "awaiting"}

\* Where a disposal is, and what it has gone through.
Loops ==
    \A s \in Stack :
        /\ taken[s] = left[s] \o Reverse(called[s])
        /\ loop[s] = "none" =>
              /\ taken[s] = <<>>
              /\ errors[s] = <<>>
              /\ completion[s] = <<>>
        /\ loop[s] = "done" => left[s] = <<>>
        /\ Open(s) => called[s] # <<>>

\* A frame is of a stack that exists, and a disposal has one frame at most.
Nested ==
    \A i \in DOMAIN frames :
        /\ frames[i].stack \in Made
        /\ frames[i].what = "disposer" =>
              /\ loop[frames[i].stack] = "running"
              /\ \A j \in DOMAIN frames : frames[j] = frames[i] => j = i

\* A resource that failed was called, and is not the one being disposed of.
FailedCalled ==
    \A r \in failed : \E s \in Made :
        Has(called[s], r) /\ (Open(s) => r # Latest(s))

\* The errors of a disposal so far, latest first.
Report(s) == IF kind[s] = "sync" /\ loop[s] # "done" THEN Reverse(errors[s])
                                                     ELSE completion[s]

Reported ==
    \A s \in Stack :
        /\ Ascending(Report(s))
        /\ \A r \in Resource :
              Has(Report(s), r) <=> Has(called[s], r) /\ r \in failed

IInv == TypeOK /\ Ownership /\ Loops /\ Nested /\ FailedCalled /\ Reported

-----------------------------------------------------------------------------
(* Sequences of resources.                                                 *)

\* What Append does, element by element.
LEMMA Appended ==
    ASSUME NEW S, NEW q \in Seq(S), NEW e \in S
    PROVE  /\ Append(q, e) \in Seq(S)
           /\ Append(q, e) # <<>>
           /\ Len(Append(q, e)) = Len(q) + 1
           /\ Append(q, e)[Len(q) + 1] = e
           /\ \A i \in 1 .. Len(q) : Append(q, e)[i] = q[i]
           /\ DOMAIN Append(q, e) = 1 .. Len(q) + 1
           /\ Len(q) \in Nat
           /\ DOMAIN q = 1 .. Len(q)
  BY SMT

\* Appending adds the new element and nothing else.
LEMMA HasAppend ==
    ASSUME NEW S, NEW q \in Seq(S), NEW e \in S, NEW r
    PROVE  Has(Append(q, e), r) <=> Has(q, r) \/ r = e
<1> DEFINE a == Append(q, e)
<1>1. /\ Len(a) = Len(q) + 1 /\ a[Len(q) + 1] = e
      /\ \A i \in 1 .. Len(q) : a[i] = q[i]
      /\ DOMAIN a = 1 .. Len(q) + 1 /\ Len(q) \in Nat /\ DOMAIN q = 1 .. Len(q)
  BY Appended
<1> HIDE DEF a
<1>2. Has(a, r) <=> Has(q, r) \/ r = e
  BY <1>1, SMT DEF Has
<1> QED BY <1>2 DEF a

\* What Reverse does, element by element.
LEMMA Reversed ==
    ASSUME NEW S, NEW q \in Seq(S)
    PROVE  /\ Reverse(q) \in Seq(S)
           /\ Len(Reverse(q)) = Len(q)
           /\ DOMAIN Reverse(q) = 1 .. Len(q)
           /\ DOMAIN q = 1 .. Len(q)
           /\ Len(q) \in Nat
           /\ \A i \in 1 .. Len(q) : Reverse(q)[i] = q[(Len(q) - i) + 1]
<1>1. Len(q) \in Nat /\ DOMAIN q = 1 .. Len(q) /\ \A i \in 1 .. Len(q) : q[i] \in S
  BY SMT
<1>2. \A i \in 1 .. Len(q) : (Len(q) - i) + 1 \in 1 .. Len(q)
  BY <1>1, SMT
<1>3. Reverse(q) \in [1 .. Len(q) -> S]
  BY <1>1, <1>2 DEF Reverse
<1>4. Reverse(q) \in Seq(S) /\ Len(Reverse(q)) = Len(q)
  BY <1>1, <1>3, SMT
<1> QED BY <1>1, <1>3, <1>4 DEF Reverse

\* Reversing keeps the elements.
LEMMA HasReverse ==
    ASSUME NEW S, NEW q \in Seq(S), NEW r
    PROVE  Has(Reverse(q), r) <=> Has(q, r)
<1> DEFINE v == Reverse(q)
<1>1. /\ DOMAIN v = 1 .. Len(q) /\ DOMAIN q = 1 .. Len(q) /\ Len(q) \in Nat
      /\ \A i \in 1 .. Len(q) : v[i] = q[(Len(q) - i) + 1]
  BY Reversed
<1> HIDE DEF v
<1>2. ASSUME NEW i \in DOMAIN q, q[i] = r PROVE Has(v, r)
  <2>1. (Len(q) - i) + 1 \in 1 .. Len(q) /\ (Len(q) - ((Len(q) - i) + 1)) + 1 = i
    BY <1>1, SMT
  <2>2. v[(Len(q) - i) + 1] = r
    BY <1>1, <1>2, <2>1
  <2> QED BY <1>1, <2>1, <2>2 DEF Has
<1>3. ASSUME NEW i \in DOMAIN v, v[i] = r PROVE Has(q, r)
  <2>1. (Len(q) - i) + 1 \in DOMAIN q
    BY <1>1, SMT
  <2> QED BY <1>1, <1>3, <2>1 DEF Has
<1> QED BY <1>2, <1>3 DEF Has, v

\* What concatenation does, element by element.
LEMMA Concatenated ==
    ASSUME NEW S, NEW p \in Seq(S), NEW q \in Seq(S)
    PROVE  /\ p \o q \in Seq(S)
           /\ Len(p \o q) = Len(p) + Len(q)
           /\ DOMAIN (p \o q) = 1 .. Len(p) + Len(q)
           /\ Len(p) \in Nat /\ Len(q) \in Nat
           /\ DOMAIN p = 1 .. Len(p) /\ DOMAIN q = 1 .. Len(q)
           /\ \A i \in 1 .. Len(p) : (p \o q)[i] = p[i]
           /\ \A i \in 1 .. Len(q) : (p \o q)[Len(p) + i] = q[i]
  BY SMT

\* A concatenation has what its parts have.
LEMMA HasConcat ==
    ASSUME NEW S, NEW p \in Seq(S), NEW q \in Seq(S), NEW r
    PROVE  Has(p \o q, r) <=> Has(p, r) \/ Has(q, r)
<1> DEFINE c == p \o q
<1>1. /\ DOMAIN c = 1 .. Len(p) + Len(q)
      /\ Len(p) \in Nat /\ Len(q) \in Nat
      /\ DOMAIN p = 1 .. Len(p) /\ DOMAIN q = 1 .. Len(q)
      /\ \A i \in 1 .. Len(p) : c[i] = p[i]
      /\ \A i \in 1 .. Len(q) : c[Len(p) + i] = q[i]
  BY Concatenated
<1> HIDE DEF c
<1>2. ASSUME NEW i \in DOMAIN c, c[i] = r PROVE Has(p, r) \/ Has(q, r)
  <2>1. CASE i \in 1 .. Len(p)
    BY <1>1, <1>2, <2>1 DEF Has
  <2>2. CASE i \notin 1 .. Len(p)
    <3>1. i - Len(p) \in 1 .. Len(q) /\ Len(p) + (i - Len(p)) = i
      BY <1>1, <2>2, SMT
    <3> QED BY <1>1, <1>2, <3>1 DEF Has
  <2> QED BY <2>1, <2>2
<1>3. ASSUME Has(p, r) PROVE Has(c, r)
  BY <1>1, <1>3, SMT DEF Has
<1>4. ASSUME Has(q, r) PROVE Has(c, r)
  <2>1. PICK i \in 1 .. Len(q) : q[i] = r
    BY <1>1, <1>4 DEF Has
  <2>2. Len(p) + i \in DOMAIN c
    BY <1>1, SMT
  <2> QED BY <1>1, <2>1, <2>2 DEF Has
<1> QED BY <1>2, <1>3, <1>4 DEF Has, c

\* Taking the last of p and adding it to what was called does not change what
\* was found.
LEMMA StepsBack ==
    ASSUME NEW S, NEW p \in Seq(S), NEW c \in Seq(S), p # <<>>
    PROVE  /\ Len(p) \in DOMAIN p
           /\ p[Len(p)] \in S
           /\ RemoveAt(p, Len(p)) \in Seq(S)
           /\ p \o Reverse(c)
                = RemoveAt(p, Len(p)) \o Reverse(Append(c, p[Len(p)]))
<1> DEFINE n == Len(p)
           e == p[n]
           f == SubSeq(p, 1, n - 1)
           a == Append(c, e)
           v == Reverse(c)
           w == Reverse(a)
<1>1. n \in Nat /\ n > 0 /\ DOMAIN p = 1 .. n /\ \A i \in 1 .. n : p[i] \in S
  BY SMT
<1>2. n \in DOMAIN p /\ e \in S
  BY <1>1, SMT
<1>3. f \in Seq(S) /\ Len(f) = n - 1 /\ \A i \in 1 .. n - 1 : f[i] = p[i]
  BY <1>1, SMT
<1>4. RemoveAt(p, n) = f
  <2>1. SubSeq(p, n + 1, n) = <<>>
    BY <1>1, SMT
  <2>2. f \o <<>> = f
    BY <1>3, SMT
  <2> QED BY <2>1, <2>2 DEF RemoveAt
<1>5. /\ v \in Seq(S) /\ Len(v) = Len(c) /\ Len(c) \in Nat
      /\ \A i \in 1 .. Len(c) : v[i] = c[(Len(c) - i) + 1]
  BY Reversed
<1>6. /\ a \in Seq(S) /\ Len(a) = Len(c) + 1 /\ a[Len(c) + 1] = e
      /\ \A i \in 1 .. Len(c) : a[i] = c[i]
  BY <1>2, Appended
<1> HIDE DEF e, f, a, v, n
<1>7. /\ w \in Seq(S) /\ Len(w) = Len(a)
      /\ \A i \in 1 .. Len(a) : w[i] = a[(Len(a) - i) + 1]
  BY <1>6, Reversed
<1> HIDE DEF w
<1>8. /\ p \o v \in Seq(S) /\ Len(p \o v) = n + Len(c)
      /\ \A i \in 1 .. n : (p \o v)[i] = p[i]
      /\ \A i \in 1 .. Len(c) : (p \o v)[n + i] = v[i]
  <2>1. /\ p \o v \in Seq(S) /\ Len(p \o v) = Len(p) + Len(v)
        /\ \A i \in 1 .. Len(p) : (p \o v)[i] = p[i]
        /\ \A i \in 1 .. Len(v) : (p \o v)[Len(p) + i] = v[i]
    <3>1. v \in Seq(S)
      BY <1>5
    <3> QED BY ONLY p \in Seq(S), <3>1, Concatenated
  <2> QED BY <1>5, <2>1 DEF n
<1>9. /\ f \o w \in Seq(S) /\ Len(f \o w) = (n - 1) + (Len(c) + 1)
      /\ \A i \in 1 .. n - 1 : (f \o w)[i] = f[i]
      /\ \A i \in 1 .. Len(c) + 1 : (f \o w)[(n - 1) + i] = w[i]
  <2>1. /\ f \o w \in Seq(S) /\ Len(f \o w) = Len(f) + Len(w)
        /\ \A i \in 1 .. Len(f) : (f \o w)[i] = f[i]
        /\ \A i \in 1 .. Len(w) : (f \o w)[Len(f) + i] = w[i]
    BY <1>3, <1>7, Concatenated
  <2> QED BY <1>3, <1>6, <1>7, <2>1
<1>10. Len(p \o v) = Len(f \o w)
  BY <1>1, <1>5, <1>8, <1>9, SMT
<1>11. ASSUME NEW i \in 1 .. n + Len(c) PROVE (p \o v)[i] = (f \o w)[i]
  <2>1. CASE i \in 1 .. n - 1
    <3>1. i \in 1 .. n
      BY <1>1, <2>1, SMT
    <3> QED BY <1>3, <1>8, <1>9, <2>1, <3>1
  <2>2. CASE i = n
    <3>1. 1 \in 1 .. Len(c) + 1 /\ (n - 1) + 1 = n /\ 1 \in 1 .. Len(a)
          /\ (Len(a) - 1) + 1 = Len(c) + 1
      BY <1>1, <1>5, <1>6, SMT
    <3>3. (f \o w)[(n - 1) + 1] = w[1]
      BY <1>9, <3>1
    <3>4. w[1] = a[(Len(a) - 1) + 1]
      BY <1>7, <3>1
    <3>2. (f \o w)[n] = w[1] /\ w[1] = a[Len(c) + 1]
      BY <3>1, <3>3, <3>4
    <3> QED BY <1>1, <1>6, <1>8, <2>2, <3>2 DEF e
  <2>3. CASE i \in n + 1 .. n + Len(c)
    <3> DEFINE k == i - n
    <3>1. /\ k \in 1 .. Len(c) /\ n + k = i
          /\ k + 1 \in 1 .. Len(c) + 1 /\ (n - 1) + (k + 1) = i
          /\ k + 1 \in 1 .. Len(a)
          /\ (Len(a) - (k + 1)) + 1 = (Len(c) - k) + 1
          /\ (Len(c) - k) + 1 \in 1 .. Len(c)
      BY <1>1, <1>5, <1>6, <2>3, SMT
    <3> HIDE DEF k
    <3>2. (p \o v)[i] = v[k] /\ v[k] = c[(Len(c) - k) + 1]
      BY <1>5, <1>8, <3>1
    <3>4. (f \o w)[(n - 1) + (k + 1)] = w[k + 1]
      BY <1>9, <3>1
    <3>5. w[k + 1] = a[(Len(a) - (k + 1)) + 1]
      BY <1>7, <3>1
    <3>3. (f \o w)[i] = w[k + 1] /\ w[k + 1] = a[(Len(c) - k) + 1]
      BY <3>1, <3>4, <3>5
    <3> QED BY <1>6, <3>1, <3>2, <3>3
  <2>4. i \in 1 .. n - 1 \/ i = n \/ i \in n + 1 .. n + Len(c)
    BY ONLY <1>1, <1>5, i \in 1 .. n + Len(c), SMT
  <2> QED BY <2>1, <2>2, <2>3, <2>4
<1>12. p \o v = f \o w
  <2>1. n + Len(c) = (n - 1) + (Len(c) + 1)
    BY <1>1, <1>5, SMT
  <2>2. Len(p \o v) = n + Len(c) /\ Len(f \o w) = n + Len(c)
    BY <1>8, <1>9, <2>1
  <2>3. p \o v \in Seq(S) /\ f \o w \in Seq(S)
    BY <1>8, <1>9
  <2> DEFINE x == p \o v
             y == f \o w
  <2>4. x \in Seq(S) /\ y \in Seq(S) /\ Len(x) = Len(y)
        /\ \A i \in 1 .. Len(x) : x[i] = y[i]
    BY <1>11, <2>2, <2>3
  <2> HIDE DEF x, y
  <2>5. x = y
    BY ONLY <2>4, SeqEqual
  <2> QED BY <2>5 DEF x, y
<1> QED BY <1>2, <1>3, <1>4, <1>12 DEF n, e, f, a, v, w

\* A greater element goes behind an ascending sequence.
LEMMA AscendingAppend ==
    ASSUME NEW q \in Seq(Nat), NEW e \in Nat, Ascending(q),
           \A r : Has(q, r) => r < e
    PROVE  Ascending(Append(q, e))
<1> DEFINE a == Append(q, e)
<1>1. /\ a[Len(q) + 1] = e /\ \A i \in 1 .. Len(q) : a[i] = q[i]
      /\ DOMAIN a = 1 .. Len(q) + 1 /\ Len(q) \in Nat /\ DOMAIN q = 1 .. Len(q)
  BY Appended
<1> HIDE DEF a
<1>2. \A i \in 1 .. Len(q) : q[i] < e
  BY <1>1 DEF Has
<1>3. ASSUME NEW i \in DOMAIN a, NEW j \in DOMAIN a, i < j PROVE a[i] < a[j]
  <2>1. i \in 1 .. Len(q) /\ (j \in 1 .. Len(q) \/ j = Len(q) + 1)
    BY <1>1, <1>3, SMT
  <2> QED BY <1>1, <1>2, <1>3, <2>1 DEF Ascending
<1> QED BY <1>3 DEF Ascending, a

\* A smaller element goes before an ascending sequence, and is in it.
LEMMA AscendingSuppressed ==
    ASSUME NEW q \in Seq(Nat), NEW e \in Nat, Ascending(q),
           \A r : Has(q, r) => e < r
    PROVE  Ascending(Suppressed(e, q))
<1> DEFINE a == <<e>> \o q
<1>1. <<e>> \in Seq(Nat) /\ Len(<<e>>) = 1 /\ <<e>>[1] = e
  BY SMT
<1>2. /\ DOMAIN a = 1 .. 1 + Len(q) /\ Len(q) \in Nat /\ DOMAIN q = 1 .. Len(q)
      /\ a[1] = e /\ \A i \in 1 .. Len(q) : a[1 + i] = q[i]
  <2>1. /\ DOMAIN a = 1 .. Len(<<e>>) + Len(q)
        /\ Len(q) \in Nat /\ DOMAIN q = 1 .. Len(q)
        /\ \A i \in 1 .. Len(<<e>>) : a[i] = <<e>>[i]
        /\ \A i \in 1 .. Len(q) : a[Len(<<e>>) + i] = q[i]
    BY <1>1, Concatenated
  <2>2. 1 \in 1 .. 1
    BY SMT
  <2> QED BY <1>1, <2>1, <2>2
<1> HIDE DEF a
<1>3. \A i \in 1 .. Len(q) : e < q[i]
  BY <1>2 DEF Has
<1>4. ASSUME NEW i \in DOMAIN a, NEW j \in DOMAIN a, i < j PROVE a[i] < a[j]
  <2>1. j - 1 \in 1 .. Len(q) /\ 1 + (j - 1) = j
    BY <1>2, <1>4, SMT
  <2>2. a[j] = q[j - 1]
    BY <1>2, <2>1
  <2>3. CASE i = 1
    BY <1>2, <1>3, <2>1, <2>2, <2>3
  <2>4. CASE i # 1
    <3>1. i - 1 \in 1 .. Len(q) /\ 1 + (i - 1) = i /\ i - 1 < j - 1
      BY <1>2, <1>4, <2>4, SMT
    <3>2. a[i] = q[i - 1]
      BY <1>2, <3>1
    <3> QED BY <1>2, <2>1, <2>2, <3>1, <3>2 DEF Ascending
  <2> QED BY <2>3, <2>4
<1> QED BY <1>4 DEF Ascending, Suppressed, a

\* What is in a chain: its first error and the rest.
LEMMA HasSuppressed ==
    ASSUME NEW S, NEW q \in Seq(S), NEW e \in S, NEW r
    PROVE  /\ Suppressed(e, q) \in Seq(S)
           /\ Has(Suppressed(e, q), r) <=> Has(q, r) \/ r = e
<1>1. <<e>> \in Seq(S) /\ DOMAIN <<e>> = {1} /\ <<e>>[1] = e
  BY SMT
<1>2. Has(<<e>>, r) <=> r = e
  BY <1>1 DEF Has
<1>3. <<e>> \o q \in Seq(S) /\ (Has(<<e>> \o q, r) <=> Has(<<e>>, r) \/ Has(q, r))
  BY <1>1, HasConcat, Concatenated
<1> QED BY <1>2, <1>3 DEF Suppressed

\* The reverse of a longer list of errors begins with the new one.
LEMMA ReverseAppend ==
    ASSUME NEW S, NEW q \in Seq(S), NEW e \in S
    PROVE  Reverse(Append(q, e)) = Suppressed(e, Reverse(q))
<1>1. <<e>> \in Seq(S) /\ <<e>> # <<>> /\ Len(<<e>>) = 1 /\ <<e>>[1] = e
  BY SMT
<1>2. /\ <<e>> \o Reverse(q) = RemoveAt(<<e>>, 1) \o Reverse(Append(q, e))
      /\ RemoveAt(<<e>>, 1) \in Seq(S)
  BY <1>1, StepsBack
<1>3. RemoveAt(<<e>>, 1) = <<>>
  BY <1>1, SMT DEF RemoveAt
<1>4. Reverse(Append(q, e)) \in Seq(S)
  BY Appended, Reversed
<1>5. <<>> \o Reverse(Append(q, e)) = Reverse(Append(q, e))
  BY <1>4, SMT
<1> QED BY <1>2, <1>3, <1>5 DEF Suppressed

\* In an ascending sequence p \o Reverse(c), the elements of c descend and
\* are above those of p.
LEMMA FoundInOrder ==
    ASSUME NEW p \in Seq(Nat), NEW c \in Seq(Nat), Ascending(p \o Reverse(c))
    PROVE  /\ \A i, j \in DOMAIN c : i < j => c[i] > c[j]
           /\ \A x, y : Has(p, x) /\ Has(c, y) => x < y
           /\ Ascending(p)
<1> DEFINE v == Reverse(c)
           t == p \o v
<1>1. /\ v \in Seq(Nat) /\ Len(v) = Len(c) /\ Len(c) \in Nat
      /\ DOMAIN c = 1 .. Len(c)
      /\ \A i \in 1 .. Len(c) : v[i] = c[(Len(c) - i) + 1]
  BY Reversed
<1> HIDE DEF v
<1>2. /\ DOMAIN t = 1 .. Len(p) + Len(c) /\ Len(p) \in Nat
      /\ DOMAIN p = 1 .. Len(p)
      /\ \A i \in 1 .. Len(p) : t[i] = p[i]
      /\ \A i \in 1 .. Len(c) : t[Len(p) + i] = v[i]
  <2>1. v \in Seq(Nat)
    BY <1>1
  <2> HIDE DEF t
  <2>2. t = p \o v
    BY DEF t
  <2>3. /\ DOMAIN (p \o v) = 1 .. Len(p) + Len(v) /\ Len(p) \in Nat
        /\ DOMAIN p = 1 .. Len(p)
        /\ \A i \in 1 .. Len(p) : (p \o v)[i] = p[i]
        /\ \A i \in 1 .. Len(v) : (p \o v)[Len(p) + i] = v[i]
    BY ONLY p \in Seq(Nat), <2>1, Concatenated
  <2> QED BY <1>1, <2>2, <2>3
<1>3. \A i, j \in DOMAIN t : i < j => t[i] < t[j]
  BY DEF Ascending, v
<1>4. \A i \in 1 .. Len(p) : p[i] \in Nat
  BY SMT
<1>5. \A i \in 1 .. Len(c) : c[i] \in Nat
  BY <1>1, SMT
<1> HIDE DEF t
<1>6. ASSUME NEW i \in DOMAIN c
      PROVE  /\ Len(p) + ((Len(c) - i) + 1) \in DOMAIN t
             /\ t[Len(p) + ((Len(c) - i) + 1)] = c[i]
  <2>0. i \in 1 .. Len(c) /\ Len(c) \in Nat /\ Len(p) \in Nat
    BY <1>1, <1>2
  <2>1. /\ (Len(c) - i) + 1 \in 1 .. Len(c)
        /\ (Len(c) - ((Len(c) - i) + 1)) + 1 = i
        /\ Len(p) + ((Len(c) - i) + 1) \in 1 .. Len(p) + Len(c)
    BY ONLY <2>0, SMT
  <2> QED BY <1>1, <1>2, <2>1
<1>7. ASSUME NEW i \in DOMAIN c, NEW j \in DOMAIN c, i < j PROVE c[i] > c[j]
  <2>1. Len(p) + ((Len(c) - j) + 1) < Len(p) + ((Len(c) - i) + 1)
    BY <1>1, <1>2, <1>7, SMT
  <2>2. c[j] < c[i]
    BY <1>3, <1>6, <2>1
  <2> QED BY <1>1, <1>5, <2>2, SMT
<1>8. ASSUME NEW x, NEW y, Has(p, x), Has(c, y) PROVE x < y
  <2>1. PICK i \in DOMAIN p : p[i] = x
    BY <1>8 DEF Has
  <2>2. PICK j \in DOMAIN c : c[j] = y
    BY <1>8 DEF Has
  <2>0. /\ i \in 1 .. Len(p) /\ j \in 1 .. Len(c)
        /\ Len(c) \in Nat /\ Len(p) \in Nat
    BY <1>1, <1>2
  <2>3. i \in DOMAIN t /\ i < Len(p) + ((Len(c) - j) + 1) /\ t[i] = x
    <3>1. i \in 1 .. Len(p) + Len(c) /\ i < Len(p) + ((Len(c) - j) + 1)
      BY ONLY <2>0, SMT
    <3> QED BY <1>2, <2>0, <2>1, <3>1
  <2> QED BY <1>3, <1>6, <2>2, <2>3
<1>9. ASSUME NEW i \in DOMAIN p, NEW j \in DOMAIN p, i < j PROVE p[i] < p[j]
  <2>1. i \in DOMAIN t /\ j \in DOMAIN t
    BY <1>1, <1>2, SMT
  <2> QED BY <1>2, <1>3, <1>9, <2>1
<1> QED BY <1>7, <1>8, <1>9 DEF Ascending

-----------------------------------------------------------------------------
(* The steps of a disposal.                                                *)

\* What Proceed does to the disposals: that of s takes the last of the rest
\* or ends, the others are left alone.
Goes(s, rest, errs, chain, below) ==
    /\ left' \in [Stack -> Seq(Resource)]
    /\ called' \in [Stack -> Seq(Resource)]
    /\ errors' \in [Stack -> Seq(Resource)]
    /\ completion' \in [Stack -> Seq(Resource)]
    /\ loop' \in [Stack -> {"none", "running", "awaiting", "done"}]
    /\ \A t \in Stack : t # s => /\ left'[t] = left[t]
                                 /\ called'[t] = called[t]
                                 /\ errors'[t] = errors[t]
                                 /\ completion'[t] = completion[t]
                                 /\ loop'[t] = loop[t]
    /\ errors'[s] = errs
    /\ \/ /\ rest # <<>>
          /\ left'[s] = RemoveAt(rest, Len(rest))
          /\ called'[s] = Append(called[s], rest[Len(rest)])
          /\ completion'[s] = chain
          /\ \/ /\ loop'[s] = "awaiting"
                /\ frames' = below
             \/ /\ loop'[s] = "running"
                /\ frames' = Append(below, [what |-> "disposer", stack |-> s])
       \/ /\ rest = <<>>
          /\ left'[s] = <<>>
          /\ called'[s] = called[s]
          /\ completion'[s] = IF kind[s] = "sync" THEN Reverse(errs) ELSE chain
          /\ loop'[s] = "done"
          /\ frames' = below

\* Proceed keeps the types and does what Goes says.
LEMMA ProceedGoes ==
    ASSUME TypeOK, NEW s \in Stack, NEW rest \in Seq(Resource),
           NEW errs \in Seq(Resource), NEW chain \in Seq(Resource), NEW below,
           Proceed(s, rest, errs, chain, below)
    PROVE  Goes(s, rest, errs, chain, below)
<1>1. /\ left \in [Stack -> Seq(Resource)]
      /\ called \in [Stack -> Seq(Resource)]
      /\ errors \in [Stack -> Seq(Resource)]
      /\ completion \in [Stack -> Seq(Resource)]
      /\ loop \in [Stack -> {"none", "running", "awaiting", "done"}]
  BY DEF TypeOK
<1>2. CASE rest # <<>>
  <2> DEFINE r == rest[Len(rest)]
  <2>1. r \in Resource /\ RemoveAt(rest, Len(rest)) \in Seq(Resource)
    <3>1. called[s] \in Seq(Resource)
      BY <1>1
    <3> QED BY <1>2, <3>1, StepsBack
  <2>2. Append(called[s], r) \in Seq(Resource)
    BY <1>1, <2>1, Appended
  <2>3. /\ left' = [left EXCEPT ![s] = RemoveAt(rest, Len(rest))]
        /\ called' = [called EXCEPT ![s] = Append(called[s], r)]
        /\ errors' = [errors EXCEPT ![s] = errs]
        /\ completion' = [completion EXCEPT ![s] = chain]
        /\ \/ /\ loop' = [loop EXCEPT ![s] = "awaiting"]
              /\ frames' = below
           \/ /\ loop' = [loop EXCEPT ![s] = "running"]
              /\ frames' = Append(below, [what |-> "disposer", stack |-> s])
    BY <1>2 DEF Proceed, Popped
  <2> HIDE DEF r
  <2>4. /\ left' \in [Stack -> Seq(Resource)]
        /\ called' \in [Stack -> Seq(Resource)]
        /\ errors' \in [Stack -> Seq(Resource)]
        /\ completion' \in [Stack -> Seq(Resource)]
        /\ loop' \in [Stack -> {"none", "running", "awaiting", "done"}]
    BY <1>1, <2>1, <2>2, <2>3
  <2>5. \A t \in Stack : t # s => /\ left'[t] = left[t]
                                  /\ called'[t] = called[t]
                                  /\ errors'[t] = errors[t]
                                  /\ completion'[t] = completion[t]
                                  /\ loop'[t] = loop[t]
    BY <1>1, <2>3
  <2>6. /\ left'[s] = RemoveAt(rest, Len(rest))
        /\ called'[s] = Append(called[s], r)
        /\ errors'[s] = errs
        /\ completion'[s] = chain
        /\ \/ loop'[s] = "awaiting" /\ frames' = below
           \/ /\ loop'[s] = "running"
              /\ frames' = Append(below, [what |-> "disposer", stack |-> s])
    BY <1>1, <2>3
  <2> QED BY <1>2, <2>4, <2>5, <2>6 DEF Goes, r
<1>3. CASE rest = <<>>
  <2> DEFINE e == IF kind[s] = "sync" THEN Reverse(errs) ELSE chain
  <2>1. e \in Seq(Resource)
    BY Reversed
  <2>2. /\ left' = [left EXCEPT ![s] = <<>>]
        /\ called' = called
        /\ errors' = [errors EXCEPT ![s] = errs]
        /\ completion' = [completion EXCEPT ![s] = e]
        /\ loop' = [loop EXCEPT ![s] = "done"]
        /\ frames' = below
    BY <1>3 DEF Proceed, Folded
  <2> HIDE DEF e
  <2>3. <<>> \in Seq(Resource)
    BY SMT
  <2>4. /\ left' \in [Stack -> Seq(Resource)]
        /\ called' \in [Stack -> Seq(Resource)]
        /\ errors' \in [Stack -> Seq(Resource)]
        /\ completion' \in [Stack -> Seq(Resource)]
        /\ loop' \in [Stack -> {"none", "running", "awaiting", "done"}]
    BY <1>1, <2>1, <2>2, <2>3
  <2>5. \A t \in Stack : t # s => /\ left'[t] = left[t]
                                  /\ called'[t] = called[t]
                                  /\ errors'[t] = errors[t]
                                  /\ completion'[t] = completion[t]
                                  /\ loop'[t] = loop[t]
    BY <1>1, <2>2
  <2>6. /\ left'[s] = <<>> /\ called'[s] = called[s]
        /\ errors'[s] = errs /\ completion'[s] = e
        /\ loop'[s] = "done" /\ frames' = below
    BY <1>1, <2>2
  <2> QED BY <1>3, <2>4, <2>5, <2>6 DEF Goes, e
<1> QED BY <1>2, <1>3

\* What the disposal of s would report with these errors.
Collects(s, errs, chain) == IF kind[s] = "sync" THEN Reverse(errs) ELSE chain

\* A step of the disposal of s: what is left and what is called make up what
\* was found, and the report grows by the latest disposer or not at all.
Advances(s, rest, errs, chain, below) ==
    /\ Goes(s, rest, errs, chain, below)
    /\ rest \in Seq(Resource)
    /\ errs \in Seq(Resource)
    /\ chain \in Seq(Resource)
    /\ below \in Seq(Frame)
    /\ \A i \in DOMAIN below :
          /\ i \in DOMAIN frames
          /\ below[i] = frames[i]
          /\ below[i] # [what |-> "disposer", stack |-> s]
    /\ loop[s] # "done"
    /\ taken' \in [Stack -> Seq(Resource)]
    /\ taken'[s] = rest \o Reverse(called[s])
    /\ \A t \in Stack : t # s => taken'[t] = taken[t]
    /\ made' = made
    /\ kind' = kind
    /\ \/ /\ failed' = failed
          /\ Collects(s, errs, chain) = Report(s)
       \/ /\ Open(s)
          /\ failed' = failed \cup {Latest(s)}
          /\ Collects(s, errs, chain) = Suppressed(Latest(s), Report(s))

\* An awaited disposer has returned: the disposal is open as before.
Suspends(s) ==
    /\ On("disposer", s)
    /\ loop' = [loop EXCEPT ![s] = "awaiting"]
    /\ frames' = Front(frames)
    /\ UNCHANGED <<left, called, errors, completion, contents, taken, failed>>

\* What Front keeps of a stack of frames.
LEMMA Fronted ==
    ASSUME NEW S, NEW q \in Seq(S), q # <<>>
    PROVE  /\ Front(q) \in Seq(S)
           /\ Len(q) \in DOMAIN q
           /\ \A i \in DOMAIN Front(q) :
                 i \in DOMAIN q /\ i # Len(q) /\ Front(q)[i] = q[i]
<1> DEFINE n == Len(q)
<1>1. n \in Nat /\ n > 0 /\ DOMAIN q = 1 .. n
  BY SMT
<1> HIDE DEF n
<1>2. n - 1 \in Nat /\ \A i \in 1 .. n - 1 : i \in 1 .. n /\ i # n
  BY <1>1, SMT
<1>3. n \in 1 .. n
  BY <1>1, SMT
<1>4. /\ Front(q) \in Seq(S)
      /\ DOMAIN Front(q) = 1 .. n - 1
      /\ \A i \in 1 .. n - 1 : Front(q)[i] = q[i]
  <2>1. \A i \in 1 .. n - 1 : q[i] \in S
    BY <1>1, <1>2, SMT
  <2>2. SubSeq(q, 1, n - 1) = [i \in 1 .. n - 1 |-> q[i]]
    BY <1>1, <1>2, SMT
  <2>3. [i \in 1 .. n - 1 |-> q[i]] \in Seq(S)
    BY <1>2, <2>1, SMT
  <2> QED BY <2>2, <2>3 DEF Front, n
<1> QED BY <1>1, <1>2, <1>3, <1>4 DEF n

\* The last call of a disposal.
LEMMA LatestCalled ==
    ASSUME NEW c \in Seq(Resource), c # <<>>
    PROVE  Len(c) \in DOMAIN c /\ c[Len(c)] \in Resource
  BY SMT

\* The frames a disposal of s may be called from.
Clean(s, below) ==
    /\ below \in Seq(Frame)
    /\ \A i \in DOMAIN below : /\ i \in DOMAIN frames
                               /\ below[i] = frames[i]
                               /\ below[i] # [what |-> "disposer", stack |-> s]

\* A disposer on top of the stack is of a running disposal, and the frames
\* below it hold no other of the same one.
LEMMA DisposerOnTop ==
    ASSUME IInv, NEW s \in Stack, On("disposer", s)
    PROVE  Open(s) /\ Clean(s, Front(frames))
<1> DEFINE d == [what |-> "disposer", stack |-> s]
<1>1. frames \in Seq(Frame) /\ frames # <<>> /\ frames[Len(frames)] = d
  BY DEF IInv, TypeOK, On, Top
<1>2. /\ Front(frames) \in Seq(Frame)
      /\ Len(frames) \in DOMAIN frames
      /\ \A i \in DOMAIN Front(frames) :
            i \in DOMAIN frames /\ i # Len(frames) /\ Front(frames)[i] = frames[i]
  BY <1>1, Fronted
<1>3. d.what = "disposer" /\ d.stack = s
  OBVIOUS
<1>4. loop[s] = "running"
      /\ \A j \in DOMAIN frames : frames[j] = d => j = Len(frames)
  <2>1. frames[Len(frames)].what = "disposer" /\ frames[Len(frames)].stack = s
    BY <1>1, <1>3
  <2> QED BY <1>1, <1>2, <2>1 DEF IInv, Nested
<1> HIDE DEF d
<1>5. \A i \in DOMAIN Front(frames) : Front(frames)[i] # d
  BY <1>2, <1>4
<1> QED BY <1>2, <1>4, <1>5 DEF Open, Clean, d

\* The frames of a disposal that is not running hold no disposer of it.
LEMMA NoDisposer ==
    ASSUME IInv, NEW s \in Stack, loop[s] # "running"
    PROVE  Clean(s, frames)
<1> DEFINE d == [what |-> "disposer", stack |-> s]
<1>1. d.what = "disposer" /\ d.stack = s
  OBVIOUS
<1>2. ASSUME NEW i \in DOMAIN frames PROVE frames[i] # d
  BY <1>1 DEF IInv, Nested
<1> QED BY <1>2 DEF Clean, IInv, TypeOK

\* What an open disposal has.
LEMMA OpenHas ==
    ASSUME IInv, NEW s \in Stack, Open(s)
    PROVE  /\ left[s] \in Seq(Resource)
           /\ called[s] \in Seq(Resource)
           /\ errors[s] \in Seq(Resource)
           /\ completion[s] \in Seq(Resource)
           /\ called[s] # <<>>
           /\ Latest(s) \in Resource
           /\ Has(called[s], Latest(s))
           /\ taken \in [Stack -> Seq(Resource)]
           /\ taken[s] = left[s] \o Reverse(called[s])
           /\ loop[s] # "done"
           /\ Report(s) = Collects(s, errors[s], completion[s])
<1>1. /\ left[s] \in Seq(Resource) /\ called[s] \in Seq(Resource)
      /\ errors[s] \in Seq(Resource) /\ completion[s] \in Seq(Resource)
      /\ taken \in [Stack -> Seq(Resource)]
  BY DEF IInv, TypeOK
<1>2. called[s] # <<>> /\ taken[s] = left[s] \o Reverse(called[s])
  BY DEF IInv, Loops
<1>3. Len(called[s]) \in DOMAIN called[s] /\ called[s][Len(called[s])] \in Resource
  BY <1>1, <1>2, LatestCalled
<1>4. loop[s] # "done"
  BY DEF Open
<1> QED BY <1>1, <1>2, <1>3, <1>4 DEF Latest, Last, Has, Report, Collects

\* An open disposal goes on after a disposer that did not fail.
LEMMA GoesOn ==
    ASSUME IInv, NEW s \in Stack, NEW below, Open(s), Clean(s, below),
           Proceed(s, left[s], errors[s], completion[s], below),
           UNCHANGED <<made, kind, taken, failed>>
    PROVE  Advances(s, left[s], errors[s], completion[s], below)
<1>1. Goes(s, left[s], errors[s], completion[s], below)
  BY OpenHas, ProceedGoes DEF IInv
<1> QED BY <1>1, OpenHas DEF Advances, Clean

\* An open disposal goes on after a disposer that failed.
LEMMA GoesOnFailing ==
    ASSUME IInv, NEW s \in Stack, NEW below, Open(s), Clean(s, below),
           Fails(s, below), UNCHANGED <<made, kind, taken>>
    PROVE  \E errs, chain : Advances(s, left[s], errs, chain, below)
<1> DEFINE x == Latest(s)
<1>1. /\ left[s] \in Seq(Resource) /\ errors[s] \in Seq(Resource)
      /\ completion[s] \in Seq(Resource) /\ x \in Resource
  BY OpenHas
<1> HIDE DEF x
<1>2. failed' = failed \cup {x}
  BY DEF Fails, x
<1>3. CASE kind[s] = "sync"
  <2> DEFINE e == Append(errors[s], x)
  <2>1. Proceed(s, left[s], e, completion[s], below)
    BY <1>3 DEF Fails, x
  <2>2. e \in Seq(Resource) /\ Reverse(e) = Suppressed(x, Reverse(errors[s]))
    BY <1>1, Appended, ReverseAppend
  <2> HIDE DEF e
  <2>3. Goes(s, left[s], e, completion[s], below)
    BY <1>1, <2>1, <2>2, ProceedGoes DEF IInv
  <2>4. Collects(s, e, completion[s]) = Suppressed(x, Report(s))
    BY <1>3, <2>2, OpenHas DEF Collects
  <2>5. Advances(s, left[s], e, completion[s], below)
    BY <1>1, <1>2, <2>2, <2>3, <2>4, OpenHas DEF Advances, Clean, x
  <2> QED BY <2>5
<1>4. CASE kind[s] # "sync"
  <2> DEFINE c == Suppressed(x, completion[s])
  <2>1. Proceed(s, left[s], errors[s], c, below)
    BY <1>4 DEF Fails, x
  <2>2. c \in Seq(Resource)
    BY <1>1, HasSuppressed
  <2>3. Collects(s, errors[s], c) = Suppressed(x, Report(s))
    BY <1>4, OpenHas DEF Collects
  <2> HIDE DEF c
  <2>4. Goes(s, left[s], errors[s], c, below)
    BY <1>1, <2>1, <2>2, ProceedGoes DEF IInv
  <2>5. Advances(s, left[s], errors[s], c, below)
    BY <1>1, <1>2, <2>2, <2>3, <2>4, OpenHas DEF Advances, Clean, x
  <2> QED BY <2>5
<1> QED BY <1>3, <1>4

\* The first step of a disposal: all that was held is left.
LEMMA DisposeAdvances ==
    ASSUME IInv, NEW s \in Stack, Dispose(s)
    PROVE  Advances(s, items[s], <<>>, <<>>, frames)
<1>1. /\ items[s] \in Seq(Resource) /\ <<>> \in Seq(Resource)
      /\ taken \in [Stack -> Seq(Resource)]
      /\ left[s] \in Seq(Resource) /\ called[s] \in Seq(Resource)
  BY SMT DEF IInv, TypeOK
<1>2. loop[s] = "none"
  BY DEF IInv, TypeOK, Dispose, Status
<1>3. Clean(s, frames)
  BY <1>2, NoDisposer
<1>4. /\ taken[s] = <<>> /\ errors[s] = <<>> /\ completion[s] = <<>>
      /\ taken[s] = left[s] \o Reverse(called[s])
  BY <1>2 DEF IInv, Loops
<1>5. called[s] = <<>>
  <2> DEFINE v == Reverse(called[s])
             l == left[s]
  <2>1. v \in Seq(Resource) /\ l \in Seq(Resource) /\ Len(v) = Len(called[s])
    BY <1>1, Reversed
  <2>2. l \o v = <<>>
    BY <1>4
  <2> HIDE DEF v, l
  <2>3. Len(l \o v) = Len(l) + Len(v) /\ Len(l) \in Nat /\ Len(v) \in Nat
    BY ONLY <2>1, Concatenated
  <2>4. Len(v) = 0
    BY <2>2, <2>3, SMT
  <2>5. called[s] \in Seq(Resource) /\ Len(called[s]) = 0
    BY <1>1, <2>1, <2>4
  <2> QED BY ONLY <2>5, EmptySeq
<1>6. Reverse(<<>>) = <<>>
  BY SMT DEF Reverse
<1>7. items[s] \o Reverse(called[s]) = items[s]
  BY <1>1, <1>5, <1>6, SMT
<1>8. taken' = [taken EXCEPT ![s] = items[s]]
      /\ Proceed(s, items[s], <<>>, <<>>, frames)
      /\ made' = made /\ kind' = kind /\ failed' = failed
  BY DEF Dispose
<1>9. Goes(s, items[s], <<>>, <<>>, frames)
  BY <1>1, <1>8, ProceedGoes DEF IInv
<1>10. /\ taken' \in [Stack -> Seq(Resource)]
       /\ taken'[s] = items[s]
       /\ \A t \in Stack : t # s => taken'[t] = taken[t]
  BY <1>1, <1>8
<1>11. Collects(s, <<>>, <<>>) = Report(s)
  BY <1>2, <1>4, <1>6 DEF Collects, Report
<1> QED BY <1>1, <1>2, <1>3, <1>7, <1>8, <1>9, <1>10, <1>11 DEF Advances, Clean

-----------------------------------------------------------------------------
(* Ownership.                                                              *)

\* What OwnershipStep needs to know of a step that accepts a resource.
LEMMA AcceptOwns ==
    ASSUME IInv, NEW s \in Made, NEW f, Accept(s, f)
    PROVE  Ownership'
<1> DEFINE e == accepted + 1
<1>1. /\ s \in Stack /\ made \in Nat /\ made <= MaxStacks /\ accepted \in Nat
      /\ items \in [Stack -> Seq(Resource)] /\ taken \in [Stack -> Seq(Resource)]
  BY BoundsAssumption, SMT DEF IInv, TypeOK, Made, Stack
<1>2. /\ accepted' = e /\ made' = made /\ taken' = taken /\ status' = status
      /\ items' = [items EXCEPT ![s] = Append(items[s], e)]
      /\ e \in Resource
  BY <1>1, BoundsAssumption, SMT DEF Accept, Resource
<1>3. accepted < e /\ \A r \in 1 .. e : r \in 1 .. accepted \/ r = e
  BY <1>1, SMT
<1> HIDE DEF e
<1>4. /\ items'[s] = Append(items[s], e)
      /\ \A t \in Stack : t # s => items'[t] = items[t]
  BY <1>1, <1>2
<1>5. ASSUME NEW r PROVE Has(items'[s], r) <=> Has(items[s], r) \/ r = e
  BY <1>1, <1>2, <1>4, HasAppend
<1>6. \A t \in Stack : ~ Has(items[t], e) /\ ~ Has(taken[t], e)
  <2>1. ~ e <= accepted
    BY <1>1, <1>2, <1>3, SMT DEF Resource
  <2> QED BY <1>2, <2>1 DEF IInv, Ownership, Existing
<1>7. Unmade'
  <2>1. \A t \in Stack : t > made => t # s
    BY <1>1, SMT DEF Made, Stack
  <2> QED BY <1>1, <1>2, <1>4, <2>1 DEF IInv, Ownership, Unmade
<1>8. Sorted'
  <2>1. Ascending(items'[s])
    <3>1. /\ items[s] \in Seq(Resource) /\ Ascending(items[s])
          /\ \A i \in DOMAIN items[s] : items[s][i] \in Resource
      BY <1>1, SMT DEF IInv, Ownership, Sorted
    <3>2. items[s] \in Seq(Nat) /\ e \in Nat
      BY <1>1, <1>2, BoundsAssumption, SMT DEF Resource
    <3>3. ASSUME NEW r, Has(items[s], r) PROVE r < e
      <4>1. r \in Resource
        BY <3>1, <3>3 DEF Has
      <4>2. r <= accepted
        BY <1>1, <3>3, <4>1 DEF IInv, Ownership, Existing
      <4> QED BY <1>1, <1>3, <3>2, <4>1, <4>2, SMT DEF Resource
    <3>4. Ascending(Append(items[s], e))
      BY <3>1, <3>2, <3>3, AscendingAppend
    <3> QED BY <1>4, <3>4
  <2>2. ASSUME NEW t \in Stack PROVE Ascending(items'[t]) /\ Ascending(taken'[t])
    BY <1>2, <1>4, <2>1 DEF IInv, Ownership, Sorted
  <2> QED BY <2>2 DEF Sorted
<1>9. Single'
  <2>1. ASSUME NEW t \in Stack, NEW r \in Resource
        PROVE  Has(items'[t], r) <=> Has(items[t], r) \/ (t = s /\ r = e)
    BY <1>4, <1>5
  <2>2. ASSUME NEW t \in Stack, NEW u \in Stack, NEW r \in Resource
        PROVE  /\ Has(items'[t], r) => ~ Has(taken'[u], r)
               /\ Has(items'[t], r) /\ Has(items'[u], r) => t = u
               /\ Has(taken'[t], r) /\ Has(taken'[u], r) => t = u
    BY <1>2, <1>6, <2>1 DEF IInv, Ownership, Single
  <2> QED BY <2>2 DEF Single
<1>10. Existing'
  <2>1. ASSUME NEW t \in Stack, NEW r \in Resource,
               Has(items'[t], r) \/ Has(taken'[t], r)
        PROVE  r <= accepted'
    <3>1. CASE t = s /\ r = e
      BY <1>1, <1>2, <3>1, SMT DEF e
    <3>2. CASE ~ (t = s /\ r = e)
      <4>1. Has(items[t], r) \/ Has(taken[t], r)
        BY <1>2, <1>4, <1>5, <2>1, <3>2
      <4>2. r <= accepted
        BY <4>1 DEF IInv, Ownership, Existing
      <4> QED BY <1>1, <1>2, <1>3, <4>2, SMT DEF Resource, e
    <3> QED BY <3>1, <3>2
  <2> QED BY <2>1 DEF Existing
<1>11. Complete'
  <2>1. ASSUME NEW r \in 1 .. accepted'
        PROVE  \E t \in Made' : Has(items'[t], r) \/ Has(taken'[t], r)
    <3>1. Made' = Made /\ Made \subseteq Stack
      BY <1>1, <1>2, BoundsAssumption, SMT DEF Made, Stack
    <3>2. CASE r = e
      BY <1>5, <3>1, <3>2
    <3>3. CASE r # e
      <4>1. PICK t \in Made : Has(items[t], r) \/ Has(taken[t], r)
        BY <1>2, <1>3, <3>3 DEF IInv, Ownership, Complete
      <4>2. Has(items'[t], r) \/ Has(taken'[t], r)
        BY <1>2, <1>4, <1>5, <3>1, <4>1
      <4> QED BY <3>1, <4>2
    <3> QED BY <3>2, <3>3
  <2> QED BY <2>1 DEF Complete
<1> QED BY <1>7, <1>8, <1>9, <1>10, <1>11 DEF Ownership

\* A sequence without elements.
LEMMA EmptyHas == Ascending(<<>>) /\ \A r : ~ Has(<<>>, r)
  BY SMT DEF Ascending, Has

\* The resources of a moved stack have one owner again.
LEMMA MoveOwns ==
    ASSUME IInv, NEW s \in Made, Move(s)
    PROVE  Ownership'
<1> DEFINE n == made + 1
           q == items[s]
<1>1. /\ s \in Stack /\ made \in Nat /\ n \in Stack /\ s # n /\ n > made
      /\ made' = n
      /\ \A t \in Stack : t > n => t > made /\ t # s /\ t # n
      /\ Made \subseteq Stack /\ Made \subseteq 1 .. n /\ n \in 1 .. n
  <2>1. /\ MaxStacks \in Nat /\ made \in 0 .. MaxStacks /\ made < MaxStacks
        /\ s \in 1 .. made /\ made' = n
    BY BoundsAssumption DEF IInv, TypeOK, Made, Move
  <2> HIDE DEF q
  <2>2. /\ s \in Stack /\ made \in Nat /\ n \in Stack /\ s # n /\ n > made
        /\ Made \subseteq Stack /\ Made \subseteq 1 .. n /\ n \in 1 .. n
    BY ONLY <2>1, SMT DEF Made, Stack
  <2>3. \A t \in Stack : t > n => t > made /\ t # s /\ t # n
    BY ONLY <2>1, SMT DEF Stack
  <2> QED BY <2>1, <2>2, <2>3
<1>2. /\ items \in [Stack -> Seq(Resource)] /\ taken \in [Stack -> Seq(Resource)]
      /\ status \in [Stack -> Status]
  BY DEF IInv, TypeOK
<1>3. /\ accepted' = accepted /\ taken' = taken
      /\ items' = [items EXCEPT ![n] = q, ![s] = <<>>]
      /\ status' = [status EXCEPT ![s] = "Disposed"]
      /\ Made' = 1 .. n
  BY <1>1 DEF Move, disposal, Made
<1> HIDE DEF n, q
<1>4. /\ items'[n] = q /\ items'[s] = <<>>
      /\ \A t \in Stack : t # s /\ t # n => items'[t] = items[t]
      /\ \A t \in Stack : t # s => status'[t] = status[t]
  BY <1>1, <1>2, <1>3
<1>5. items[n] = <<>>
  BY <1>1 DEF IInv, Ownership, Unmade
<1>6. Unmade'
  BY <1>1, <1>3, <1>4 DEF IInv, Ownership, Unmade
<1>7. Sorted'
  <2>1. ASSUME NEW t \in Stack PROVE Ascending(items'[t]) /\ Ascending(taken'[t])
    <3>1. Ascending(q)
      BY <1>1 DEF IInv, Ownership, Sorted, q
    <3> QED BY <1>3, <1>4, <3>1, EmptyHas DEF IInv, Ownership, Sorted
  <2> QED BY <2>1 DEF Sorted
<1>8. ASSUME NEW t \in Stack, NEW r
      PROVE  Has(items'[t], r) <=> /\ t # s
                                   /\ Has(items[t], r) \/ (t = n /\ Has(q, r))
  BY <1>1, <1>4, <1>5, EmptyHas
<1>9. Single'
  <2>1. ASSUME NEW t \in Stack, NEW u \in Stack, NEW r \in Resource
        PROVE  /\ Has(items'[t], r) => ~ Has(taken'[u], r)
               /\ Has(items'[t], r) /\ Has(items'[u], r) => t = u
               /\ Has(taken'[t], r) /\ Has(taken'[u], r) => t = u
    BY <1>1, <1>3, <1>8 DEF IInv, Ownership, Single, q
  <2> QED BY <2>1 DEF Single
<1>10. Existing'
  <2>1. ASSUME NEW t \in Stack, NEW r \in Resource,
               Has(items'[t], r) \/ Has(taken'[t], r)
        PROVE  r <= accepted'
    BY <1>1, <1>3, <1>8, <2>1 DEF IInv, Ownership, Existing, q
  <2> QED BY <2>1 DEF Existing
<1>11. Complete'
  <2>1. ASSUME NEW r \in 1 .. accepted'
        PROVE  \E t \in Made' : Has(items'[t], r) \/ Has(taken'[t], r)
    <3>1. PICK t \in Made : Has(items[t], r) \/ Has(taken[t], r)
      BY <1>3 DEF IInv, Ownership, Complete
    <3>2. CASE t = s /\ Has(items[t], r)
      BY <1>1, <1>3, <1>8, <3>2 DEF q
    <3>3. CASE ~ (t = s /\ Has(items[t], r))
      BY <1>1, <1>3, <1>8, <3>1, <3>3
    <3> QED BY <3>2, <3>3
  <2> QED BY <2>1 DEF Complete
<1> QED BY <1>6, <1>7, <1>9, <1>10, <1>11 DEF Ownership

\* What the disposal finds has one owner again.
LEMMA DisposeOwns ==
    ASSUME IInv, NEW s \in Made, Dispose(s)
    PROVE  Ownership'
<1> DEFINE q == items[s]
<1>1. /\ s \in Stack /\ Made \subseteq Stack
      /\ \A t \in Stack : t > made => t # s
  BY BoundsAssumption, SMT DEF IInv, TypeOK, Made, Stack
<1>2. /\ items \in [Stack -> Seq(Resource)] /\ taken \in [Stack -> Seq(Resource)]
      /\ status \in [Stack -> Status]
  BY DEF IInv, TypeOK
<1>3. /\ accepted' = accepted /\ made' = made /\ Made' = Made
      /\ items' = [items EXCEPT ![s] = <<>>]
      /\ taken' = [taken EXCEPT ![s] = q]
      /\ status' = [status EXCEPT ![s] = "Disposed"]
  BY DEF Dispose, Disposes, Made
<1> HIDE DEF q
<1>4. /\ taken'[s] = q /\ items'[s] = <<>>
      /\ \A t \in Stack : t # s => /\ items'[t] = items[t]
                                   /\ taken'[t] = taken[t]
                                   /\ status'[t] = status[t]
  BY <1>1, <1>2, <1>3
<1>5. taken[s] = <<>>
  <2>1. loop[s] = "none"
    BY <1>1 DEF IInv, TypeOK, Dispose, Status
  <2> QED BY <1>1, <2>1 DEF IInv, Loops
<1>6. Unmade'
  BY <1>1, <1>3, <1>4 DEF IInv, Ownership, Unmade
<1>7. Sorted'
  <2>1. ASSUME NEW t \in Stack PROVE Ascending(items'[t]) /\ Ascending(taken'[t])
    <3>1. Ascending(q)
      BY <1>1 DEF IInv, Ownership, Sorted, q
    <3> QED BY <1>4, <3>1, EmptyHas DEF IInv, Ownership, Sorted
  <2> QED BY <2>1 DEF Sorted
<1>8. ASSUME NEW t \in Stack, NEW r
      PROVE  /\ Has(items'[t], r) <=> t # s /\ Has(items[t], r)
             /\ Has(taken'[t], r) <=> Has(taken[t], r) \/ (t = s /\ Has(items[t], r))
  <2>1. CASE t = s
    BY <1>4, <1>5, <2>1, EmptyHas DEF q
  <2>2. CASE t # s
    <3>1. items'[t] = items[t] /\ taken'[t] = taken[t]
      BY <1>4, <2>2
    <3> QED BY <2>2, <3>1
  <2> QED BY <2>1, <2>2
<1>9. Single'
  <2>1. ASSUME NEW t \in Stack, NEW u \in Stack, NEW r \in Resource
        PROVE  /\ Has(items'[t], r) => ~ Has(taken'[u], r)
               /\ Has(items'[t], r) /\ Has(items'[u], r) => t = u
               /\ Has(taken'[t], r) /\ Has(taken'[u], r) => t = u
    BY <1>1, <1>8 DEF IInv, Ownership, Single
  <2> QED BY <2>1 DEF Single
<1>10. Existing'
  <2>1. ASSUME NEW t \in Stack, NEW r \in Resource,
               Has(items'[t], r) \/ Has(taken'[t], r)
        PROVE  r <= accepted'
    BY <1>1, <1>3, <1>8, <2>1 DEF IInv, Ownership, Existing
  <2> QED BY <2>1 DEF Existing
<1>11. Complete'
  <2>1. ASSUME NEW r \in 1 .. accepted'
        PROVE  \E t \in Made' : Has(items'[t], r) \/ Has(taken'[t], r)
    <3>1. PICK t \in Made : Has(items[t], r) \/ Has(taken[t], r)
      BY <1>3 DEF IInv, Ownership, Complete
    <3>2. /\ Has(items'[t], r) <=> t # s /\ Has(items[t], r)
          /\ Has(taken'[t], r) <=> Has(taken[t], r) \/ (t = s /\ Has(items[t], r))
      <4>1. t \in Stack
        BY <1>1
      <4> QED BY <1>8, <4>1
    <3> QED BY <1>3, <3>1, <3>2
  <2> QED BY <2>1 DEF Complete
<1> QED BY <1>6, <1>7, <1>9, <1>10, <1>11 DEF Ownership

-----------------------------------------------------------------------------
(* The disposals.                                                          *)

\* What is called was found.
LEMMA CalledTaken ==
    ASSUME IInv, NEW s \in Stack, NEW r, Has(called[s], r)
    PROVE  Has(taken[s], r)
<1>1. /\ left[s] \in Seq(Resource) /\ called[s] \in Seq(Resource)
      /\ taken[s] = left[s] \o Reverse(called[s])
  BY DEF IInv, TypeOK, Loops
<1>2. Reverse(called[s]) \in Seq(Resource) /\ Has(Reverse(called[s]), r)
  BY <1>1, Reversed, HasReverse
<1> QED BY <1>1, <1>2, HasConcat

\* What is in a sequence of resources is a resource.
LEMMA HasResource ==
    ASSUME NEW q \in Seq(Resource), NEW r, Has(q, r)
    PROVE  r \in Resource
<1>1. \A i \in DOMAIN q : q[i] \in Resource
  BY SMT
<1> QED BY <1>1 DEF Has

\* Resources are numbers.
LEMMA ResourcesAreNumbers ==
    Resource \subseteq Nat /\ Seq(Resource) \subseteq Seq(Nat)
<1>1. Resource \subseteq Nat
  BY BoundsAssumption, SMT DEF Resource
<1>2. ASSUME NEW q \in Seq(Resource) PROVE q \in Seq(Nat)
  <2>1. Len(q) \in Nat /\ q \in [1 .. Len(q) -> Resource]
    BY LenProperties
  <2>2. q \in [1 .. Len(q) -> Nat]
    BY <1>1, <2>1
  <2> QED BY <2>1, <2>2, SMT
<1> QED BY <1>1, <1>2

\* A failed resource was called by one disposal only, and is not the one
\* being disposed of.
LEMMA FailedHere ==
    ASSUME IInv, NEW s \in Stack, NEW r, Has(taken[s], r), r \in failed
    PROVE  Has(called[s], r) /\ (Open(s) => r # Latest(s))
<1>1. PICK t \in Made : Has(called[t], r) /\ (Open(t) => r # Latest(t))
  BY DEF IInv, FailedCalled
<1>2. t \in Stack /\ r \in Resource
  BY BoundsAssumption, SMT DEF IInv, TypeOK, Made, Stack
<1>3. Has(taken[t], r)
  BY <1>1, <1>2, CalledTaken
<1>4. t = s
  BY <1>2, <1>3 DEF IInv, Ownership, Single
<1> QED BY <1>1, <1>4

\* The latest call is below all that failed before it.
LEMMA LatestIsLeast ==
    ASSUME IInv, NEW s \in Stack, Open(s), NEW r, Has(called[s], r), r \in failed
    PROVE  Latest(s) < r
<1> DEFINE c == called[s]
           p == left[s]
<1>1. /\ c \in Seq(Resource) /\ p \in Seq(Resource) /\ c # <<>>
      /\ taken[s] = p \o Reverse(c)
  BY OpenHas
<1>2. r # Latest(s)
  BY CalledTaken, FailedHere
<1>3. Latest(s) = c[Len(c)]
  BY DEF Latest, Last
<1>4. Ascending(taken[s])
  BY DEF IInv, Ownership, Sorted
<1> HIDE DEF c, p
<1>5. \A i, j \in DOMAIN c : i < j => c[i] > c[j]
  <2>1. c \in Seq(Nat) /\ p \in Seq(Nat)
    BY <1>1, ResourcesAreNumbers
  <2>2. Ascending(p \o Reverse(c))
    BY <1>1, <1>4
  <2> QED BY <2>1, <2>2, FoundInOrder
<1>6. PICK i \in DOMAIN c : c[i] = r
  BY DEF Has, c
<1>7. i # Len(c)
  BY <1>2, <1>3, <1>6
<1>8. Len(c) \in DOMAIN c /\ i < Len(c) /\ c[i] \in Nat /\ c[Len(c)] \in Nat
  <2>1. DOMAIN c = 1 .. Len(c) /\ Len(c) \in Nat /\ \A k \in DOMAIN c : c[k] \in Resource
    BY <1>1, SMT
  <2>2. Len(c) \in 1 .. Len(c) /\ i < Len(c)
    BY <1>6, <1>7, <2>1, SMT
  <2> QED BY <1>6, <2>1, <2>2, ResourcesAreNumbers
<1>9. c[i] > c[Len(c)]
  BY <1>5, <1>6, <1>8
<1> QED BY <1>3, <1>6, <1>8, <1>9, SMT

\* The stacks are the numbers up to made.
LEMMA MadeStacks == ASSUME IInv PROVE Made \subseteq Stack
  BY BoundsAssumption, SMT DEF IInv, TypeOK, Made, Stack

\* A step of a disposal calls what is below all it has called, and what has
\* not failed.
LEMMA NextIsNew ==
    ASSUME IInv, Ownership', NEW s \in Stack, NEW rest, NEW errs, NEW chain, NEW below,
           Advances(s, rest, errs, chain, below), rest # <<>>
    PROVE  /\ rest[Len(rest)] \in Resource
           /\ \A r : Has(called[s], r) => rest[Len(rest)] < r
           /\ rest[Len(rest)] \notin failed'
<1> DEFINE x == rest[Len(rest)]
           v == Reverse(called[s])
<1>1. /\ rest \in Seq(Resource) /\ called[s] \in Seq(Resource)
      /\ taken'[s] = rest \o v
  BY DEF Advances, IInv, TypeOK
<1>2. Len(rest) \in DOMAIN rest /\ x \in Resource
  BY <1>1, LatestCalled DEF Advances
<1>3. Has(rest, x)
  BY <1>2 DEF Has
<1>4. v \in Seq(Resource)
  BY <1>1, Reversed
<1> HIDE DEF x
<1>5. \A r : Has(called[s], r) => x < r
  <2>1. Ascending(rest \o v)
    <3>1. Ascending(taken'[s])
      BY DEF Ownership, Sorted
    <3> QED BY <1>1, <3>1
  <2>2. rest \in Seq(Nat) /\ called[s] \in Seq(Nat)
    BY <1>1, ResourcesAreNumbers
  <2> QED BY <1>3, <2>1, <2>2, FoundInOrder
<1> HIDE DEF v
<1>6. Has(taken'[s], x)
  BY <1>1, <1>3, <1>4, HasConcat
<1>7. ~ x < x
  <2>1. x \in Nat
    BY <1>2, ResourcesAreNumbers
  <2> QED BY <2>1, SMT
<1>8. x \notin failed
  <2>1. SUFFICES ASSUME x \in failed PROVE FALSE
    OBVIOUS
  <2>2. PICK t \in Made : Has(called[t], x)
    BY <2>1 DEF IInv, FailedCalled
  <2>3. t \in Stack
    BY MadeStacks
  <2>4. t # s
    BY <1>5, <1>7, <2>2
  <2>5. Has(taken'[t], x)
    BY <2>2, <2>3, <2>4, CalledTaken DEF Advances
  <2> QED BY <1>2, <1>6, <2>3, <2>4, <2>5 DEF Ownership, Single, x
<1>9. Open(s) => x # Latest(s)
  BY <1>5, <1>7, OpenHas
<1>10. x \notin failed'
  BY <1>8, <1>9 DEF Advances
<1> QED BY <1>2, <1>5, <1>10 DEF x

\* A step of a disposal keeps what is found made up of what is left and what
\* is called.
LEMMA AdvancesLoops ==
    ASSUME IInv, NEW s \in Stack, NEW rest, NEW errs, NEW chain, NEW below,
           Advances(s, rest, errs, chain, below)
    PROVE  Loops'
<1> DEFINE At(t) ==
               /\ taken'[t] = left'[t] \o Reverse(called'[t])
               /\ loop'[t] = "none" =>
                     /\ taken'[t] = <<>>
                     /\ errors'[t] = <<>>
                     /\ completion'[t] = <<>>
               /\ loop'[t] = "done" => left'[t] = <<>>
               /\ loop'[t] \in {"running", "awaiting"} => called'[t] # <<>>
<1>1. ASSUME NEW t \in Stack, t # s PROVE At(t)
  <2>1. /\ taken'[t] = taken[t] /\ left'[t] = left[t] /\ called'[t] = called[t]
        /\ errors'[t] = errors[t] /\ completion'[t] = completion[t]
        /\ loop'[t] = loop[t]
    BY <1>1 DEF Advances, Goes
  <2> QED BY <2>1 DEF IInv, Loops, Open
<1>2. At(s)
  <2>1. /\ rest \in Seq(Resource) /\ called[s] \in Seq(Resource)
        /\ taken'[s] = rest \o Reverse(called[s])
    BY DEF Advances, IInv, TypeOK
  <2>2. CASE rest # <<>>
    <3>1. /\ left'[s] = RemoveAt(rest, Len(rest))
          /\ called'[s] = Append(called[s], rest[Len(rest)])
          /\ loop'[s] \in {"running", "awaiting"}
      BY <2>2 DEF Advances, Goes
    <3>2. /\ rest[Len(rest)] \in Resource
          /\ taken'[s] = left'[s] \o Reverse(called'[s])
      <4> DEFINE c == called[s]
      <4>1. rest \in Seq(Resource) /\ c \in Seq(Resource)
        BY <2>1
      <4> HIDE DEF c
      <4>2. /\ rest[Len(rest)] \in Resource
            /\ rest \o Reverse(c)
                 = RemoveAt(rest, Len(rest)) \o Reverse(Append(c, rest[Len(rest)]))
        BY ONLY <4>1, <2>2, StepsBack
      <4> QED BY <2>1, <3>1, <4>2 DEF c
    <3>3. called'[s] # <<>>
      BY <2>1, <3>1, <3>2, Appended
    <3> QED BY <3>1, <3>2, <3>3
  <2>3. CASE rest = <<>>
    <3>1. left'[s] = <<>> /\ called'[s] = called[s] /\ loop'[s] = "done"
      BY <2>3 DEF Advances, Goes
    <3> QED BY <2>1, <2>3, <3>1
  <2> QED BY <2>2, <2>3
<1>3. \A t \in Stack : At(t)
  BY <1>1, <1>2
<1> QED BY <1>3 DEF Loops, Open

\* A step of a disposal leaves at most one frame of it.
LEMMA AdvancesNested ==
    ASSUME IInv, NEW s \in Made, NEW rest, NEW errs, NEW chain, NEW below,
           Advances(s, rest, errs, chain, below)
    PROVE  Nested' /\ frames' \in Seq(Frame)
<1> DEFINE d == [what |-> "disposer", stack |-> s]
<1>1. /\ Made' = Made /\ Made \subseteq Stack
      /\ d \in Frame /\ d.what = "disposer" /\ d.stack = s
  <2>1. s \in Stack /\ Made \subseteq Stack
    BY MadeStacks
  <2> QED BY <2>1 DEF Frame, Advances, Made
<1>2. /\ below \in Seq(Frame)
      /\ \A i \in DOMAIN below :
            i \in DOMAIN frames /\ below[i] = frames[i] /\ below[i] # d
      /\ \A t \in Stack : t # s => loop'[t] = loop[t]
      /\ \/ frames' = below
         \/ frames' = Append(below, d) /\ loop'[s] = "running"
  BY DEF Advances, Goes
<1> HIDE DEF d
<1>3. \A i \in DOMAIN below : below[i] \in Frame
  BY <1>2, SMT
<1>4. ASSUME NEW f \in Frame, f.what = "disposer", f # d
      PROVE  f.stack # s
  BY <1>4 DEF Frame, d
<1>5. ASSUME NEW i \in DOMAIN below
      PROVE  /\ below[i].stack \in Made
             /\ below[i].what = "disposer" =>
                   /\ loop'[below[i].stack] = "running"
                   /\ \A j \in DOMAIN below : below[j] = below[i] => j = i
  <2>1. /\ frames[i].stack \in Made
        /\ frames[i].what = "disposer" =>
              /\ loop[frames[i].stack] = "running"
              /\ \A j \in DOMAIN frames : frames[j] = frames[i] => j = i
    BY <1>2 DEF IInv, Nested
  <2>2. below[i].what = "disposer" => below[i].stack # s
    BY <1>2, <1>3, <1>4
  <2> QED BY <1>1, <1>2, <2>1, <2>2
<1>6. CASE frames' = below
  BY <1>1, <1>2, <1>5, <1>6 DEF Nested
<1>7. CASE frames' = Append(below, d) /\ loop'[s] = "running"
  <2> DEFINE n == Len(below) + 1
  <2>1. /\ frames' \in Seq(Frame) /\ DOMAIN frames' = 1 .. n /\ frames'[n] = d
        /\ \A i \in 1 .. Len(below) : frames'[i] = below[i]
        /\ Len(below) \in Nat /\ DOMAIN below = 1 .. Len(below)
    BY <1>1, <1>2, <1>7, Appended
  <2>2. \A i \in 1 .. n : i \in 1 .. Len(below) \/ i = n
    BY <2>1, SMT
  <2> HIDE DEF n
  <2>3. ASSUME NEW i \in DOMAIN frames'
        PROVE  /\ frames'[i].stack \in Made'
               /\ frames'[i].what = "disposer" =>
                     /\ loop'[frames'[i].stack] = "running"
                     /\ \A j \in DOMAIN frames' : frames'[j] = frames'[i] => j = i
    <3>1. CASE i \in DOMAIN below
      <4>1. frames'[i] = below[i] /\ frames'[i] # d
        BY <1>2, <2>1, <3>1
      <4>2. ASSUME NEW j \in DOMAIN frames', frames'[j] = frames'[i],
                   frames'[i].what = "disposer"
            PROVE  j = i
        <5>1. j \in DOMAIN below
          BY <2>1, <2>2, <4>1, <4>2
        <5> QED BY <1>5, <2>1, <3>1, <4>1, <4>2, <5>1
      <4> QED BY <1>1, <1>5, <3>1, <4>1, <4>2
    <3>2. CASE i = n
      <4>1. ASSUME NEW j \in DOMAIN frames', frames'[j] = d PROVE j = i
        BY <1>2, <2>1, <2>2, <3>2, <4>1
      <4> QED BY <1>1, <1>7, <2>1, <3>2, <4>1
    <3> QED BY <2>1, <2>2, <3>1, <3>2
  <2> QED BY <2>1, <2>3 DEF Nested
<1> QED BY <1>2, <1>6, <1>7

\* A step of a disposal keeps what it called.
LEMMA StillCalled ==
    ASSUME IInv, NEW s \in Stack, NEW rest, NEW errs, NEW chain, NEW below,
           Advances(s, rest, errs, chain, below)
    PROVE  /\ \A t \in Stack : t # s => called'[t] = called[t]
           /\ rest # <<>> =>
                 /\ loop'[s] # "done"
                 /\ Latest(s)' = rest[Len(rest)]
                 /\ \A r : Has(called'[s], r) <=>
                              Has(called[s], r) \/ r = rest[Len(rest)]
           /\ rest = <<>> => loop'[s] = "done" /\ called'[s] = called[s]
<1>1. rest \in Seq(Resource) /\ called[s] \in Seq(Resource)
  BY DEF Advances, IInv, TypeOK
<1>2. ASSUME rest # <<>>
      PROVE  /\ loop'[s] # "done"
             /\ Latest(s)' = rest[Len(rest)]
             /\ \A r : Has(called'[s], r) <=>
                          Has(called[s], r) \/ r = rest[Len(rest)]
  <2> DEFINE x == rest[Len(rest)]
  <2>1. called'[s] = Append(called[s], x) /\ loop'[s] # "done"
    BY <1>2 DEF Advances, Goes
  <2>2. x \in Resource
    BY <1>1, <1>2, LatestCalled
  <2> HIDE DEF x
  <2>3. \A r : Has(called'[s], r) <=> Has(called[s], r) \/ r = x
    BY <1>1, <2>1, <2>2, HasAppend
  <2>4. Latest(s)' = x
    <3>1. /\ Len(Append(called[s], x)) = Len(called[s]) + 1
          /\ Append(called[s], x)[Len(called[s]) + 1] = x
      BY <1>1, <2>2, Appended
    <3> QED BY <2>1, <3>1 DEF Latest, Last
  <2> QED BY <2>1, <2>3, <2>4 DEF x
<1>3. rest = <<>> => loop'[s] = "done" /\ called'[s] = called[s]
  BY DEF Advances, Goes
<1>4. \A t \in Stack : t # s => called'[t] = called[t]
  BY DEF Advances, Goes
<1> QED BY <1>2, <1>3, <1>4

\* A step of a disposal: what has failed was called, and is not the resource
\* it goes on to.
LEMMA AdvancesFailed ==
    ASSUME IInv, Ownership', NEW s \in Made, NEW rest, NEW errs, NEW chain, NEW below,
           Advances(s, rest, errs, chain, below)
    PROVE  FailedCalled' /\ failed' \subseteq Resource
<1>1. s \in Stack /\ Made \subseteq Stack /\ Made' = Made
  BY MadeStacks DEF Advances, Made
<1>2. ASSUME NEW r \in failed', Has(called[s], r)
      PROVE  Has(called'[s], r) /\ (Open(s)' => r # Latest(s)')
  <2>1. CASE rest # <<>>
    <3>1. r # rest[Len(rest)]
      BY <1>1, <1>2, <2>1, NextIsNew
    <3> QED BY <1>1, <1>2, <2>1, <3>1, StillCalled
  <2>2. CASE rest = <<>>
    BY <1>1, <1>2, <2>2, StillCalled DEF Open
  <2> QED BY <2>1, <2>2
<1>3. ASSUME NEW r \in failed'
      PROVE  /\ r \in Resource
             /\ \E t \in Made' : Has(called'[t], r) /\ (Open(t)' => r # Latest(t)')
  <2>1. CASE r \in failed
    <3>1. PICK t \in Made : Has(called[t], r) /\ (Open(t) => r # Latest(t))
      BY <2>1 DEF IInv, FailedCalled
    <3>2. CASE t = s
      BY <1>1, <1>2, <2>1, <3>1, <3>2 DEF IInv, TypeOK
    <3>3. CASE t # s
      <4>1. called'[t] = called[t] /\ loop'[t] = loop[t]
        BY <1>1, <3>3 DEF Advances, Goes
      <4> QED BY <1>1, <2>1, <3>1, <4>1 DEF IInv, TypeOK, Open, Latest
    <3> QED BY <3>2, <3>3
  <2>2. CASE r \notin failed
    <3>1. Open(s) /\ r = Latest(s)
      BY <1>3, <2>2 DEF Advances
    <3>2. Has(called[s], r) /\ r \in Resource
      BY <1>1, <3>1, OpenHas
    <3> QED BY <1>1, <1>2, <1>3, <3>2
  <2> QED BY <2>1, <2>2
<1>4. failed' \subseteq Resource
  BY <1>3
<1> QED BY <1>3, <1>4 DEF FailedCalled

\* A step of a disposal: the report is what has failed of what was called.
LEMMA AdvancesReported ==
    ASSUME IInv, Ownership', NEW s \in Made, NEW rest, NEW errs, NEW chain, NEW below,
           Advances(s, rest, errs, chain, below)
    PROVE  Reported'
<1> DEFINE l == Latest(s)
           R == Report(s)
<1>1. s \in Stack /\ Made \subseteq Stack
  BY MadeStacks
<1>2. /\ Ascending(R)
      /\ \A r \in Resource : Has(R, r) <=> Has(called[s], r) /\ r \in failed
  BY <1>1 DEF IInv, Reported
<1>3. R \in Seq(Resource)
  <2>1. errors[s] \in Seq(Resource) /\ completion[s] \in Seq(Resource)
    BY <1>1 DEF IInv, TypeOK
  <2> QED BY <2>1, Reversed DEF Report
<1>4. Report(s)' = Collects(s, errs, chain)
  <2>1. kind'[s] = kind[s] /\ errors'[s] = errs
    BY DEF Advances, Goes
  <2>2. CASE rest # <<>>
    <3>1. loop'[s] # "done" /\ completion'[s] = chain
      BY <2>2 DEF Advances, Goes
    <3> QED BY <2>1, <3>1 DEF Report, Collects
  <2>3. CASE rest = <<>>
    <3>1. loop'[s] = "done" /\ completion'[s] = Collects(s, errs, chain)
      BY <2>3 DEF Advances, Goes, Collects
    <3> QED BY <2>1, <3>1 DEF Report, Collects
  <2> QED BY <2>2, <2>3
<1> DEFINE N == Collects(s, errs, chain)
<1>5. /\ Ascending(N)
      /\ \A r \in Resource : Has(N, r) <=> Has(called[s], r) /\ r \in failed'
  <2>1. CASE failed' = failed /\ N = R
    BY <1>2, <2>1
  <2>2. CASE Open(s) /\ failed' = failed \cup {l} /\ N = Suppressed(l, R)
    <3>1. l \in Resource /\ Has(called[s], l)
      BY <1>1, <2>2, OpenHas
    <3>2. ASSUME NEW r, Has(R, r) PROVE l < r
      <4>1. r \in Resource
        BY <1>3, <3>2, HasResource
      <4>2. Has(called[s], r) /\ r \in failed
        BY <1>2, <3>2, <4>1
      <4> QED BY <1>1, <2>2, <4>2, LatestIsLeast
    <3> HIDE DEF l, R, N
    <3>3. Ascending(N)
      <4>1. l \in Nat /\ R \in Seq(Nat)
        BY <1>3, <3>1, ResourcesAreNumbers
      <4>2. Ascending(Suppressed(l, R))
        BY ONLY <4>1, <1>2, <3>2, AscendingSuppressed
      <4> QED BY <2>2, <4>2
    <3>4. ASSUME NEW r \in Resource
          PROVE  Has(N, r) <=> Has(called[s], r) /\ r \in failed'
      <4>1. Has(Suppressed(l, R), r) <=> Has(R, r) \/ r = l
        BY ONLY <1>3, <3>1, HasSuppressed
      <4> QED BY <1>2, <2>2, <3>1, <4>1
    <3> QED BY <3>3, <3>4
  <2> QED BY <2>1, <2>2 DEF Advances
<1> HIDE DEF N, R, l
<1>6. ASSUME NEW r \in Resource
      PROVE  Has(called'[s], r) /\ r \in failed' <=> Has(called[s], r) /\ r \in failed'
  <2>1. CASE rest # <<>>
    <3>1. rest[Len(rest)] \notin failed'
      BY <1>1, <2>1, NextIsNew
    <3>2. Has(called'[s], r) <=> Has(called[s], r) \/ r = rest[Len(rest)]
      BY <1>1, <2>1, StillCalled
    <3> QED BY <3>1, <3>2
  <2>2. CASE rest = <<>>
    BY <1>1, <2>2, StillCalled
  <2> QED BY <2>1, <2>2
<1>7. ASSUME NEW t \in Stack, t # s
      PROVE  /\ Ascending(Report(t)')
             /\ \A r \in Resource :
                   Has(Report(t)', r) <=> Has(called'[t], r) /\ r \in failed'
  <2>1. /\ kind' = kind /\ errors'[t] = errors[t] /\ completion'[t] = completion[t]
        /\ loop'[t] = loop[t] /\ called'[t] = called[t]
    BY <1>7 DEF Advances, Goes
  <2>2. Report(t)' = Report(t)
    BY <2>1 DEF Report
  <2>3. ASSUME NEW r \in Resource, Has(called[t], r)
        PROVE  r \in failed' <=> r \in failed
    <3>1. CASE failed' = failed
      BY <3>1
    <3>2. CASE Open(s) /\ failed' = failed \cup {l}
      <4>1. Has(taken[s], l)
        BY <1>1, <3>2, OpenHas, CalledTaken DEF l
      <4>2. Has(taken[t], r)
        BY <2>3, CalledTaken
      <4>3. r # l
        BY <1>1, <1>7, <4>1, <4>2 DEF IInv, Ownership, Single
      <4> QED BY <3>2, <4>3
    <3> QED BY <3>1, <3>2 DEF Advances, l
  <2>4. /\ Ascending(Report(t))
        /\ \A r \in Resource : Has(Report(t), r) <=> Has(called[t], r) /\ r \in failed
    BY DEF IInv, Reported
  <2> QED BY <2>1, <2>2, <2>3, <2>4
<1>8. /\ Ascending(Report(s)')
      /\ \A r \in Resource :
            Has(Report(s)', r) <=> Has(called'[s], r) /\ r \in failed'
  BY <1>4, <1>5, <1>6 DEF N
<1>9. ASSUME NEW t \in Stack
      PROVE  /\ Ascending(Report(t)')
             /\ \A r \in Resource :
                   Has(Report(t)', r) <=> Has(called'[t], r) /\ r \in failed'
  BY <1>7, <1>8
<1> QED BY <1>9 DEF Reported

Disposals == Loops /\ Nested /\ FailedCalled /\ Reported

\* A step that leaves the disposals alone, and may construct a stack and
\* change the frames of use().
Quiet ==
    /\ UNCHANGED <<left, errors, completion, loop, called, failed, taken>>
    /\ Made \subseteq Made'
    /\ \A t \in Made : kind'[t] = kind[t]
    /\ \A i \in DOMAIN frames' :
          \/ i \in DOMAIN frames /\ frames'[i] = frames[i]
          \/ frames'[i].what = "use" /\ frames'[i].stack \in Made

\* A stack that is not made has reported nothing and failed nothing.
LEMMA QuietDisposals ==
    ASSUME IInv, Quiet
    PROVE  Disposals'
<1>1. Made \subseteq Stack
  BY MadeStacks
<1>2. Loops'
  BY DEF IInv, Loops, Quiet, Open
<1>3. FailedCalled'
  BY DEF IInv, FailedCalled, Quiet, Open, Latest
<1>4. Nested'
  <2>1. ASSUME NEW i \in DOMAIN frames'
        PROVE  /\ frames'[i].stack \in Made'
               /\ frames'[i].what = "disposer" =>
                     /\ loop'[frames'[i].stack] = "running"
                     /\ \A j \in DOMAIN frames' : frames'[j] = frames'[i] => j = i
    <3>1. CASE frames'[i].what = "use" /\ frames'[i].stack \in Made
      BY <3>1 DEF Quiet
    <3>2. CASE i \in DOMAIN frames /\ frames'[i] = frames[i]
      <4>1. /\ frames[i].stack \in Made
            /\ frames[i].what = "disposer" =>
                  /\ loop[frames[i].stack] = "running"
                  /\ \A j \in DOMAIN frames : frames[j] = frames[i] => j = i
        BY <3>2 DEF IInv, Nested
      <4>2. ASSUME NEW j \in DOMAIN frames', frames'[j] = frames'[i],
                   frames'[i].what = "disposer"
            PROVE  j \in DOMAIN frames /\ frames[j] = frames[i]
        BY <3>2, <4>2 DEF Quiet
      <4> QED BY <3>2, <4>1, <4>2 DEF Quiet
    <3> QED BY <3>1, <3>2 DEF Quiet
  <2> QED BY <2>1 DEF Nested
<1>5. Reported'
  <2>1. ASSUME NEW t \in Stack
        PROVE  /\ Ascending(Report(t)')
               /\ \A r \in Resource :
                     Has(Report(t)', r) <=> Has(called'[t], r) /\ r \in failed'
    <3>1. /\ called'[t] = called[t] /\ failed' = failed
          /\ errors'[t] = errors[t] /\ completion'[t] = completion[t]
          /\ loop'[t] = loop[t]
      BY DEF Quiet
    <3>2. Report(t)' = Report(t)
      <4>1. CASE t \in Made
        BY <3>1, <4>1 DEF Quiet, Report
      <4>2. CASE t \notin Made
        <5>1. t > made
          BY <4>2, SMT DEF IInv, TypeOK, Made, Stack
        <5>2. loop[t] = "none"
          BY <5>1 DEF IInv, Ownership, Unmade, TypeOK
        <5>3. errors[t] = <<>> /\ completion[t] = <<>>
          BY <5>2 DEF IInv, Loops
        <5>4. Reverse(<<>>) = <<>>
          BY SMT DEF Reverse
        <5> QED BY <3>1, <5>2, <5>3, <5>4 DEF Report
      <4> QED BY <4>1, <4>2
    <3> QED BY <3>1, <3>2 DEF IInv, Reported
  <2> QED BY <2>1 DEF Reported
<1> QED BY <1>2, <1>3, <1>4, <1>5 DEF Disposals

\* An open disposal that suspends is open still.
LEMMA SuspendsDisposals ==
    ASSUME IInv, NEW s \in Made, Suspends(s)
    PROVE  Disposals'
<1>1. /\ s \in Stack /\ Open(s) /\ Clean(s, Front(frames))
  BY MadeStacks, DisposerOnTop DEF Suspends
<1>2. loop \in [Stack -> {"none", "running", "awaiting", "done"}]
      /\ frames \in Seq(Frame)
  BY DEF IInv, TypeOK
<1>3. /\ loop'[s] = "awaiting" /\ loop[s] \in {"running", "awaiting"}
      /\ \A t \in Stack : t # s => loop'[t] = loop[t]
  BY <1>1, <1>2 DEF Suspends, Open
<1>4. /\ left' = left /\ called' = called /\ errors' = errors
      /\ completion' = completion /\ taken' = taken /\ failed' = failed
      /\ made' = made /\ kind' = kind /\ frames' = Front(frames)
      /\ Made' = Made
  BY DEF Suspends, contents, Made
<1>5. ASSUME NEW t \in Stack
      PROVE  /\ loop'[t] = "none" <=> loop[t] = "none"
             /\ loop'[t] = "done" <=> loop[t] = "done"
             /\ loop'[t] \in {"running", "awaiting"}
                   <=> loop[t] \in {"running", "awaiting"}
  BY <1>3
<1>6. Loops'
  BY <1>4, <1>5 DEF IInv, Loops, Open
<1>7. FailedCalled'
  BY <1>4, <1>5, MadeStacks DEF IInv, FailedCalled, Latest, Open
<1>8. Reported'
  <2>1. \A t \in Stack : Report(t)' = Report(t)
    BY <1>4, <1>5 DEF Report
  <2> QED BY <1>4, <2>1 DEF IInv, Reported
<1>9. Nested'
  <2> DEFINE b == Front(frames)
             d == [what |-> "disposer", stack |-> s]
  <2>1. /\ b \in Seq(Frame)
        /\ \A i \in DOMAIN b : /\ i \in DOMAIN frames /\ b[i] = frames[i] /\ b[i] # d
    BY <1>1 DEF Clean
  <2> HIDE DEF b, d
  <2>2. \A i \in DOMAIN b : b[i] \in Frame
    BY <2>1, SMT
  <2>3. ASSUME NEW f \in Frame, f.what = "disposer", f # d
        PROVE  f.stack # s
    BY <2>3 DEF Frame, d
  <2>4. ASSUME NEW i \in DOMAIN b
        PROVE  /\ b[i].stack \in Made
               /\ b[i].what = "disposer" =>
                     /\ loop'[b[i].stack] = "running"
                     /\ \A j \in DOMAIN b : b[j] = b[i] => j = i
    <3>1. /\ frames[i].stack \in Made
          /\ frames[i].what = "disposer" =>
                /\ loop[frames[i].stack] = "running"
                /\ \A j \in DOMAIN frames : frames[j] = frames[i] => j = i
      BY <2>1 DEF IInv, Nested
    <3>2. b[i].what = "disposer" => b[i].stack # s
      BY <2>1, <2>2, <2>3
    <3>3. b[i].stack \in Stack
      BY <2>1, <3>1, MadeStacks
    <3> QED BY <1>3, <2>1, <3>1, <3>2, <3>3
  <2>5. frames' = b
    BY <1>4 DEF b
  <2> QED BY <1>4, <2>4, <2>5 DEF Nested
<1> QED BY <1>6, <1>7, <1>8, <1>9 DEF Disposals

-----------------------------------------------------------------------------
(* The steps.                                                              *)

\* What is to be shown of a step.
Kept == TypeOK' /\ Ownership' /\ Disposals'

\* The types of the disposals.
LEMMA AdvancesTypes ==
    ASSUME IInv, Ownership', NEW s \in Made, NEW rest, NEW errs, NEW chain, NEW below,
           Advances(s, rest, errs, chain, below),
           accepted' = accepted, flavour' = flavour,
           items' \in [Stack -> Seq(Resource)], status' \in [Stack -> Status],
           status'[s] = "Disposed",
           \A t \in Stack : t # s => status'[t] = status[t]
    PROVE  Kept
<1>1. s \in Stack
  BY MadeStacks
<1>2. Disposals' /\ frames' \in Seq(Frame) /\ failed' \subseteq Resource
  BY <1>1, AdvancesLoops, AdvancesNested, AdvancesFailed, AdvancesReported
     DEF Disposals
<1>3. /\ left' \in [Stack -> Seq(Resource)]
      /\ called' \in [Stack -> Seq(Resource)]
      /\ errors' \in [Stack -> Seq(Resource)]
      /\ completion' \in [Stack -> Seq(Resource)]
      /\ loop' \in [Stack -> {"none", "running", "awaiting", "done"}]
      /\ taken' \in [Stack -> Seq(Resource)]
      /\ made' = made /\ kind' = kind
      /\ \A t \in Stack : t # s => loop'[t] = loop[t]
  BY DEF Advances, Goes
<1>4. \A t \in Stack : loop'[t] = "none" \/ status'[t] = "Disposed"
  BY <1>3 DEF IInv, TypeOK
<1>5. /\ made' \in 0 .. MaxStacks /\ kind' \in [Stack -> {"sync", "async"}]
      /\ accepted' \in 0 .. MaxResources
      /\ flavour' \in [Resource -> {"await", "plain", "null"}]
  BY <1>3 DEF IInv, TypeOK
<1>6. TypeOK'
  BY <1>2, <1>3, <1>4, <1>5 DEF TypeOK
<1> QED BY <1>2, <1>6 DEF Kept

\* The steps of an open disposal leave what is held.
LEMMA OpenKept ==
    ASSUME IInv, NEW s \in Made, Open(s),
           NEW rest, NEW errs, NEW chain, NEW below,
           Advances(s, rest, errs, chain, below), UNCHANGED <<contents, taken>>
    PROVE  Kept
<1>1. s \in Stack
  BY MadeStacks
<1>2. Ownership'
  BY DEF IInv, Ownership, Unmade, Sorted, Single, Existing, Complete, Made, contents
<1>3. status[s] = "Disposed"
  BY <1>1 DEF Open, IInv, TypeOK
<1>4. /\ accepted' = accepted /\ flavour' = flavour /\ items' = items
      /\ status' = status
      /\ items \in [Stack -> Seq(Resource)] /\ status \in [Stack -> Status]
  BY DEF contents, IInv, TypeOK
<1> QED BY <1>2, <1>3, <1>4, AdvancesTypes

\* A disposer that returns.
LEMMA DisposerReturnsKept ==
    ASSUME IInv, NEW s \in Made, DisposerReturns(s) PROVE Kept
<1>1. s \in Stack
  BY MadeStacks
<1>2. Open(s) /\ Clean(s, Front(frames))
  BY <1>1, DisposerOnTop DEF DisposerReturns
<1>3. CASE kind[s] = "async" /\ flavour[Latest(s)] = "await"
  <2>1. Suspends(s)
    BY <1>3 DEF DisposerReturns, Suspends
  <2>2. Disposals'
    BY <2>1, SuspendsDisposals
  <2>3. Ownership'
    BY <2>1 DEF IInv, Ownership, Unmade, Sorted, Single, Existing, Complete,
                Made, contents, Suspends
  <2>4. /\ loop' \in [Stack -> {"none", "running", "awaiting", "done"}]
        /\ frames' \in Seq(Frame)
        /\ \A t \in Stack : t # s => loop'[t] = loop[t]
    BY <1>1, <1>2, <2>1 DEF Suspends, Clean, IInv, TypeOK
  <2>5. \A t \in Stack : loop'[t] = "none" \/ status'[t] = "Disposed"
    <3>1. status' = status /\ status[s] = "Disposed"
      BY <1>1, <1>2, <2>1 DEF Suspends, contents, Open, IInv, TypeOK
    <3> QED BY <2>4, <3>1 DEF IInv, TypeOK
  <2>6. TypeOK'
    BY <2>1, <2>4, <2>5 DEF Suspends, contents, IInv, TypeOK
  <2> QED BY <2>2, <2>3, <2>6 DEF Kept
<1>4. CASE ~ (kind[s] = "async" /\ flavour[Latest(s)] = "await")
  <2>1. /\ Proceed(s, left[s], errors[s], completion[s], Front(frames))
        /\ UNCHANGED <<contents, taken, failed>>
    BY <1>4 DEF DisposerReturns
  <2>2. Advances(s, left[s], errors[s], completion[s], Front(frames))
    BY <1>1, <1>2, <2>1, GoesOn DEF contents
  <2> QED BY <1>2, <2>1, <2>2, OpenKept
<1> QED BY <1>3, <1>4

\* A disposer that throws, and a loop whose promise was rejected.
LEMMA FailsKept ==
    ASSUME IInv, NEW s \in Made, NEW below, Open(s), Clean(s, below),
           Fails(s, below), UNCHANGED <<contents, taken>>
    PROVE  Kept
<1>1. s \in Stack
  BY MadeStacks
<1>2. PICK errs, chain : Advances(s, left[s], errs, chain, below)
  BY <1>1, GoesOnFailing DEF contents
<1> QED BY <1>2, OpenKept

\* A loop that resumes.
LEMMA LoopResumesKept ==
    ASSUME IInv, NEW s \in Made, LoopResumes(s) PROVE Kept
<1>1. s \in Stack
  BY MadeStacks
<1>2. Open(s) /\ Clean(s, frames)
  <2>1. loop[s] = "awaiting"
    BY DEF LoopResumes
  <2> QED BY <1>1, <2>1, NoDisposer DEF Open
<1>3. UNCHANGED <<contents, taken>>
  BY DEF LoopResumes
<1>4. CASE Proceed(s, left[s], errors[s], completion[s], frames) /\ UNCHANGED failed
  <2>1. Advances(s, left[s], errors[s], completion[s], frames)
    BY <1>1, <1>2, <1>3, <1>4, GoesOn DEF contents
  <2> QED BY <1>2, <1>3, <2>1, OpenKept
<1>5. CASE Fails(s, frames)
  BY <1>2, <1>3, <1>5, FailsKept
<1> QED BY <1>4, <1>5 DEF LoopResumes

\* dispose() and disposeAsync().
LEMMA DisposeKept ==
    ASSUME IInv, NEW s \in Made, Dispose(s) PROVE Kept
<1>1. s \in Stack
  BY MadeStacks
<1>2. Advances(s, items[s], <<>>, <<>>, frames)
  BY <1>1, DisposeAdvances
<1>3. Ownership'
  BY DisposeOwns
<1>4. /\ accepted' = accepted /\ flavour' = flavour
      /\ items' = [items EXCEPT ![s] = <<>>]
      /\ status' = [status EXCEPT ![s] = "Disposed"]
  BY DEF Dispose, Disposes
<1>5. <<>> \in Seq(Resource) /\ "Disposed" \in Status
  BY SMT DEF Status
<1>6. /\ items' \in [Stack -> Seq(Resource)] /\ status' \in [Stack -> Status]
      /\ status'[s] = "Disposed"
      /\ \A t \in Stack : t # s => status'[t] = status[t]
  BY <1>1, <1>4, <1>5 DEF IInv, TypeOK
<1> QED BY <1>2, <1>3, <1>4, <1>6, AdvancesTypes

\* A resource is accepted, and the frame of its use() ends.
LEMMA AcceptKept ==
    ASSUME IInv, NEW s \in Made, NEW f \in {"await", "plain", "null"}, Accept(s, f),
           frames' \in Seq(Frame),
           \A i \in DOMAIN frames' : i \in DOMAIN frames /\ frames'[i] = frames[i]
    PROVE  Kept
<1>1. s \in Stack
  BY MadeStacks
<1>2. Ownership'
  BY AcceptOwns
<1>3. Quiet
  BY DEF Accept, Quiet, disposal, Made
<1>4. Disposals'
  BY <1>3, QuietDisposals
<1>5. accepted + 1 \in Resource /\ accepted' \in 0 .. MaxResources
  BY BoundsAssumption, SMT DEF Accept, IInv, TypeOK, Resource
<1>6. /\ items \in [Stack -> Seq(Resource)]
      /\ flavour \in [Resource -> {"await", "plain", "null"}]
  BY DEF IInv, TypeOK
<1>7. items' \in [Stack -> Seq(Resource)]
  <2>1. Append(items[s], accepted + 1) \in Seq(Resource)
    BY <1>1, <1>5, <1>6, Appended
  <2> QED BY <1>1, <1>6, <2>1 DEF Accept
<1>8. flavour' \in [Resource -> {"await", "plain", "null"}]
  BY <1>5, <1>6 DEF Accept
<1>9. TypeOK'
  BY <1>5, <1>7, <1>8 DEF Accept, disposal, IInv, TypeOK
<1> QED BY <1>2, <1>4, <1>9 DEF Kept

\* The end of a use().
LEMMA UseEnds ==
    ASSUME IInv, NEW s, On("use", s), frames' = Front(frames)
    PROVE  /\ frames' \in Seq(Frame)
           /\ \A i \in DOMAIN frames' : i \in DOMAIN frames /\ frames'[i] = frames[i]
  BY Fronted DEF On, IInv, TypeOK

\* A step that changes the frames of use() only.
LEMMA FramesKept ==
    ASSUME IInv, UNCHANGED <<contents, disposal, taken>>, frames' \in Seq(Frame),
           \A i \in DOMAIN frames' :
              \/ i \in DOMAIN frames /\ frames'[i] = frames[i]
              \/ frames'[i].what = "use" /\ frames'[i].stack \in Made
    PROVE  Kept
<1>1. Quiet
  BY DEF Quiet, contents, disposal, Made
<1>2. Disposals'
  BY <1>1, QuietDisposals
<1>3. Ownership'
  BY DEF IInv, Ownership, Unmade, Sorted, Single, Existing, Complete, Made, contents
<1>4. TypeOK'
  BY DEF contents, disposal, IInv, TypeOK
<1> QED BY <1>2, <1>3, <1>4 DEF Kept

\* use() begins.
LEMMA UseBeginsKept ==
    ASSUME IInv, NEW s \in Made, UseBegins(s) PROVE Kept
<1> DEFINE u == [what |-> "use", stack |-> s]
<1>1. u \in Frame /\ u.what = "use" /\ u.stack = s
  BY MadeStacks DEF Frame
<1>2. frames \in Seq(Frame) /\ frames' = Append(frames, u)
  BY DEF UseBegins, IInv, TypeOK
<1> HIDE DEF u
<1>3. /\ Append(frames, u) \in Seq(Frame)
      /\ Append(frames, u)[Len(frames) + 1] = u
      /\ \A i \in 1 .. Len(frames) : Append(frames, u)[i] = frames[i]
      /\ DOMAIN Append(frames, u) = 1 .. Len(frames) + 1
      /\ Len(frames) \in Nat /\ DOMAIN frames = 1 .. Len(frames)
  BY <1>1, <1>2, Appended
<1>4. \A i \in 1 .. Len(frames) + 1 : i \in 1 .. Len(frames) \/ i = Len(frames) + 1
  BY <1>3, SMT
<1>5. \A i \in DOMAIN frames' :
         \/ i \in DOMAIN frames /\ frames'[i] = frames[i]
         \/ frames'[i].what = "use" /\ frames'[i].stack \in Made
  BY <1>1, <1>2, <1>3, <1>4
<1> QED BY <1>2, <1>3, <1>5, FramesKept DEF UseBegins

\* A stack is constructed.
LEMMA NewKept ==
    ASSUME IInv, NEW k \in {"sync", "async"}, New(k) PROVE Kept
<1>1. /\ made \in Nat /\ made' = made + 1 /\ made' \in 0 .. MaxStacks
      /\ made + 1 \in Stack
      /\ Made \subseteq Made' /\ made + 1 \notin Made
      /\ \A t \in Stack : t > made' => t > made
  BY BoundsAssumption, SMT DEF IInv, TypeOK, Made, Stack, New
<1>2. UNCHANGED <<status, items, accepted, flavour, disposal, frames, taken>>
      /\ kind' = [kind EXCEPT ![made + 1] = k]
      /\ kind \in [Stack -> {"sync", "async"}]
  BY DEF New, IInv, TypeOK
<1>3. \A t \in Made : kind'[t] = kind[t]
  BY <1>1, <1>2, MadeStacks
<1>4. Quiet
  BY <1>1, <1>2, <1>3 DEF Quiet, disposal
<1>5. Disposals'
  BY <1>4, QuietDisposals
<1>6. Ownership'
  <2>1. Unmade'
    BY <1>1, <1>2 DEF IInv, Ownership, Unmade
  <2>2. Complete'
    BY <1>1, <1>2 DEF IInv, Ownership, Complete
  <2> QED BY <1>2, <2>1, <2>2 DEF IInv, Ownership, Sorted, Single, Existing
<1>7. TypeOK'
  <2>1. kind' \in [Stack -> {"sync", "async"}]
    BY <1>2
  <2> QED BY <1>1, <1>2, <2>1 DEF disposal, IInv, TypeOK
<1> QED BY <1>5, <1>6, <1>7 DEF Kept

\* move().
LEMMA MoveKept ==
    ASSUME IInv, NEW s \in Made, Move(s) PROVE Kept
<1> DEFINE n == made + 1
<1>1. /\ made \in Nat /\ made' = n /\ made' \in 0 .. MaxStacks
      /\ n \in Stack /\ Made \subseteq Made' /\ n \notin Made
  BY BoundsAssumption, SMT DEF IInv, TypeOK, Made, Stack, Move
<1>2. s \in Stack
  BY MadeStacks
<1>3. /\ kind' = [kind EXCEPT ![n] = kind[s]]
      /\ items' = [items EXCEPT ![n] = items[s], ![s] = <<>>]
      /\ status' = [status EXCEPT ![s] = "Disposed"]
      /\ UNCHANGED <<accepted, flavour, disposal, frames, taken>>
  BY DEF Move
<1>4. /\ kind \in [Stack -> {"sync", "async"}]
      /\ items \in [Stack -> Seq(Resource)]
      /\ status \in [Stack -> Status]
      /\ <<>> \in Seq(Resource) /\ "Disposed" \in Status
  BY SMT DEF IInv, TypeOK, Status
<1> HIDE DEF n
<1>5. \A t \in Made : kind'[t] = kind[t]
  BY <1>1, <1>3, <1>4, MadeStacks
<1>6. Quiet
  BY <1>1, <1>3, <1>5 DEF Quiet, disposal
<1>7. Disposals'
  BY <1>6, QuietDisposals
<1>8. Ownership'
  BY MoveOwns
<1>9. TypeOK'
  <2>1. /\ kind' \in [Stack -> {"sync", "async"}]
        /\ items' \in [Stack -> Seq(Resource)]
        /\ status' \in [Stack -> Status]
    BY <1>1, <1>2, <1>3, <1>4
  <2>2. \A t \in Stack : loop'[t] = "none" \/ status'[t] = "Disposed"
    BY <1>2, <1>3, <1>4 DEF IInv, TypeOK, disposal
  <2> QED BY <1>1, <1>3, <2>1, <2>2 DEF disposal, IInv, TypeOK
<1> QED BY <1>7, <1>8, <1>9 DEF Kept

\* The initial state.
LEMMA IInvInit == Init => IInv
<1> SUFFICES ASSUME Init PROVE IInv
  OBVIOUS
<1>1. <<>> \in Seq(Resource) /\ <<>> \in Seq(Frame) /\ DOMAIN <<>> = {}
      /\ Reverse(<<>>) = <<>> /\ <<>> \o <<>> = <<>>
  <2>1. DOMAIN <<>> = {}
    BY SMT
  <2> QED BY <2>1, SMT DEF Reverse
<1>2. TypeOK
  BY <1>1, BoundsAssumption, SMT DEF Init, TypeOK, Status
<1>3. \A t \in Stack : /\ items[t] = <<>> /\ taken[t] = <<>> /\ left[t] = <<>>
                       /\ called[t] = <<>> /\ errors[t] = <<>>
                       /\ completion[t] = <<>> /\ loop[t] = "none"
                       /\ status[t] = "Pending"
  BY DEF Init
<1>4. accepted = 0 /\ frames = <<>> /\ failed = {}
  BY DEF Init
<1>5. Ownership
  <2>1. Unmade /\ Sorted
    BY <1>3, EmptyHas DEF Unmade, Sorted
  <2>2. Single /\ Existing
    BY <1>3, EmptyHas DEF Single, Existing
  <2>3. Complete
    <3>1. 1 .. accepted = {}
      BY <1>4, SMT
    <3> QED BY <3>1 DEF Complete
  <2> QED BY <2>1, <2>2, <2>3 DEF Ownership
<1>6. Loops
  BY <1>1, <1>3 DEF Loops, Open
<1>7. Nested /\ FailedCalled
  BY <1>1, <1>4 DEF Nested, FailedCalled
<1>8. Reported
  <2>1. \A t \in Stack : Report(t) = <<>>
    BY <1>1, <1>3 DEF Report
  <2> QED BY <1>3, <2>1, EmptyHas DEF Reported
<1> QED BY <1>2, <1>5, <1>6, <1>7, <1>8 DEF IInv

\* Every step keeps the invariant.
LEMMA IInvStep == IInv /\ [Next]_vars => IInv'
<1> SUFFICES ASSUME IInv, [Next]_vars PROVE IInv'
  OBVIOUS
<1>1. CASE UNCHANGED vars
  BY <1>1 DEF vars, contents, disposal, IInv, TypeOK, Ownership, Unmade, Sorted,
              Single, Existing, Complete, Made, Loops, Open, Nested, FailedCalled,
              Latest, Reported, Report
<1>2. ASSUME NEW k \in {"sync", "async"}, New(k) PROVE Kept
  BY <1>2, NewKept
<1>3. ASSUME NEW s \in Made, UseBegins(s) PROVE Kept
  BY <1>3, UseBeginsKept
<1>4. ASSUME NEW s \in Made, UseAccepts(s) PROVE Kept
  <2>1. PICK f \in Methods(s) : Accept(s, f)
    BY <1>4 DEF UseAccepts
  <2>2. f \in {"await", "plain", "null"}
    BY DEF Methods
  <2> QED BY <1>4, <2>1, <2>2, UseEnds, AcceptKept DEF UseAccepts
<1>5. ASSUME NEW s \in Made, UseThrows(s) PROVE Kept
  <2>1. /\ frames' \in Seq(Frame)
        /\ \A i \in DOMAIN frames' : i \in DOMAIN frames /\ frames'[i] = frames[i]
    BY <1>5, UseEnds DEF UseThrows
  <2> QED BY <1>5, <2>1, FramesKept DEF UseThrows
<1>6. ASSUME NEW s \in Made, UseNull(s) PROVE Kept
  BY <1>6, AcceptKept DEF UseNull, IInv, TypeOK
<1>7. ASSUME NEW s \in Made, Adopt(s) PROVE Kept
  <2>1. Adopted(s) \in {"await", "plain", "null"}
    BY DEF Adopted
  <2> QED BY <1>7, <2>1, AcceptKept DEF Adopt, IInv, TypeOK
<1>8. ASSUME NEW s \in Made, Move(s) PROVE Kept
  BY <1>8, MoveKept
<1>9. ASSUME NEW s \in Made, Dispose(s) PROVE Kept
  BY <1>9, DisposeKept
<1>10. ASSUME NEW s \in Made, DisposerReturns(s) PROVE Kept
  BY <1>10, DisposerReturnsKept
<1>11. ASSUME NEW s \in Made, DisposerThrows(s) PROVE Kept
  <2>1. Open(s) /\ Clean(s, Front(frames))
    BY <1>11, MadeStacks, DisposerOnTop DEF DisposerThrows
  <2> QED BY <1>11, <2>1, FailsKept DEF DisposerThrows
<1>12. ASSUME NEW s \in Made, LoopResumes(s) PROVE Kept
  BY <1>12, LoopResumesKept
<1>13. Kept => IInv'
  BY DEF Kept, Disposals, IInv
<1> QED BY <1>1, <1>2, <1>3, <1>4, <1>5, <1>6, <1>7, <1>8, <1>9, <1>10, <1>11,
           <1>12, <1>13 DEF Next

\* The invariant holds in every reachable state.
THEOREM Invariance == Spec => []IInv
<1> QED BY IInvInit, IInvStep, PTL DEF Spec

\* Every variable has its type, and a stack whose disposal has begun is
\* marked Disposed: no operation sees it as pending while its disposers run.
THEOREM TypeCorrect == Spec => []TypeOK
<1>1. IInv => TypeOK
  BY DEF IInv
<1> QED BY <1>1, Invariance, PTL

\* Contains is Has.
LEMMA ContainsHas ==
    ASSUME NEW q \in Seq(Resource), NEW r
    PROVE  Contains(q, r) <=> Has(q, r)
<1>1. DOMAIN q = 1 .. Len(q)
  BY LenProperties
<1> QED BY <1>1 DEF Contains, Has

\* What a disposal found is what it has left and what it has called.
LEMMA FoundHas ==
    ASSUME IInv, NEW s \in Stack, NEW r
    PROVE  Has(taken[s], r) <=> Has(left[s], r) \/ Has(called[s], r)
<1>1. /\ left[s] \in Seq(Resource) /\ called[s] \in Seq(Resource)
      /\ taken[s] = left[s] \o Reverse(called[s])
  BY DEF IInv, TypeOK, Loops
<1>2. Reverse(called[s]) \in Seq(Resource)
      /\ (Has(Reverse(called[s]), r) <=> Has(called[s], r))
  BY <1>1, Reversed, HasReverse
<1> QED BY <1>1, <1>2, HasConcat

\* The order in which a disposal found, left and called its resources.
LEMMA FoundAscending ==
    ASSUME IInv, NEW s \in Stack
    PROVE  /\ \A i, j \in DOMAIN called[s] : i < j => called[s][i] > called[s][j]
           /\ \A x, y : Has(left[s], x) /\ Has(called[s], y) => x < y
<1>1. /\ left[s] \in Seq(Resource) /\ called[s] \in Seq(Resource)
      /\ taken[s] = left[s] \o Reverse(called[s]) /\ Ascending(taken[s])
  BY DEF IInv, TypeOK, Loops, Ownership, Sorted
<1>2. /\ left[s] \in Seq(Nat) /\ called[s] \in Seq(Nat)
      /\ Ascending(left[s] \o Reverse(called[s]))
  BY <1>1, ResourcesAreNumbers
<1> QED BY <1>2, FoundInOrder

\* A resource has one place.
LEMMA OnePlace ==
    ASSUME IInv, NEW r \in 1 .. accepted
    PROVE  \E p : Places(r) = {p}
<1> DEFINE Held(x) == Has(items[x], r)
           Left(x) == Has(left[x], r)
           Called(x) == Has(called[x], r)
<1>1. r \in Resource /\ Made \subseteq Stack
  BY MadeStacks, BoundsAssumption, SMT DEF IInv, TypeOK, Resource
<1>2. ASSUME NEW x \in Made
      PROVE  /\ Contains(items[x], r) <=> Held(x)
             /\ Contains(left[x], r) <=> Left(x)
             /\ Contains(called[x], r) <=> Called(x)
             /\ Has(taken[x], r) <=> Left(x) \/ Called(x)
             /\ ~ (Left(x) /\ Called(x))
  <2>1. /\ x \in Stack /\ items[x] \in Seq(Resource) /\ left[x] \in Seq(Resource)
        /\ called[x] \in Seq(Resource)
    BY <1>1 DEF IInv, TypeOK
  <2>2. ~ (Left(x) /\ Called(x))
    <3>1. ~ r < r
      BY <1>1, ResourcesAreNumbers, SMT
    <3> QED BY <2>1, <3>1, FoundAscending
  <2> QED BY <2>1, <2>2, ContainsHas, FoundHas
<1>3. ASSUME NEW x \in Made, NEW y \in Made
      PROVE  /\ Held(x) => ~ Left(y) /\ ~ Called(y)
             /\ Held(x) /\ Held(y) => x = y
             /\ (Left(x) \/ Called(x)) /\ (Left(y) \/ Called(y)) => x = y
  <2>1. x \in Stack /\ y \in Stack
    BY <1>1
  <2>2. /\ Has(items[x], r) => ~ Has(taken[y], r)
        /\ Has(items[x], r) /\ Has(items[y], r) => x = y
        /\ Has(taken[x], r) /\ Has(taken[y], r) => x = y
    BY <1>1, <2>1 DEF IInv, Ownership, Single
  <2>3. /\ Has(taken[x], r) <=> Left(x) \/ Called(x)
        /\ Has(taken[y], r) <=> Left(y) \/ Called(y)
    BY <1>2
  <2> QED BY <2>2, <2>3
<1>4. PICK o \in Made : Held(o) \/ Left(o) \/ Called(o)
  <2>1. PICK o \in Made : Has(items[o], r) \/ Has(taken[o], r)
    BY DEF IInv, Ownership, Complete
  <2> QED BY <1>2, <2>1
<1>5. Places(r) = {<<"held", x>> : x \in {y \in Made : Held(y)}}
                  \cup {<<"taken", x>> : x \in {y \in Made : Left(y)}}
                  \cup {<<"called", x>> : x \in {y \in Made : Called(y)}}
  <2>1. /\ {x \in Made : Contains(items[x], r)} = {y \in Made : Held(y)}
        /\ {x \in Made : Contains(left[x], r)} = {y \in Made : Left(y)}
        /\ {x \in Made : Contains(called[x], r)} = {y \in Made : Called(y)}
    BY <1>2
  <2> QED BY <2>1 DEF Places
<1> HIDE DEF Held, Left, Called
<1>6. CASE Held(o)
  <2>1. /\ {y \in Made : Held(y)} = {o} /\ {y \in Made : Left(y)} = {}
        /\ {y \in Made : Called(y)} = {}
    BY <1>3, <1>6
  <2>2. Places(r) = {<<"held", o>>}
    BY <1>5, <2>1
  <2> QED BY <2>2
<1>7. CASE Left(o)
  <2>1. /\ {y \in Made : Held(y)} = {} /\ {y \in Made : Left(y)} = {o}
        /\ {y \in Made : Called(y)} = {}
    BY <1>2, <1>3, <1>7 DEF Left, Called
  <2>2. Places(r) = {<<"taken", o>>}
    BY <1>5, <2>1
  <2> QED BY <2>2
<1>8. CASE Called(o)
  <2>1. /\ {y \in Made : Held(y)} = {} /\ {y \in Made : Left(y)} = {}
        /\ {y \in Made : Called(y)} = {o}
    BY <1>2, <1>3, <1>8 DEF Left, Called
  <2>2. Places(r) = {<<"called", o>>}
    BY <1>5, <2>1
  <2> QED BY <2>2
<1> QED BY <1>4, <1>6, <1>7, <1>8

\* An accepted resource is held by one stack, left by one disposal or called
\* by one, whatever use(), move() and the disposals do inside one another.
THEOREM OwnedOnceCorrect == Spec => []OwnedOnce
<1>1. IInv => OwnedOnce
  <2> SUFFICES ASSUME IInv, NEW r \in 1 .. accepted PROVE Cardinality(Places(r)) = 1
    BY DEF OwnedOnce
  <2>1. PICK p : Places(r) = {p}
    BY OnePlace
  <2> QED BY <2>1, FS_Singleton
<1> QED BY <1>1, Invariance, PTL

\* A disposal calls what it found in the reverse order of acceptance and
\* skips none.
THEOREM DisposedInReverseCorrect == Spec => []DisposedInReverse
<1>1. IInv => DisposedInReverse
  <2> SUFFICES ASSUME IInv, NEW s \in Made
               PROVE  /\ taken[s] = left[s] \o Reverse(called[s])
                      /\ loop[s] = "done" => left[s] = <<>>
                      /\ \A i, j \in DOMAIN called[s] :
                            i < j => called[s][i] > called[s][j]
    BY DEF DisposedInReverse
  <2>1. s \in Stack
    BY MadeStacks
  <2> QED BY <2>1, FoundAscending DEF IInv, Loops
<1> QED BY <1>1, Invariance, PTL

\* The error of a disposal names each disposer that failed once, a later one
\* before the ones it suppresses, and names no other.
THEOREM ErrorsAllReportedCorrect == Spec => []ErrorsAllReported
<1>1. IInv => ErrorsAllReported
  <2> SUFFICES ASSUME IInv, NEW s \in Made, loop[s] = "done"
               PROVE  /\ Ascending(completion[s])
                      /\ \A r \in Resource :
                            Contains(completion[s], r)
                              <=> Contains(called[s], r) /\ r \in failed
    BY DEF ErrorsAllReported
  <2>1. s \in Stack
    BY MadeStacks
  <2>2. Report(s) = completion[s]
    BY DEF Report
  <2>3. completion[s] \in Seq(Resource) /\ called[s] \in Seq(Resource)
    BY <2>1 DEF IInv, TypeOK
  <2>4. /\ Ascending(completion[s])
        /\ \A r \in Resource :
              Has(completion[s], r) <=> Has(called[s], r) /\ r \in failed
    BY <2>1, <2>2 DEF IInv, Reported
  <2> QED BY <2>3, <2>4, ContainsHas
<1> QED BY <1>1, Invariance, PTL
=============================================================================
