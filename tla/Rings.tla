------------------------------- MODULE Rings -------------------------------
(***************************************************************************)
(* Lemmas about rings: arrays of n cells that are filled and emptied in    *)
(* turn at indices that count modulo n, as the buffer of a pipe is         *)
(* (kernel/pipe.c) and the avail and used rings of the disk                *)
(* (kernel/virtio.h, kernel/virtio_disk.c).                                *)
(***************************************************************************)
EXTENDS Integers, FiniteSetTheorems, TLAPS

\* The cells that hold something are those from index s up to index u, less
\* than a whole turn; e marks an empty cell.
Window(n, e, ring, s, u) ==
  /\ s <= u /\ u < s + n
  /\ \A k \in s .. u - 1 : ring[k % n] # e
  /\ \A c \in 0 .. n - 1 : ring[c] # e => \E k \in s .. u - 1 : c = k % n

(***************************************************************************)
(* Arithmetic of the indices.                                              *)
(***************************************************************************)
\* Division with remainder.
LEMMA DivMod ==
  ASSUME NEW x \in Nat, NEW m \in Nat \ {0}
  PROVE  \E q \in Nat : x = m * q + (x % m)
  <1>1. x % m = x - m * (x \div m)
    OBVIOUS
  <1>2. x \div m \in Nat /\ x % m \in 0 .. m - 1
    OBVIOUS
  <1> DEFINE d == m * (x \div m)
             r == x % m
  <1>3. d \in Int /\ r \in Int /\ r = x - d
    BY <1>1, <1>2
  <1>4. x = d + r
    <2> HIDE DEF d, r
    <2> QED
      BY <1>3
  <1>5. x \div m \in Nat
    BY <1>2
  <1> QED
    BY <1>4, <1>5, Zenon

\* The remainder is the only number below m that differs from x by a multiple.
LEMMA ModUnique ==
  ASSUME NEW m \in Nat \ {0}, NEW q \in Nat, NEW r \in 0 .. m - 1
  PROVE  (m * q + r) % m = r
  OBVIOUS

\* Counting modulo m.
LEMMA NextMod ==
  ASSUME NEW x \in Nat, NEW m \in Nat \ {0}
  PROVE  ((x % m) + 1) % m = (x + 1) % m
  <1> DEFINE r == x % m
  <1>1. PICK q \in Nat : x = m * q + r
    BY DivMod, Zenon
  <1>2. r \in 0 .. m - 1
    OBVIOUS
  <1> HIDE DEF r
  <1>3. CASE r + 1 < m
    <2>1. (m * q + (r + 1)) % m = r + 1
      BY <1>2, <1>3, ModUnique
    <2>2. (m * 0 + (r + 1)) % m = r + 1
      BY <1>2, <1>3, ModUnique
    <2>3. x + 1 = m * q + (r + 1) /\ m * 0 + (r + 1) = r + 1
      BY <1>1, <1>2
    <2> QED
      BY <2>1, <2>2, <2>3 DEF r
  <1>4. CASE r + 1 = m
    <2>1. (m * (q + 1) + 0) % m = 0
      BY ModUnique
    <2>2. (m * 1 + 0) % m = 0
      BY ModUnique
    <2>3. x + 1 = m * (q + 1) + 0 /\ m * 1 + 0 = r + 1
      BY <1>1, <1>2, <1>4
    <2> QED
      BY <2>1, <2>2, <2>3 DEF r
  <1> QED
    BY <1>2, <1>3, <1>4

\* A remainder modulo a multiple of m has the same remainder modulo m.
LEMMA ModMod ==
  ASSUME NEW x \in Nat, NEW m \in Nat \ {0}, NEW w \in Nat \ {0}, w % m = 0
  PROVE  (x % w) % m = x % m
  <1> DEFINE r == x % w
  <1>1. PICK q \in Nat : x = w * q + r
    BY DivMod, Zenon
  <1>2. PICK k \in Nat : w = m * k
    <2>1. PICK k \in Nat : w = m * k + (w % m)
      BY DivMod, Zenon
    <2> QED
      BY <2>1
  <1>3. r \in Nat
    OBVIOUS
  <1>4. PICK j \in Nat : r = m * j + (r % m)
    BY <1>3, DivMod, Zenon
  <1>5. r % m \in 0 .. m - 1
    OBVIOUS
  <1> DEFINE s == r % m
  <1> HIDE DEF r, s
  <1>6. x = m * (k * q + j) + s
    <2>1. (m * k) * q = m * (k * q)
      OBVIOUS
    <2>2. m * (k * q + j) = m * (k * q) + m * j
      OBVIOUS
    <2>3. x = (m * k) * q + r
      BY <1>1, <1>2
    <2>4. m * (k * q) \in Int /\ m * j \in Int /\ s \in Int
      BY <1>5 DEF s
    <2>5. r = m * j + s
      BY <1>4 DEF s
    <2> DEFINE A == m * (k * q)
               B == m * j
    <2>6. A \in Int /\ B \in Int /\ x = A + r /\ r = B + s /\ m * (k * q + j) = A + B
      BY <2>1, <2>2, <2>3, <2>4, <2>5
    <2> HIDE DEF A, B
    <2> QED
      BY <2>4, <2>6
  <1>7. k * q + j \in Nat /\ s \in 0 .. m - 1
    BY <1>5 DEF s
  <1>8. (m * (k * q + j) + s) % m = s
    BY <1>7, ModUnique
  <1> QED
    BY <1>6, <1>8 DEF r, s

\* Reducing a term modulo a multiple of m does not change a sum modulo m.
LEMMA AddMod ==
  ASSUME NEW x \in Nat, NEW j \in Nat, NEW m \in Nat \ {0}, NEW w \in Nat \ {0}, w % m = 0
  PROVE  ((x % w) + j) % m = (x + j) % m
  <1> DEFINE r == x % w
  <1>1. r \in Nat
    OBVIOUS
  <1>2. PICK q \in Nat : x = w * q + r
    BY DivMod, Zenon
  <1>3. PICK k \in Nat : w = m * k + (w % m)
    BY DivMod, Zenon
  <1> HIDE DEF r
  <1>4. w = m * k
    BY <1>3
  <1>5. PICK a \in Nat : r + j = m * a + ((r + j) % m)
    <2>1. r + j \in Nat
      BY <1>1
    <2> QED
      BY <2>1, DivMod, Zenon
  <1> DEFINE v == (r + j) % m
  <1>6. v \in 0 .. m - 1
    <2>1. r + j \in Nat
      BY <1>1
    <2> QED
      BY <2>1
  <1> HIDE DEF v
  <1>7. k * q \in Nat /\ m * k * q = m * (k * q)
    OBVIOUS
  <1>8. x + j = m * (k * q + a) + v /\ k * q + a \in Nat
    <2>1. x + j = w * q + (r + j)
      BY <1>1, <1>2
    <2>2. w * q = m * (k * q)
      BY <1>4, <1>7
    <2>3. r + j = m * a + v
      BY <1>5 DEF v
    <2>4. m * (k * q) + m * a = m * (k * q + a)
      BY <1>7
    <2>5. m * (k * q) \in Int /\ m * a \in Int /\ v \in Int /\ k * q + a \in Nat
      BY <1>6, <1>7
    <2> QED
      BY <2>1, <2>2, <2>3, <2>4, <2>5
  <1>9. (m * (k * q + a) + v) % m = v
    BY <1>6, <1>8, ModUnique, Zenon
  <1> QED
    BY <1>8, <1>9, Zenon DEF v, r

\* Numbers less than m apart have different remainders.
LEMMA ModApart ==
  ASSUME NEW x \in Nat, NEW y \in Nat, NEW m \in Nat \ {0}, x < y, y < x + m
  PROVE  x % m # y % m
  <1> SUFFICES ASSUME x % m = y % m PROVE FALSE
    OBVIOUS
  <1>1. PICK a \in Nat : x = m * a + (x % m)
    BY DivMod, Zenon
  <1>2. PICK b \in Nat : y = m * b + (y % m)
    BY DivMod, Zenon
  <1>3. x % m \in Int
    OBVIOUS
  <1>4. y - x = m * b - m * a
    BY <1>1, <1>2, <1>3
  <1>5. m * b - m * a = m * (b - a)
    OBVIOUS
  <1>6. CASE b - a <= 0
    BY <1>4, <1>5, <1>6
  <1>7. CASE b - a >= 1
    <2>1. m * (b - a) >= m * 1
      BY <1>7
    <2> QED
      BY <1>4, <1>5, <2>1
  <1> QED
    BY <1>6, <1>7

\* Where an index points, and that indices less than a turn apart point at
\* different cells.
LEMMA Cell ==
  ASSUME NEW n \in Nat \ {0}, NEW x \in Nat
  PROVE  /\ x % n \in 0 .. n - 1
         /\ \A y \in Nat : x < y /\ y < x + n => x % n # y % n
  <1>1. x % n \in 0 .. n - 1
    OBVIOUS
  <1>2. \A y \in Nat : x < y /\ y < x + n => x % n # y % n
    BY ModApart, Zenon
  <1> QED
    BY <1>1, <1>2

(***************************************************************************)
(* Rings.                                                                  *)
(***************************************************************************)
\* What is put in the next cell of a ring that has room overwrites nothing.
LEMMA WindowPush ==
  ASSUME NEW n \in Nat \ {0}, NEW V, NEW e, e \notin V,
         NEW ring \in [0 .. n - 1 -> V \cup {e}], NEW s \in Nat, NEW u \in Nat,
         Window(n, e, ring, s, u), u + 1 < s + n, NEW v \in V
  PROVE  /\ ring[u % n] = e
         /\ Window(n, e, [ring EXCEPT ![u % n] = v], s, u + 1)
  <1>1. ring[u % n] = e
    <2> SUFFICES ASSUME ring[u % n] # e PROVE FALSE
      OBVIOUS
    <2>1. PICK k \in s .. u - 1 : u % n = k % n
      BY Cell, Zenon DEF Window
    <2>2. k \in Nat /\ k < u /\ u < k + n
      BY DEF Window
    <2> QED
      BY <2>1, <2>2, Cell, Zenon
  <1> DEFINE new == [ring EXCEPT ![u % n] = v]
  <1>2. \A c \in 0 .. n - 1 : new[c] = IF c = u % n THEN v ELSE ring[c]
    OBVIOUS
  <1> HIDE DEF new
  <1>3. s <= u + 1 /\ u + 1 < s + n
    BY DEF Window
  <1>4. \A k \in s .. u : new[k % n] # e
    <2> SUFFICES ASSUME NEW k \in s .. u PROVE new[k % n] # e
      BY Zenon
    <2>0. k \in Nat
      OBVIOUS
    <2>1. k % n \in 0 .. n - 1
      BY <2>0, Cell, Zenon
    <2>2. CASE k % n = u % n
      BY <2>1, <2>2, <1>2
    <2>3. CASE k % n # u % n
      <3>1. k \in s .. u - 1
        BY <2>1, <2>3
      <3> QED
        BY <2>1, <2>3, <3>1, <1>2, Zenon DEF Window
    <2> QED
      BY <2>2, <2>3
  <1>5. \A c \in 0 .. n - 1 : new[c] # e => \E k \in s .. u : c = k % n
    <2> SUFFICES ASSUME NEW c \in 0 .. n - 1, new[c] # e PROVE \E k \in s .. u : c = k % n
      OBVIOUS
    <2>1. CASE c = u % n
      <3>1. u \in s .. u
        BY DEF Window
      <3> QED
        BY <2>1, <3>1
    <2>2. CASE c # u % n
      <3>1. PICK k \in s .. u - 1 : c = k % n
        BY <2>2, <1>2, Zenon DEF Window
      <3>2. k \in s .. u
        OBVIOUS
      <3> QED
        BY <3>1, <3>2
    <2> QED
      BY <2>1, <2>2
  <1>6. (u + 1) - 1 = u
    OBVIOUS
  <1>7. Window(n, e, new, s, u + 1)
    BY <1>3, <1>4, <1>5, <1>6 DEF Window
  <1> QED
    BY <1>1, <1>7 DEF new

\* The first cell of a ring that is not empty holds something; what is left
\* when it is taken is a window again.
LEMMA WindowPop ==
  ASSUME NEW n \in Nat \ {0}, NEW V, NEW e, e \notin V,
         NEW ring \in [0 .. n - 1 -> V \cup {e}], NEW s \in Nat, NEW u \in Nat,
         Window(n, e, ring, s, u), s # u
  PROVE  /\ ring[s % n] \in V
         /\ Window(n, e, [ring EXCEPT ![s % n] = e], s + 1, u)
  <1>1. s < u /\ s \in s .. u - 1 /\ u < s + n
    BY DEF Window
  <1>2. s % n \in 0 .. n - 1 /\ ring[s % n] # e
    BY <1>1, Cell, Zenon DEF Window
  <1> DEFINE new == [ring EXCEPT ![s % n] = e]
  <1>3. \A c \in 0 .. n - 1 : new[c] = IF c = s % n THEN e ELSE ring[c]
    OBVIOUS
  <1> HIDE DEF new
  <1>4. s + 1 <= u /\ u < (s + 1) + n
    BY <1>1
  <1>5. \A k \in s + 1 .. u - 1 : new[k % n] # e
    <2> SUFFICES ASSUME NEW k \in s + 1 .. u - 1 PROVE new[k % n] # e
      BY Zenon
    <2>1. k \in Nat /\ s < k /\ k < s + n /\ k \in s .. u - 1
      BY <1>1
    <2>2. k % n \in 0 .. n - 1 /\ k % n # s % n
      BY <2>1, Cell, Zenon
    <2> QED
      BY <2>1, <2>2, <1>3, Zenon DEF Window
  <1>6. \A c \in 0 .. n - 1 : new[c] # e => \E k \in s + 1 .. u - 1 : c = k % n
    <2> SUFFICES ASSUME NEW c \in 0 .. n - 1, new[c] # e
                 PROVE  \E k \in s + 1 .. u - 1 : c = k % n
      BY Zenon
    <2>1. c # s % n /\ ring[c] # e
      BY <1>3
    <2>2. PICK k \in s .. u - 1 : c = k % n
      BY <2>1, Zenon DEF Window
    <2>3. k \in s + 1 .. u - 1
      BY <2>1, <2>2
    <2> QED
      BY <2>2, <2>3, Zenon
  <1>7. Window(n, e, new, s + 1, u)
    BY <1>4, <1>5, <1>6 DEF Window
  <1> QED
    BY <1>2, <1>7 DEF new

\* The entries of the ring are different members of T.
Distinct(n, e, ring, T) ==
  /\ \A c \in 0 .. n - 1 : ring[c] # e => ring[c] \in T
  /\ \A c, d \in 0 .. n - 1 : ring[c] # e /\ ring[c] = ring[d] => c = d

\* A ring whose entries are different members of T has no more of them than T.
LEMMA WindowBound ==
  ASSUME NEW n \in Nat \ {0}, NEW V, NEW e, e \notin V,
         NEW ring \in [0 .. n - 1 -> V \cup {e}], NEW s \in Nat, NEW u \in Nat,
         Window(n, e, ring, s, u), NEW T, IsFiniteSet(T), Distinct(n, e, ring, T)
  PROVE  u - s <= Cardinality(T) /\ Cardinality(T) \in Nat
  <1> DEFINE S == s .. u - 1
             f == [k \in S |-> ring[k % n]]
  <1>1. \A k \in S : k \in Nat /\ k % n \in 0 .. n - 1
    <2>1. \A k \in S : k \in Nat
      OBVIOUS
    <2> QED
      BY <2>1, Cell, Zenon
  <1>2. \A k \in S : f[k] \in T
    BY <1>1, Zenon DEF Window, Distinct
  <1>3. \A j, k \in S : f[j] = f[k] => j = k
    <2> HIDE DEF S, f
    <2> SUFFICES ASSUME NEW j \in S, NEW k \in S, f[j] = f[k], j < k PROVE FALSE
      BY <1>1
    <2> USE DEF S, f
    <2>1. j % n = k % n
      BY <1>1, Zenon DEF Window, Distinct
    <2>2. k < j + n
      BY DEF Window
    <2> QED
      BY <2>1, <2>2, <1>1, Cell, Zenon
  <1>4. f \in Injection(S, T)
    BY <1>2, <1>3, Zenon DEF Injection, IsInjective
  <1>5. Cardinality(S) <= Cardinality(T)
    BY <1>4, FS_Injection
  <1>6. Cardinality(S) = u - s
    <2>1. s \in Int /\ u - 1 \in Int /\ s <= u
      BY DEF Window
    <2>2. Cardinality(S) = IF s > u - 1 THEN 0 ELSE (u - 1) - s + 1
      BY <2>1, FS_Interval, Zenon
    <2> QED
      BY <2>1, <2>2
  <1> QED
    BY <1>5, <1>6, FS_CardinalityType
=============================================================================
