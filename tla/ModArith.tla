------------------------------ MODULE ModArith ------------------------------
(***************************************************************************)
(* Facts about % for a modulus that is not a literal, which is what the    *)
(* index arithmetic of the ring containers rests on, and induction over a  *)
(* set of numbers, for what a walk along links meets.                      *)
(***************************************************************************)
EXTENDS Integers, WellFoundedInduction, TLAPS

\* A remainder is determined by being in range.
LEMMA ModUnique ==
    ASSUME NEW n \in Nat \ {0}, NEW q \in Int, NEW r \in 0..(n - 1)
    PROVE  ((n * q) + r) % n = r
OBVIOUS

\* Every integer is a multiple of n plus its remainder.
LEMMA ModDef ==
    ASSUME NEW n \in Nat \ {0}, NEW a \in Int
    PROVE  /\ a % n \in 0..(n - 1)
           /\ \E q \in Int : a = (n * q) + (a % n)
<1>1. a % n \in 0..(n - 1)
    OBVIOUS
<1>2. a \div n \in Int
    OBVIOUS
<1>3. a = (n * (a \div n)) + (a % n)
    OBVIOUS
<1>. QED  BY <1>1, <1>2, <1>3

\* Remainders do not change when the modulus is added or taken away.
LEMMA ModShift ==
    ASSUME NEW n \in Nat \ {0}, NEW a \in Int
    PROVE  (a + n) % n = a % n /\ (a - n) % n = a % n
<1>1. PICK q \in Int : a = (n * q) + (a % n)
    BY ModDef
<1>2. a % n \in 0..(n - 1)
    BY ModDef
<1>3. a + n = (n * (q + 1)) + (a % n) /\ q + 1 \in Int
    BY <1>1, <1>2
<1>4. a - n = (n * (q - 1)) + (a % n) /\ q - 1 \in Int
    BY <1>1, <1>2
<1>5. ((n * (q + 1)) + (a % n)) % n = a % n
    BY <1>2, <1>3, ModUnique
<1>6. ((n * (q - 1)) + (a % n)) % n = a % n
    BY <1>2, <1>4, ModUnique
<1>. QED  BY <1>3, <1>4, <1>5, <1>6

\* ... nor when a multiple of it is added or taken away.
LEMMA ModAddMultiple ==
    ASSUME NEW n \in Nat \ {0}, NEW k \in Int, NEW a \in Int
    PROVE  (a + (n * k)) % n = a % n
<1>1. PICK q \in Int : a = (n * q) + (a % n)
    BY ModDef
<1>2. PICK r \in 0..(n - 1) : r = a % n
    BY ModDef
<1>3. PICK x \in Int, y \in Int : x = n * q /\ y = n * k
    OBVIOUS
<1>4. a = x + r
    BY <1>1, <1>2, <1>3
<1>5. a + (n * k) = (x + y) + r
    BY <1>3, <1>4
<1>6. n * (q + k) = x + y /\ q + k \in Int
    BY <1>3
<1>7. ((n * (q + k)) + r) % n = r
    BY <1>2, <1>6, ModUnique
<1>. QED  BY <1>2, <1>5, <1>6, <1>7

\* ... nor when the amount added or taken away is any number that n divides.
LEMMA ModMultiple ==
    ASSUME NEW n \in Nat \ {0}, NEW m \in Int, m % n = 0, NEW a \in Int
    PROVE  (a + m) % n = a % n /\ (a - m) % n = a % n
<1>1. PICK k \in Int : m = (n * k) + (m % n)
    BY ModDef
<1>2. m = n * k
    BY <1>1
<1>3. (a + (n * k)) % n = a % n
    BY ModAddMultiple
<1>4. PICK j \in Int : j = -k
    OBVIOUS
<1>5. (a + (n * j)) % n = a % n
    BY ModAddMultiple
<1>6. a + (n * j) = a - (n * k)
    BY <1>4
<1>. QED  BY <1>2, <1>3, <1>5, <1>6

\* The difference of two remainders.
LEMMA ModMinus ==
    ASSUME NEW n \in Nat \ {0}, NEW a \in 0..(n - 1), NEW b \in 0..(n - 1)
    PROVE  (a - b) % n = IF a >= b THEN a - b ELSE (a - b) + n
<1>1. CASE a >= b
    <2>1. a - b \in 0..(n - 1)
        BY <1>1
    <2>2. ((n * 0) + (a - b)) % n = a - b
        BY <2>1, ModUnique
    <2>. QED  BY <1>1, <2>1, <2>2
<1>2. CASE a < b
    <2>1. (a - b) + n \in 0..(n - 1)
        BY <1>2
    <2>2. ((n * (-1)) + ((a - b) + n)) % n = (a - b) + n
        BY <2>1, ModUnique
    <2>3. (n * (-1)) + ((a - b) + n) = a - b
        OBVIOUS
    <2>. QED  BY <1>2, <2>2, <2>3
<1>. QED  BY <1>1, <1>2

\* Two integers less than n apart have different remainders.
LEMMA ModNear ==
    ASSUME NEW n \in Nat \ {0}, NEW a \in Int, NEW b \in Int, a < b, b - a < n
    PROVE  a % n # b % n
<1>1. PICK p \in Int : a = (n * p) + (a % n)
    BY ModDef
<1>2. PICK q \in Int : b = (n * q) + (b % n)
    BY ModDef
<1>3. SUFFICES ASSUME a % n = b % n PROVE FALSE
    OBVIOUS
<1>4. a % n \in 0..(n - 1)
    BY ModDef
<1>5. b - a = (n * q) - (n * p)
    BY <1>1, <1>2, <1>3, <1>4
<1>6. (n * q) - (n * p) = n * (q - p)
    OBVIOUS
<1>7. q - p > 0 => n * (q - p) >= n
    OBVIOUS
<1>8. q - p <= 0 => n * (q - p) <= 0
    OBVIOUS
<1>. QED  BY <1>5, <1>6, <1>7, <1>8

\* The successor of a remainder.
LEMMA ModSucc ==
    ASSUME NEW n \in Nat \ {0}, NEW a \in 0..(n - 1)
    PROVE  (a + 1) % n = IF a = n - 1 THEN 0 ELSE a + 1
<1>1. CASE a = n - 1
    <2>1. ((n * 1) + 0) % n = 0
        BY ModUnique
    <2>. QED  BY <1>1, <2>1
<1>2. CASE a # n - 1
    <2>1. ((n * 0) + (a + 1)) % n = a + 1
        BY <1>2, ModUnique
    <2>. QED  BY <1>2, <2>1
<1>. QED  BY <1>1, <1>2

\* Taking a remainder early changes nothing.
LEMMA ModAddMod ==
    ASSUME NEW n \in Nat \ {0}, NEW a \in Int, NEW b \in Int
    PROVE  ((a % n) + b) % n = (a + b) % n
<1>1. PICK q \in Int : a = (n * q) + (a % n)
    BY ModDef
<1>2. PICK r \in 0..(n - 1) : r = a % n
    BY ModDef
<1>3. PICK x \in Int : x = n * q
    OBVIOUS
<1>4. a + b = (r + b) + (n * q)
    BY <1>1, <1>2, <1>3
<1>5. ((r + b) + (n * q)) % n = (r + b) % n
    BY ModAddMultiple, r + b \in Int
<1>. QED  BY <1>2, <1>4, <1>5

\* A number in range is its own remainder.
LEMMA ModSmall ==
    ASSUME NEW n \in Nat \ {0}, NEW a \in 0..(n - 1)
    PROVE  a % n = a
<1>1. ((n * 0) + a) % n = a
    BY ModUnique
<1>. QED  BY <1>1

-----------------------------------------------------------------------------
\* A set of natural numbers that is not empty has a least member.
LEMMA SmallestOf ==
    ASSUME NEW T, T \subseteq Nat, T # {}
    PROVE  \E n \in T : \A x \in T : n <= x
<1> DEFINE R == OpToRel(<, Nat)
<1>1. IsWellFoundedOn(R, Nat)
    BY NatLessThanWellFounded, Zenon
<1>2. PICK n \in T : \A y \in T : ~(<<y, n>> \in R)
    <2>. HIDE DEF R
    <2>. QED  BY <1>1, WFMin
<1>3. \A y \in Nat : y < n => <<y, n>> \in R
    BY SMT DEF OpToRel
<1>4. \A x \in T : ~(x < n)
    BY <1>2, <1>3
<1>. QED  BY <1>4

\* A set that has 0 and, with a number, its successor has every natural number.
LEMMA SetInduction ==
    ASSUME NEW T, 0 \in T, \A n \in Nat : n \in T => n + 1 \in T
    PROVE  \A n \in Nat : n \in T
<1>1. SUFFICES ASSUME Nat \ T # {} PROVE FALSE
    OBVIOUS
<1>2. PICK x \in Nat \ T : \A y \in Nat \ T : x <= y
    BY <1>1, SmallestOf
<1>3. x \in Nat /\ x # 0 /\ x - 1 \in Nat /\ (x - 1) + 1 = x /\ x - 1 < x
    OBVIOUS
<1>4. x - 1 \in T
    BY <1>2, <1>3
<1>. QED  BY <1>3, <1>4

\* A function is defined by its first value and the step from each to the next.
StepsIn(S, N, step) == \A i \in 1..N : \A x \in S : step[i][x] \in S
FollowsSteps(S, N, c, step, f) ==
    f \in [0..N -> S] /\ f[0] = c /\ \A i \in 1..N : f[i] = step[i][f[i - 1]]

LEMMA StepsExist ==
    ASSUME NEW S, NEW N \in Nat, NEW c \in S, NEW step, StepsIn(S, N, step)
    PROVE  \E f : FollowsSteps(S, N, c, step, f)
<1> DEFINE Good(f, j) == f \in [0..j -> S] /\ f[0] = c /\ \A i \in 1..j : f[i] = step[i][f[i - 1]]
           T == {j \in Nat : j <= N => \E f : Good(f, j)}
<1>1. 0 \in T
    <2>1. PICK f : f = [k \in 0..0 |-> c]
        OBVIOUS
    <2>2. Good(f, 0)
        BY <2>1
    <2>. QED  BY <2>2
<1>2. ASSUME NEW j \in Nat, j \in T PROVE j + 1 \in T
    <2>1. SUFFICES ASSUME j + 1 <= N PROVE \E f : Good(f, j + 1)
        OBVIOUS
    <2>2. PICK f : Good(f, j)
        BY <1>2, <2>1
    <2>3. PICK y : y = step[j + 1][f[j]] /\ y \in S
        BY <2>1, <2>2 DEF StepsIn
    <2>4. PICK g : g = [k \in 0..(j + 1) |-> IF k = j + 1 THEN y ELSE f[k]]
        OBVIOUS
    <2>5. g \in [0..(j + 1) -> S]
        BY <2>2, <2>3, <2>4
    <2>6. g[j + 1] = y /\ \A k \in 0..j : g[k] = f[k]
        BY <2>4
    <2>7. g[0] = c
        BY <2>2, <2>6
    <2>8. ASSUME NEW i \in 1..(j + 1) PROVE g[i] = step[i][g[i - 1]]
        <3>1. CASE i = j + 1
            <4>1. i - 1 = j /\ j \in 0..j
                BY <3>1
            <4>. QED  BY <2>3, <2>6, <3>1, <4>1
        <3>2. CASE i # j + 1
            <4>1. i \in 1..j /\ i \in 0..j /\ i - 1 \in 0..j
                BY <3>2
            <4>2. g[i] = f[i] /\ g[i - 1] = f[i - 1]
                BY <2>6, <4>1
            <4>. QED  BY <2>2, <4>1, <4>2
        <3>. QED  BY <3>1, <3>2
    <2>9. Good(g, j + 1)
        BY <2>5, <2>7, <2>8
    <2>. QED  BY <2>9
<1>3. N \in T
    <2>. HIDE DEF T
    <2>. QED  BY <1>1, <1>2, SetInduction
<1>. QED  BY <1>3 DEF FollowsSteps
=============================================================================
