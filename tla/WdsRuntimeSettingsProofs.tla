----------------------- MODULE WdsRuntimeSettingsProofs -----------------------
(***************************************************************************)
(* Proofs about mm_wds_get_runtime_settings (WdsRuntimeSettings): the      *)
(* prefix length the mask loop computes is the one the subnet mask         *)
(* encodes, for every mask width up to the 32 bits of SubnetMaskV4.  TLC   *)
(* checks the same property for an 8-bit mask with every mask value.      *)
(*                                                                         *)
(* The provers know 2^k only for a literal k, so the facts about powers of *)
(* two are proved for each exponent the 32-bit mask can need: the          *)
(* doubling step by evaluating every case, the splitting of a power by     *)
(* applying that step once per exponent.                                   *)
(***************************************************************************)
EXTENDS WdsRuntimeSettings, TLAPS

-----------------------------------------------------------------------------
(* Powers of two.                                                          *)

LEMMA Pow2Double ==
  ASSUME NEW k \in 0 .. 31
  PROVE  2^k \in Nat \ {0} /\ 2^(k+1) = 2 * 2^k
<1>0. CASE k = 0
  BY <1>0
<1>1. CASE k = 1
  BY <1>1
<1>2. CASE k = 2
  BY <1>2
<1>3. CASE k = 3
  BY <1>3
<1>4. CASE k = 4
  BY <1>4
<1>5. CASE k = 5
  BY <1>5
<1>6. CASE k = 6
  BY <1>6
<1>7. CASE k = 7
  BY <1>7
<1>8. CASE k = 8
  BY <1>8
<1>9. CASE k = 9
  BY <1>9
<1>10. CASE k = 10
  BY <1>10
<1>11. CASE k = 11
  BY <1>11
<1>12. CASE k = 12
  BY <1>12
<1>13. CASE k = 13
  BY <1>13
<1>14. CASE k = 14
  BY <1>14
<1>15. CASE k = 15
  BY <1>15
<1>16. CASE k = 16
  BY <1>16
<1>17. CASE k = 17
  BY <1>17
<1>18. CASE k = 18
  BY <1>18
<1>19. CASE k = 19
  BY <1>19
<1>20. CASE k = 20
  BY <1>20
<1>21. CASE k = 21
  BY <1>21
<1>22. CASE k = 22
  BY <1>22
<1>23. CASE k = 23
  BY <1>23
<1>24. CASE k = 24
  BY <1>24
<1>25. CASE k = 25
  BY <1>25
<1>26. CASE k = 26
  BY <1>26
<1>27. CASE k = 27
  BY <1>27
<1>28. CASE k = 28
  BY <1>28
<1>29. CASE k = 29
  BY <1>29
<1>30. CASE k = 30
  BY <1>30
<1>31. CASE k = 31
  BY <1>31
<1> QED
  BY <1>0, <1>1, <1>2, <1>3, <1>4, <1>5, <1>6, <1>7, <1>8, <1>9, <1>10, <1>11, <1>12, <1>13, <1>14, <1>15, <1>16, <1>17, <1>18, <1>19, <1>20, <1>21, <1>22, <1>23, <1>24, <1>25, <1>26, <1>27, <1>28, <1>29, <1>30, <1>31

LEMMA Pow2Positive ==
  ASSUME NEW k \in 0 .. 32
  PROVE  2^k \in Nat \ {0}
<1>1. CASE k \in 0 .. 31
  BY <1>1, Pow2Double
<1>2. CASE k = 32
  BY <1>2, Pow2Double
<1> QED
  BY <1>1, <1>2

\* 2^n is 2^(n-j) * 2^j for every j up to n.
SplitsAt(n) == \A j \in 0 .. n : 2^n = 2^(n - j) * 2^j

LEMMA Pow2SplitStep ==
  ASSUME NEW n \in 0 .. 31, SplitsAt(n)
  PROVE  SplitsAt(n + 1)
<1> SUFFICES ASSUME NEW j \in 0 .. n + 1 PROVE 2^(n+1) = 2^(n + 1 - j) * 2^j
  BY DEF SplitsAt
<1>0. n + 1 \in 0 .. 32 /\ n \in 0 .. 31
  OBVIOUS
<1>1. CASE j = n + 1
  <2>1. 2^(n+1) \in Nat
    BY <1>0, Pow2Positive, Zenon
  <2>2. 2^(n + 1 - j) = 2^0
    <3>1. n + 1 - j = 0
      BY <1>1
    <3> QED
      BY <3>1, Zenon
  <2> QED
    BY <2>1, <2>2, <1>1
<1>2. CASE j \in 0 .. n
  <2>0. n - j \in 0 .. 31 /\ j \in 0 .. 32
    BY <1>2
  <2>1. 2^n = 2^(n - j) * 2^j
    BY <1>2 DEF SplitsAt
  <2>2. 2^(n+1) = 2 * 2^n
    BY <1>0, Pow2Double, Zenon
  <2>3. 2^(n - j + 1) = 2 * 2^(n - j) /\ 2^(n - j) \in Nat
    BY <2>0, Pow2Double, Zenon
  <2>4. 2^j \in Nat
    BY <2>0, Pow2Positive, Zenon
  <2>5. 2^(n + 1 - j) = 2^(n - j + 1)
    OBVIOUS
  <2> QED
    BY <2>1, <2>2, <2>3, <2>4, <2>5
<1> QED
  BY <1>1, <1>2

LEMMA Pow2Split ==
  ASSUME NEW n \in 0 .. 32, NEW j \in 0 .. n
  PROVE  2^n = 2^(n - j) * 2^j
<1>0. SplitsAt(0)
  BY DEF SplitsAt
<1>1. SplitsAt(1)
  BY <1>0, Pow2SplitStep
<1>2. SplitsAt(2)
  BY <1>1, Pow2SplitStep
<1>3. SplitsAt(3)
  BY <1>2, Pow2SplitStep
<1>4. SplitsAt(4)
  BY <1>3, Pow2SplitStep
<1>5. SplitsAt(5)
  BY <1>4, Pow2SplitStep
<1>6. SplitsAt(6)
  BY <1>5, Pow2SplitStep
<1>7. SplitsAt(7)
  BY <1>6, Pow2SplitStep
<1>8. SplitsAt(8)
  BY <1>7, Pow2SplitStep
<1>9. SplitsAt(9)
  BY <1>8, Pow2SplitStep
<1>10. SplitsAt(10)
  BY <1>9, Pow2SplitStep
<1>11. SplitsAt(11)
  BY <1>10, Pow2SplitStep
<1>12. SplitsAt(12)
  BY <1>11, Pow2SplitStep
<1>13. SplitsAt(13)
  BY <1>12, Pow2SplitStep
<1>14. SplitsAt(14)
  BY <1>13, Pow2SplitStep
<1>15. SplitsAt(15)
  BY <1>14, Pow2SplitStep
<1>16. SplitsAt(16)
  BY <1>15, Pow2SplitStep
<1>17. SplitsAt(17)
  BY <1>16, Pow2SplitStep
<1>18. SplitsAt(18)
  BY <1>17, Pow2SplitStep
<1>19. SplitsAt(19)
  BY <1>18, Pow2SplitStep
<1>20. SplitsAt(20)
  BY <1>19, Pow2SplitStep
<1>21. SplitsAt(21)
  BY <1>20, Pow2SplitStep
<1>22. SplitsAt(22)
  BY <1>21, Pow2SplitStep
<1>23. SplitsAt(23)
  BY <1>22, Pow2SplitStep
<1>24. SplitsAt(24)
  BY <1>23, Pow2SplitStep
<1>25. SplitsAt(25)
  BY <1>24, Pow2SplitStep
<1>26. SplitsAt(26)
  BY <1>25, Pow2SplitStep
<1>27. SplitsAt(27)
  BY <1>26, Pow2SplitStep
<1>28. SplitsAt(28)
  BY <1>27, Pow2SplitStep
<1>29. SplitsAt(29)
  BY <1>28, Pow2SplitStep
<1>30. SplitsAt(30)
  BY <1>29, Pow2SplitStep
<1>31. SplitsAt(31)
  BY <1>30, Pow2SplitStep
<1>32. SplitsAt(32)
  BY <1>31, Pow2SplitStep
<1>33. \A k \in 0 .. 32 : SplitsAt(k)
  BY <1>0, <1>1, <1>2, <1>3, <1>4, <1>5, <1>6, <1>7, <1>8, <1>9, <1>10, <1>11, <1>12, <1>13, <1>14, <1>15, <1>16, <1>17, <1>18, <1>19, <1>20, <1>21, <1>22, <1>23, <1>24, <1>25, <1>26, <1>27, <1>28, <1>29, <1>30, <1>31, <1>32
<1> QED
  BY <1>33, Zenon DEF SplitsAt

LEMMA MulDiv ==
  ASSUME NEW c \in Nat, NEW q \in Nat \ {0}
  PROVE  (c * q) \div q = c /\ (c * q) % q = 0
OBVIOUS

-----------------------------------------------------------------------------
(* The lowest set bit of a mask.                                           *)

\* Bit z is the lowest set bit of m: the reference TrailingZeros chooses it.
LowestSetBit(m, z) == m % 2^z = 0 /\ (m \div 2^z) % 2 = 1

LEMMA OddMultiple ==
  ASSUME NEW c \in Nat, c % 2 = 1, NEW z \in 0 .. 32
  PROVE  LowestSetBit(c * 2^z, z)
BY Pow2Positive, MulDiv DEF LowestSetBit

LEMMA LowestSetBitUnique ==
  ASSUME NEW m \in Nat, NEW z1 \in 0 .. 32, NEW z2 \in 0 .. 32, z1 < z2,
         LowestSetBit(m, z1), LowestSetBit(m, z2)
  PROVE  FALSE
<1> DEFINE Q1 == 2^z1  R == 2^(z2 - z1 - 1)  Q2 == 2^z2  d == m \div Q2
<1>0. z2 - z1 - 1 \in 0 .. 31 /\ z1 \in 0 .. z2
  OBVIOUS
<1>1. Q1 \in Nat \ {0} /\ Q2 \in Nat \ {0}
  BY Pow2Positive, Zenon
<1>2. Q2 = 2 * R * Q1 /\ R \in Nat
  <2>1. Q2 = 2^(z2 - z1) * Q1
    BY <1>0, Pow2Split, Zenon
  <2>2. 2^(z2 - z1 - 1 + 1) = 2 * R /\ R \in Nat
    BY <1>0, Pow2Double, Zenon
  <2>3. z2 - z1 - 1 + 1 = z2 - z1
    OBVIOUS
  <2> QED
    BY <2>1, <2>2, <2>3
<1>3. d \in Nat /\ m = d * Q2
  BY <1>1 DEF LowestSetBit
<1> HIDE DEF Q1, R, Q2, d
<1>4. m = (2 * d * R) * Q1
  BY <1>1, <1>2, <1>3
<1>5. m \div Q1 = 2 * d * R
  BY <1>1, <1>2, <1>3, <1>4, MulDiv
<1>6. (m \div Q1) % 2 = 1
  BY DEF LowestSetBit, Q1
<1> QED
  BY <1>2, <1>3, <1>5, <1>6

LEMMA TrailingZerosIs ==
  ASSUME NEW m \in Nat, NEW z \in 0 .. Width, LowestSetBit(m, z)
  PROVE  TrailingZeros(m) = z
<1>1. Width \in 1 .. 32
  BY SettingsAssumption
<1>2. \A y \in 0 .. Width : LowestSetBit(m, y) => y = z
  BY <1>1, LowestSetBitUnique
<1> QED
  BY <1>2 DEF TrailingZeros, LowestSetBit

-----------------------------------------------------------------------------
(* The mask loop.                                                          *)

\* What the loop while (!(resp.SubnetMaskV4 & 0x1)) keeps: it runs only for
\* an AF_INET session whose answer had gateway and mask; a zero mask never
\* leaves it; otherwise the mask shifted so far is the sent mask divided by
\* 2^(Width - prefix_length), still non-zero and below 2^prefix_length, and
\* when the loop has left, its lowest bit is set.
LoopInv ==
    /\ sentMask \in Masks
    /\ pc = "shift" =>
          family = "v4" /\ status = "none" /\ gwPresent /\ addrPresent \in BOOLEAN
    /\ pc = "shift" \/ (pc = "done" /\ status = "none" /\ family = "v4" /\ gwPresent) =>
         \/ sentMask = 0 /\ mask = 0 /\ pc = "shift"
         \/ /\ prefix \in 1 .. Width
            /\ mask \in 1 .. 2^prefix - 1
            /\ sentMask = mask * 2^(Width - prefix)
            /\ pc = "done" => mask % 2 = 1

LEMMA InitLoopInv == Init => LoopInv
BY DEF Init, LoopInv

\* One iteration that shifts: the shifted mask is half the mask, and one
\* more factor two moves into the power.
LEMMA ShiftKeepsLoopInv ==
  ASSUME LoopInv, pc = "shift", sentMask # 0, mask % 2 = 0, DeriveV4Prefix
  PROVE  LoopInv'
<1> DEFINE P == 2^prefix  P1 == 2^(prefix - 1)
           E == 2^(Width - prefix)  E1 == 2^(Width - prefix + 1)
<1>0. Width \in 1 .. 32 /\ PrefixFloor \in Int /\ PrefixFloor < 0
  BY SettingsAssumption
<1>1. /\ prefix \in 1 .. Width
      /\ mask \in 1 .. P - 1
      /\ sentMask = mask * E
  BY DEF LoopInv
<1>2. prefix # 1
  <2> SUFFICES ASSUME prefix = 1 PROVE FALSE
    OBVIOUS
  <2>1. P = 2^1
    BY Zenon
  <2>2. 2^1 = 2
    OBVIOUS
  <2> HIDE DEF P
  <2> QED
    BY <1>1, <2>1, <2>2
<1>3. prefix - 1 \in 0 .. 31 /\ Width - prefix \in 0 .. 31
  BY <1>0, <1>1, <1>2
<1>4. P = 2 * P1 /\ P1 \in Nat
  <2>1. 2^((prefix - 1) + 1) = 2 * 2^(prefix - 1) /\ 2^(prefix - 1) \in Nat
    BY <1>3, Pow2Double, Zenon
  <2>2. (prefix - 1) + 1 = prefix
    BY <1>1
  <2> QED
    BY <2>1, <2>2, Zenon
<1>5. E1 = 2 * E /\ E \in Nat
  BY <1>3, Pow2Double, Zenon
<1> HIDE DEF P, P1, E, E1
<1>6. /\ mask' = mask \div 2 /\ prefix' = prefix - 1 /\ pc' = "shift"
      /\ UNCHANGED <<family, status, sentMask, gwPresent, addrPresent>>
  BY <1>0, <1>1, <1>4 DEF DeriveV4Prefix
<1>7. 2^prefix' = P1 /\ 2^(Width - prefix') = E1
  <2>1. Width - prefix' = Width - prefix + 1
    BY <1>0, <1>1, <1>6
  <2> QED
    BY <1>6, <2>1, Zenon DEF P1, E1
<1>8. /\ mask' \in 1 .. P1 - 1
      /\ sentMask' = mask' * E1
      /\ prefix' \in 1 .. Width
  <2>1. mask = 2 * mask' /\ mask' \in 1 .. P1 - 1
    BY <1>1, <1>4, <1>6
  <2>2. sentMask' = mask * E
    BY <1>1, <1>6
  <2>3. mask * E = mask' * E1
    BY <1>5, <2>1
  <2>4. prefix' \in 1 .. Width
    BY <1>0, <1>1, <1>2, <1>6
  <2> QED
    BY <2>1, <2>2, <2>3, <2>4
<1>9. /\ mask' \in 1 .. 2^prefix' - 1
      /\ sentMask' = mask' * 2^(Width - prefix')
  BY <1>7, <1>8, Zenon
<1>10. /\ sentMask' \in Masks /\ family' = "v4" /\ status' = "none" /\ gwPresent'
       /\ addrPresent' \in BOOLEAN
  BY <1>6 DEF LoopInv
<1> QED
  BY <1>6, <1>8, <1>9, <1>10 DEF LoopInv

LEMMA LoopInvStep == LoopInv /\ [Next]_vars => LoopInv'
<1> SUFFICES ASSUME LoopInv, [Next]_vars PROVE LoopInv'
  OBVIOUS
<1>0. Width \in 1 .. 32 /\ Masks \subseteq 0 .. (2^Width - 1)
  BY SettingsAssumption
<1>1. CASE GetRuntimeSettings
  <2>1. 2^(Width - Width) = 1
    <3>1. Width - Width = 0
      BY <1>0
    <3>2. 2^0 = 1
      OBVIOUS
    <3> QED
      BY <3>1, <3>2, Zenon
  <2>2. CASE status' # "none"
    BY <1>1, <2>2 DEF GetRuntimeSettings, LoopInv
  <2>3. CASE status' = "none" /\ (family # "v4" \/ ~gwPresent')
    <3>1. pc' = "done" /\ UNCHANGED <<family, sentMask>>
      BY <1>1, <2>3 DEF GetRuntimeSettings
    <3> QED
      BY <2>3, <3>1 DEF LoopInv
  <2>4. CASE status' = "none" /\ family = "v4" /\ gwPresent'
    <3>1. /\ pc' = "shift" /\ mask' = sentMask /\ prefix' = Width
          /\ UNCHANGED <<family, sentMask>>
      BY <1>1, <2>4 DEF GetRuntimeSettings
    <3>2. /\ sentMask' \in Masks /\ family' = "v4" /\ status' = "none" /\ gwPresent'
          /\ addrPresent' \in BOOLEAN
      <4>1. PICK pres \in SUBSET PresenceBits : addrPresent' = (30 \in pres)
        BY <1>1, <2>4 DEF GetRuntimeSettings
      <4>2. addrPresent' \in BOOLEAN
        BY <4>1
      <4> QED
        BY <2>4, <3>1, <4>2 DEF LoopInv
    <3>3. CASE sentMask = 0
      BY <3>1, <3>2, <3>3 DEF LoopInv
    <3>4. CASE sentMask # 0
      <4>1. 2^(Width - prefix') = 1 /\ 2^prefix' = 2^Width
        BY <2>1, <3>1, Zenon
      <4>2. sentMask \in 1 .. 2^Width - 1
        BY <1>0, <3>4 DEF LoopInv
      <4>3. /\ prefix' \in 1 .. Width
            /\ mask' \in 1 .. 2^prefix' - 1
            /\ sentMask' = mask' * 2^(Width - prefix')
        BY <1>0, <3>1, <4>1, <4>2
      <4> QED
        BY <3>1, <3>2, <4>3 DEF LoopInv
    <3> QED
      BY <3>3, <3>4
  <2> QED
    BY <2>2, <2>3, <2>4 DEF GetRuntimeSettings
<1>2. CASE DeriveV4Prefix
  <2>1. CASE mask % 2 = 1
    <3>1. /\ pc' = "done"
          /\ UNCHANGED <<mask, prefix, family, status, sentMask, gwPresent>>
      BY <1>2, <2>1 DEF DeriveV4Prefix
    <3>2. /\ prefix \in 1 .. Width
          /\ mask \in 1 .. 2^prefix - 1
          /\ sentMask = mask * 2^(Width - prefix)
          /\ family = "v4" /\ status = "none" /\ gwPresent /\ sentMask \in Masks
      BY <1>2, <2>1 DEF DeriveV4Prefix, LoopInv
    <3>3. /\ prefix' \in 1 .. Width
          /\ mask' \in 1 .. 2^prefix' - 1
          /\ sentMask' = mask' * 2^(Width - prefix')
          /\ family' = "v4" /\ status' = "none" /\ gwPresent' /\ sentMask' \in Masks
      BY <3>1, <3>2, Zenon
    <3> QED
      BY <2>1, <3>1, <3>3 DEF LoopInv
  <2>2. CASE mask % 2 # 1 /\ sentMask = 0
    <3>1. pc = "shift" /\ mask = 0
      <4>1. pc = "shift"
        BY <1>2 DEF DeriveV4Prefix
      <4>2. SUFFICES ASSUME prefix \in 1 .. Width, mask \in 1 .. 2^prefix - 1,
                            sentMask = mask * 2^(Width - prefix)
                     PROVE  FALSE
        BY <4>1, <2>2 DEF LoopInv
      <4>3. Width - prefix \in 0 .. 32
        BY <1>0, <4>2
      <4>4. 2^(Width - prefix) \in Nat \ {0}
        BY <4>3, Pow2Positive, Zenon
      <4> QED
        BY <2>2, <4>2, <4>4
    <3> QED
      BY <1>2, <2>2, <3>1 DEF DeriveV4Prefix, LoopInv
  <2>3. CASE mask % 2 # 1 /\ sentMask # 0
    <3>1. pc = "shift" /\ mask \in Int
      BY <1>2, <2>3 DEF DeriveV4Prefix, LoopInv
    <3>2. mask % 2 = 0
      BY <2>3, <3>1
    <3> QED
      BY <1>2, <2>3, <3>1, <3>2, ShiftKeepsLoopInv
  <2> QED
    BY <2>1, <2>2, <2>3
<1>3. CASE Returned \/ UNCHANGED vars
  BY <1>3 DEF Returned, vars, LoopInv
<1> QED
  BY <1>1, <1>2, <1>3 DEF Next

\* A /k subnet mask with k > 0 has its lowest set bit at Width - k.
LEMMA ContiguousMaskLowestBit ==
  ASSUME NEW k \in 1 .. Width
  PROVE  /\ ContiguousMask(k) \in Nat
         /\ LowestSetBit(ContiguousMask(k), Width - k)
<1> DEFINE W == 2^Width  K == 2^k  Z == 2^(Width - k)
<1>0. /\ Width \in 1 .. 32 /\ Width \in 0 .. 32
      /\ Width - k \in 0 .. Width /\ Width - k \in 0 .. 32
      /\ k - 1 \in 0 .. 31
  BY SettingsAssumption
<1>1. W = K * Z
  <2>1. 2^Width = 2^(Width - (Width - k)) * 2^(Width - k)
    BY <1>0, Pow2Split, Zenon
  <2>2. Width - (Width - k) = k
    BY <1>0
  <2> QED
    BY <2>1, <2>2, Zenon
<1>2. K = 2 * 2^(k - 1) /\ 2^(k - 1) \in Nat \ {0}
  <2>1. 2^((k - 1) + 1) = 2 * 2^(k - 1) /\ 2^(k - 1) \in Nat \ {0}
    BY <1>0, Pow2Double, Zenon
  <2>2. (k - 1) + 1 = k
    BY <1>0
  <2> QED
    BY <2>1, <2>2, Zenon
<1>3. Z \in Nat \ {0}
  BY <1>0, Pow2Positive, Zenon
<1> HIDE DEF W, K, Z
<1>4. ContiguousMask(k) = (K - 1) * Z /\ K - 1 \in Nat /\ (K - 1) % 2 = 1
  <2>1. ContiguousMask(k) = W - Z
    BY Zenon DEF ContiguousMask, W, Z
  <2> QED
    BY <1>1, <1>2, <1>3, <2>1
<1>5. LowestSetBit((K - 1) * Z, Width - k)
  BY <1>0, <1>4, OddMultiple, Zenon DEF Z
<1> QED
  BY <1>3, <1>4, <1>5

\* LoopInv gives the property: when the loop has left, the sent mask is an
\* odd number times 2^(Width - prefix_length).
LEMMA LoopInvImpliesProperty == LoopInv => V4PrefixMatchesMask
<1> SUFFICES ASSUME LoopInv, pc = "done", status = "none", family = "v4", gwPresent
             PROVE  /\ sentMask # 0 => prefix = Width - TrailingZeros(sentMask)
                    /\ \A k \in 0 .. Width : sentMask = ContiguousMask(k) => prefix = k
  BY DEF V4PrefixMatchesMask
<1>0. Width \in 1 .. 32
  BY SettingsAssumption
<1>1. /\ prefix \in 1 .. Width
      /\ mask \in 1 .. 2^prefix - 1 /\ mask % 2 = 1
      /\ sentMask = mask * 2^(Width - prefix)
  BY DEF LoopInv
<1>2. Width - prefix \in 0 .. Width /\ Width - prefix \in 0 .. 32
  BY <1>0, <1>1
<1>3. mask \in Nat
  BY <1>1
<1>4. LowestSetBit(sentMask, Width - prefix) /\ sentMask \in Nat \ {0}
  <2>1. 2^(Width - prefix) \in Nat \ {0}
    BY <1>2, Pow2Positive, Zenon
  <2>2. LowestSetBit(mask * 2^(Width - prefix), Width - prefix)
    BY <1>1, <1>2, <1>3, OddMultiple, Zenon
  <2>3. sentMask \in Nat \ {0}
    BY <1>1, <1>3, <2>1
  <2> QED
    BY <1>1, <2>2, <2>3
<1>5. TrailingZeros(sentMask) = Width - prefix
  BY <1>2, <1>4, TrailingZerosIs
<1>6. ASSUME NEW k \in 0 .. Width, sentMask = ContiguousMask(k)
      PROVE  prefix = k
  <2>1. k # 0
    <3>1. ContiguousMask(0) = 0
      <4>1. Width - 0 = Width /\ Width \in 0 .. 32
        BY <1>0
      <4>2. ContiguousMask(0) = 2^Width - 2^Width
        BY <4>1, Zenon DEF ContiguousMask
      <4>3. 2^Width \in Nat
        BY <4>1, Pow2Positive, Zenon
      <4> QED
        BY <4>2, <4>3
    <3> QED
      BY <1>4, <1>6, <3>1
  <2>2. LowestSetBit(sentMask, Width - k) /\ Width - k \in 0 .. Width
    BY <1>0, <1>6, <2>1, ContiguousMaskLowestBit
  <2>3. TrailingZeros(sentMask) = Width - k
    BY <1>4, <2>2, TrailingZerosIs
  <2> QED
    BY <1>0, <1>1, <1>5, <2>3
<1> QED
  BY <1>0, <1>1, <1>5, <1>6

\* mm_wds_get_runtime_settings derives from the subnet mask the prefix
\* length it encodes: Width minus the mask's trailing zero bits, and k for
\* a /k mask (spec.md, GetRuntimeSettings), for every mask width up to
\* the 32 bits of SubnetMaskV4 and every mask the modem may send.
THEOREM V4PrefixMatchesMaskHolds == Spec => []V4PrefixMatchesMask
<1>1. LoopInv /\ [Next]_vars => LoopInv'
  BY LoopInvStep
<1>2. Spec => []LoopInv
  BY <1>1, InitLoopInv, PTL DEF Spec
<1> QED
  BY <1>2, LoopInvImpliesProperty, PTL

-----------------------------------------------------------------------------
(* The function implements the GetRuntimeSettings contract.                *)

\* The loop's exit: an odd shifted mask c at prefix length p means the sent
\* mask is non-zero and has Width - p trailing zero bits.
LEMMA LoopExitPrefix ==
  ASSUME NEW c \in Nat, c % 2 = 1, NEW p \in 1 .. Width,
         NEW m, m = c * 2^(Width - p)
  PROVE  m \in Nat \ {0} /\ Width - TrailingZeros(m) = p
<1>0. Width \in 1 .. 32
  BY SettingsAssumption
<1>1. Width - p \in 0 .. Width /\ Width - p \in 0 .. 32
  BY <1>0
<1>2. 2^(Width - p) \in Nat \ {0}
  BY <1>1, Pow2Positive, Zenon
<1>3. LowestSetBit(m, Width - p)
  BY <1>1, OddMultiple, Zenon
<1>4. m \in Nat \ {0}
  BY <1>2
<1>5. TrailingZeros(m) = Width - p
  BY <1>1, <1>3, <1>4, TrailingZerosIs
<1> QED
  BY <1>0, <1>4, <1>5

\* The code's IPv6 rule (take the gateway TLV's length unless the address
\* TLV gave a different non-zero one) is the contract's (the address's
\* length wins).
LEMMA V6PrefixIsAddressPrefixWins ==
  ASSUME NEW pres, NEW a, NEW g
  PROVE  V6Prefix(pres, a, g) = Contract!AddressPrefixWins(pres, a, g)
BY DEF V6Prefix, Contract!AddressPrefixWins

\* The call is idle only before the request: nothing is written yet.
IdleInv ==
    pc = "idle" =>
        status = "none" /\ prefix = 0 /\ addrPresent = FALSE /\ gwPresent = FALSE

LEMMA IdleInvHolds == Spec => []IdleInv
<1>1. Init => IdleInv
  BY DEF Init, IdleInv
<1>2. IdleInv /\ [Next]_vars => IdleInv'
  BY DEF IdleInv, Next, GetRuntimeSettings, DeriveV4Prefix, Returned, vars
<1> QED
  BY <1>1, <1>2, PTL DEF Spec

LEMMA RefinedInit == Init => Contract!Init
BY DEF Init, Contract!Init, Contract!Fam, Fam

\* Each step of the function is a step of the contract or leaves what the
\* contract sees unchanged: the request and the shifts of the loop are
\* internal, an error or a TLV-free exit is Fail or Answer at once, and the
\* loop's exit is the Answer carrying the mask's prefix length.
LEMMA RefinedStep ==
  LoopInv /\ IdleInv /\ [Next]_vars => [Contract!Next]_Contract!vars
<1> SUFFICES ASSUME LoopInv, IdleInv, [Next]_vars
             PROVE  [Contract!Next]_Contract!vars
  OBVIOUS
<1>1. CASE GetRuntimeSettings
  <2>0. /\ pc = "idle" /\ status = "none" /\ prefix = 0
        /\ addrPresent = FALSE /\ gwPresent = FALSE
    BY <1>1 DEF GetRuntimeSettings, IdleInv
  <2>1. CASE status' # "none"
    <3>1. Contract!Fail
      BY <1>1, <2>0, <2>1 DEF GetRuntimeSettings, Contract!Fail
    <3> QED
      BY <3>1 DEF Contract!Next
  <2>2. CASE status' = "none"
    <3>1. PICK pres \in SUBSET PresenceBits :
            /\ status' = "none"
            /\ IF family = "v4"
                 THEN /\ addrPresent' = (30 \in pres)
                      /\ gwPresent' = ({32, 33} \subseteq pres)
                      /\ IF gwPresent'
                           THEN pc' = "shift" /\ mask' = sentMask /\ prefix' = Width
                           ELSE pc' = "done" /\ UNCHANGED <<mask, prefix>>
                 ELSE /\ addrPresent' = (37 \in pres)
                      /\ gwPresent' = (38 \in pres)
                      /\ prefix' = V6Prefix(pres, sentAddrLen, sentGwLen)
                      /\ pc' = "done"
                      /\ UNCHANGED mask
      BY <1>1, <2>2 DEF GetRuntimeSettings
    <3>2. UNCHANGED <<family, sentMask, sentAddrLen, sentGwLen>>
      BY <1>1 DEF GetRuntimeSettings
    <3>3. CASE family = "v4" /\ gwPresent'
      <4>1. pc' = "shift"
        BY <3>1, <3>3
      <4> QED
        BY <2>0, <2>2, <3>2, <4>1 DEF Contract!vars
    <3>4. CASE family = "v4" /\ ~gwPresent'
      <4>1. Contract!Answer
        BY <2>0, <3>1, <3>2, <3>4 DEF Contract!Answer, Contract!PresenceBits,
           PresenceBits
      <4> QED
        BY <4>1 DEF Contract!Next
    <3>5. CASE family # "v4"
      <4>1. prefix' = Contract!AddressPrefixWins(pres, sentAddrLen, sentGwLen)
        BY <3>1, <3>5, V6PrefixIsAddressPrefixWins
      <4>2. Contract!Answer
        BY <2>0, <3>1, <3>2, <3>5, <4>1 DEF Contract!Answer,
           Contract!PresenceBits, PresenceBits
      <4> QED
        BY <4>2 DEF Contract!Next
    <3> QED
      BY <3>3, <3>4, <3>5
  <2> QED
    BY <2>1, <2>2
<1>2. CASE DeriveV4Prefix /\ mask % 2 = 1
  <2>1. /\ pc = "shift" /\ pc' = "done"
        /\ UNCHANGED <<mask, prefix, family, status, sentMask, sentAddrLen,
                       sentGwLen, addrPresent, gwPresent>>
    BY <1>2 DEF DeriveV4Prefix
  <2>2. /\ family = "v4" /\ status = "none" /\ gwPresent /\ addrPresent \in BOOLEAN
        /\ prefix \in 1 .. Width /\ mask \in Nat
        /\ sentMask = mask * 2^(Width - prefix)
    BY <1>2, <2>1 DEF LoopInv
  <2>3. Contract!MaskPrefix(sentMask) = prefix
    <3>1. sentMask \in Nat \ {0} /\ Width - TrailingZeros(sentMask) = prefix
      BY <1>2, <2>2, LoopExitPrefix
    <3>2. TrailingZeros(sentMask) = Contract!TrailingZeroBits(sentMask)
      BY DEF TrailingZeros, Contract!TrailingZeroBits
    <3> QED
      BY <3>1, <3>2 DEF Contract!MaskPrefix
  <2> DEFINE pres == {32, 33} \cup (IF addrPresent THEN {30} ELSE {})
  <2>4. pres \in SUBSET Contract!PresenceBits
        /\ addrPresent = (30 \in pres) /\ {32, 33} \subseteq pres
    BY <2>2 DEF Contract!PresenceBits
  <2>5. Contract!Answer
    BY <2>1, <2>2, <2>3, <2>4 DEF Contract!Answer
  <2> QED
    BY <2>5 DEF Contract!Next
<1>3. CASE DeriveV4Prefix /\ mask % 2 # 1
  BY <1>3 DEF DeriveV4Prefix, Contract!vars
<1>4. CASE Returned \/ UNCHANGED vars
  BY <1>4 DEF Returned, vars, Contract!vars
<1> QED
  BY <1>1, <1>2, <1>3, <1>4 DEF Next

\* RefinesContract: every behaviour of mm_wds_get_runtime_settings is one
\* the GetRuntimeSettings contract of spec.md allows, with the mask loop
\* hidden: for every mask width up to 32 bits, every mask and every IPv6
\* prefix length the modem may send.
THEOREM ImplementsContract == Spec => RefinesContract
<1>1. Spec => []LoopInv
  BY InitLoopInv, LoopInvStep, PTL DEF Spec
<1>2. LoopInv /\ IdleInv /\ [Next]_vars => [Contract!Next]_Contract!vars
  BY RefinedStep
<1> QED
  BY <1>1, <1>2, IdleInvHolds, RefinedInit, PTL
     DEF Spec, RefinesContract, Contract!Spec

====
