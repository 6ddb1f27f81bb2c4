------------------------ MODULE NetlinkResourcesProofs -------------------------
(***************************************************************************)
(* Proofs about the ownership of the libnl objects (NetlinkResources): no  *)
(* put or free of an error path of mm_netlink_initialize or of            *)
(* mm_netlink_shutdown reaches an object that is not held, and shutdown    *)
(* releases everything in the reverse order of acquisition, for every set  *)
(* of failing points.                                                      *)
(***************************************************************************)
EXTENDS NetlinkResources, SequenceTheorems, TLAPS

\* The objects in the order mm_netlink_initialize acquires them: Points
\* without the four calls that acquire nothing.
AcquisitionOrder ==
    <<"nl", "link_cache_v4", "link_cache_v6", "wwan_link_v4", "wwan_link_v6",
      "wg0_link", "addr_cache", "addr_filter", "wwan_nexthop",
      "default_route_addr4", "gateway_addr4", "nl_wwan_addr4",
      "default_route4", "wwan_addr4",
      "default_route_addr6", "gateway_addr6", "nl_wwan_addr6",
      "default_route6", "wwan_addr6",
      "wg0_gateway_address", "wg0_self_address", "wg0_tgt_address",
      "wg0_tgt_route", "wg0_tgt_nexthop">>

Objects == Range(AcquisitionOrder)

\* HeldBefore[n]: how many objects are held when point n is reached.
HeldBefore ==
    <<0, 1, 1, 2, 3, 4, 5, 6, 6, 7, 8, 9, 10, 11, 12, 13, 14, 14, 15, 16,
      17, 18, 19, 19, 20, 21, 22, 23>>

\* What is held at each phase.  While initialize runs, the objects held are
\* the ones acquired so far, in order.  On an error path every release still
\* to run is of a distinct object that is held.  During shutdown the
\* releases still to run are those of the held objects, the last acquired
\* first; the held objects are a prefix of the acquisition order.
IInv ==
    /\ pc \in {"init", "unwind", "failed", "up", "shutdown", "down"}
    /\ next \in 1 .. 28
    /\ pc = "init" => live = SubSeq(AcquisitionOrder, 1, HeldBefore[next])
    /\ pc = "up" => live = AcquisitionOrder
    /\ pc = "unwind" =>
          /\ live \in Seq(Objects) /\ IsInjective(live)
          /\ toFree \in Seq(Objects) /\ IsInjective(toFree)
          /\ Range(toFree) \subseteq Range(live)
    /\ pc \in {"shutdown", "down"} =>
          /\ \E k \in 0 .. 24 : live = SubSeq(AcquisitionOrder, 1, k)
          /\ toFree = Reverse(live)

-----------------------------------------------------------------------------
(* Lemmas about the sequence operators the releases use.                   *)

\* Removing the element at index i of an injective sequence: what is left
\* is injective and holds every element but that one.
LEMMA RemoveAtInjective ==
  ASSUME NEW S, NEW s \in Seq(S), IsInjective(s), NEW i \in 1 .. Len(s)
  PROVE  LET r == SubSeq(s, 1, i - 1) \o SubSeq(s, i + 1, Len(s))
         IN  /\ r \in Seq(S)
             /\ Len(r) = Len(s) - 1
             /\ IsInjective(r)
             /\ Range(r) = Range(s) \ {s[i]}
<1> DEFINE A == SubSeq(s, 1, i - 1)
           B == SubSeq(s, i + 1, Len(s))
           r == A \o B
<1> HIDE DEF A, B, r
<1>0. Len(s) \in Nat /\ \A j \in 1 .. Len(s) : s[j] \in S
  BY LenProperties, ElementOfSeq
<1>1. A \in Seq(S) /\ Len(A) = i - 1 /\ \A j \in 1 .. i - 1 : A[j] = s[j]
  BY <1>0, SubSeqProperties DEF A
<1>2. B \in Seq(S) /\ Len(B) = Len(s) - i /\ \A j \in 1 .. Len(s) - i : B[j] = s[i + j]
  BY <1>0, SubSeqProperties DEF B
<1>3. /\ r \in Seq(S) /\ Len(r) = Len(s) - 1
      /\ \A j \in 1 .. Len(s) - 1 : r[j] = IF j < i THEN s[j] ELSE s[j + 1]
  <2>1. r \in Seq(S) /\ Len(r) = Len(A) + Len(B)
        /\ \A j \in 1 .. Len(A) + Len(B) : r[j] = IF j <= Len(A) THEN A[j] ELSE B[j - Len(A)]
    BY <1>1, <1>2, ConcatProperties, Zenon DEF r
  <2>2. ASSUME NEW j \in 1 .. Len(s) - 1
        PROVE  r[j] = IF j < i THEN s[j] ELSE s[j + 1]
    <3>1. CASE j < i
      BY <1>1, <2>1, <3>1
    <3>2. CASE j >= i
      <4>1. j - Len(A) \in 1 .. Len(s) - i /\ i + (j - Len(A)) = j + 1
        BY <1>0, <1>1, <3>2
      <4>0. j \in 1 .. Len(A) + Len(B) /\ ~(j <= Len(A))
        BY <1>0, <1>1, <1>2, <3>2, SMTT(30)
      <4>2. r[j] = B[j - Len(A)]
        BY <2>1, <4>0
      <4>3. B[j - Len(A)] = s[i + (j - Len(A))]
        BY <1>2, <4>1, Zenon
      <4> QED
        BY <3>2, <4>1, <4>2, <4>3
    <3> QED
      BY <3>1, <3>2
  <2> QED
    BY <1>0, <1>1, <1>2, <2>1, <2>2
<1>4. IsInjective(r)
  <2> SUFFICES ASSUME NEW a \in DOMAIN r, NEW b \in DOMAIN r, r[a] = r[b]
               PROVE  a = b
    BY DEF IsInjective
  <2>1. DOMAIN r = 1 .. Len(s) - 1
    BY <1>3, LenProperties
  <2>2. \A x, y \in 1 .. Len(s) : s[x] = s[y] => x = y
    BY <1>0, LenProperties DEF IsInjective
  <2> QED
    BY <1>0, <1>3, <2>1, <2>2
<1>5. Range(r) = Range(s) \ {s[i]}
  <2>1. Range(r) = {r[j] : j \in 1 .. Len(s) - 1} /\ Range(s) = {s[j] : j \in 1 .. Len(s)}
    BY <1>0, <1>3, RangeEquality
  <2>2. \A x, y \in 1 .. Len(s) : s[x] = s[y] => x = y
    BY <1>0, LenProperties DEF IsInjective
  <2>3. ASSUME NEW j \in 1 .. Len(s) - 1 PROVE r[j] # s[i]
    BY <1>3, <2>2, SMTT(30)
  <2>4. ASSUME NEW x \in (1 .. Len(s)) \ {i} PROVE \E j \in 1 .. Len(s) - 1 : r[j] = s[x]
    <3>0. x < i \/ x > i
      BY <1>0
    <3>1. CASE x < i
      BY <1>3, <3>1
    <3>2. CASE x > i
      <4>1. x - 1 \in 1 .. Len(s) - 1 /\ ~(x - 1 < i) /\ x - 1 + 1 = x
        BY <1>0, <3>2
      <4> QED
        BY <1>3, <4>1, Zenon
    <3> QED
      BY <3>0, <3>1, <3>2
  <2>5. ASSUME NEW j \in 1 .. Len(s) - 1 PROVE r[j] \in Range(s)
    <3>1. CASE j < i
      <4>1. r[j] = s[j] /\ j \in 1 .. Len(s)
        BY <1>0, <1>3, <3>1
      <4> QED
        BY <2>1, <4>1
    <3>2. CASE ~(j < i)
      <4>1. r[j] = s[j + 1] /\ j + 1 \in 1 .. Len(s)
        BY <1>0, <1>3, <3>2
      <4> QED
        BY <2>1, <4>1
    <3> QED
      BY <3>1, <3>2
  <2>6. Range(r) \subseteq Range(s) \ {s[i]}
    BY <2>1, <2>3, <2>5, SMTT(30)
  <2>7. Range(s) \ {s[i]} \subseteq Range(r)
    <3> SUFFICES ASSUME NEW x \in (1 .. Len(s)) \ {i} PROVE s[x] \in Range(r)
      BY <2>1
    <3> QED
      BY <2>1, <2>4, Zenon
  <2> QED
    BY <2>6, <2>7
<1> QED
  BY <1>3, <1>4, <1>5, Zenon DEF r, A, B

\* In an injective sequence the first occurrence of s[i] is at i.
LEMMA RemoveFirstInjective ==
  ASSUME NEW S, NEW s \in Seq(S), IsInjective(s), NEW i \in 1 .. Len(s)
  PROVE  RemoveFirst(s, s[i]) = SubSeq(s, 1, i - 1) \o SubSeq(s, i + 1, Len(s))
<1>1. {j \in 1 .. Len(s) : s[j] = s[i]} = {i}
  BY DEF IsInjective
<1>2. SelectInSeq(s, LAMBDA v : v = s[i]) = i
  BY <1>1 DEF SelectInSeq, Min
<1> QED
  BY <1>2, Zenon DEF RemoveFirst, RemoveAt

\* The tail of an injective sequence holds all but its head.
LEMMA TailInjective ==
  ASSUME NEW S, NEW s \in Seq(S), IsInjective(s), s # << >>
  PROVE  /\ Tail(s) \in Seq(S)
         /\ IsInjective(Tail(s))
         /\ Range(Tail(s)) = Range(s) \ {Head(s)}
<1>1. /\ Len(s) \in Nat \ {0} /\ Tail(s) \in Seq(S) /\ Len(Tail(s)) = Len(s) - 1
      /\ \A j \in 1 .. Len(s) - 1 : Tail(s)[j] = s[j + 1]
      /\ Head(s) = s[1]
  BY EmptySeq, HeadTailProperties
<1>2. Range(Tail(s)) = {Tail(s)[j] : j \in 1 .. Len(s) - 1}
      /\ Range(s) = {s[j] : j \in 1 .. Len(s)}
  BY <1>1, RangeEquality, Zenon
<1>3. \A x, y \in 1 .. Len(s) : s[x] = s[y] => x = y
  BY LenProperties DEF IsInjective
<1>4. IsInjective(Tail(s))
  <2> SUFFICES ASSUME NEW a \in DOMAIN Tail(s), NEW b \in DOMAIN Tail(s),
                      Tail(s)[a] = Tail(s)[b]
               PROVE  a = b
    BY DEF IsInjective
  <2>1. DOMAIN Tail(s) = 1 .. Len(s) - 1
    BY <1>1, LenProperties
  <2>2. s[a + 1] = s[b + 1] /\ a + 1 \in 1 .. Len(s) /\ b + 1 \in 1 .. Len(s)
    BY <1>1, <2>1
  <2> QED
    BY <1>3, <2>1, <2>2
<1>5. Range(Tail(s)) = Range(s) \ {Head(s)}
  <2>1. ASSUME NEW j \in 1 .. Len(s) - 1 PROVE Tail(s)[j] \in Range(s) \ {Head(s)}
    <3>1. Tail(s)[j] = s[j + 1] /\ j + 1 \in 1 .. Len(s) /\ j + 1 # 1
      BY <1>1
    <3> QED
      BY <1>1, <1>2, <1>3, <3>1
  <2>2. ASSUME NEW x \in 1 .. Len(s), s[x] # Head(s) PROVE s[x] \in Range(Tail(s))
    <3>1. x # 1 /\ x - 1 \in 1 .. Len(s) - 1 /\ x - 1 + 1 = x
      BY <1>1, <2>2
    <3>2. Tail(s)[x - 1] = s[x]
      BY <1>1, <3>1
    <3> QED
      BY <1>2, <3>1, <3>2, Zenon
  <2> QED
    BY <1>2, <2>1, <2>2
<1> QED
  BY <1>1, <1>4, <1>5

\* Reversal keeps the elements and injectivity; its head is the last
\* element and its tail is the reversal of the front.
LEMMA ReverseProperties ==
  ASSUME NEW S, NEW s \in Seq(S)
  PROVE  /\ Reverse(s) \in Seq(S)
         /\ Len(Reverse(s)) = Len(s)
         /\ Range(Reverse(s)) = Range(s)
         /\ IsInjective(s) => IsInjective(Reverse(s))
         /\ Len(s) > 0 =>
              /\ Head(Reverse(s)) = s[Len(s)]
              /\ Tail(Reverse(s)) = Reverse(SubSeq(s, 1, Len(s) - 1))
<1> DEFINE R == Reverse(s)
           n == Len(s)
<1>0. n \in Nat /\ \A j \in 1 .. n : s[j] \in S
  BY LenProperties, ElementOfSeq
<1>1. /\ R \in Seq(S) /\ Len(R) = n
      /\ \A j \in 1 .. n : R[j] = s[n - j + 1] /\ n - j + 1 \in 1 .. n
  BY <1>0 DEF Reverse
<1> HIDE DEF R, n
<1>2. Range(R) = Range(s)
  <2>1. Range(R) = {R[j] : j \in 1 .. n} /\ Range(s) = {s[j] : j \in 1 .. n}
    BY <1>1, RangeEquality DEF n
  <2>2. ASSUME NEW x \in 1 .. n PROVE s[x] = R[n - x + 1] /\ n - x + 1 \in 1 .. n
    <3>1. n - x + 1 \in 1 .. n /\ n - (n - x + 1) + 1 = x
      BY <1>0
    <3> QED
      BY <1>1, <3>1
  <2> QED
    BY <1>1, <2>1, <2>2, SMTT(30)
<1>3. IsInjective(s) => IsInjective(R)
  <2> SUFFICES ASSUME IsInjective(s), NEW a \in DOMAIN R, NEW b \in DOMAIN R,
                      R[a] = R[b]
               PROVE  a = b
    BY DEF IsInjective
  <2>1. DOMAIN R = 1 .. n /\ DOMAIN s = 1 .. n
    BY <1>1, LenProperties DEF n
  <2>2. s[n - a + 1] = s[n - b + 1]
    BY <1>1, <2>1
  <2>3. n - a + 1 = n - b + 1
    BY <1>1, <2>1, <2>2 DEF IsInjective
  <2> QED
    BY <1>0, <2>1, <2>3
<1>4. ASSUME n > 0
      PROVE  /\ Head(R) = s[n]
             /\ Tail(R) = Reverse(SubSeq(s, 1, n - 1))
  <2> DEFINE F == SubSeq(s, 1, n - 1)
  <2> HIDE DEF F
  <2>1. Head(R) = s[n]
    <3>1. R # << >> /\ 1 \in 1 .. n /\ n - 1 + 1 = n
      BY <1>0, <1>1, <1>4
    <3> QED
      BY <1>1, <3>1, HeadTailProperties
  <2>2. /\ Tail(R) \in Seq(S) /\ Len(Tail(R)) = n - 1
        /\ \A j \in 1 .. n - 1 : Tail(R)[j] = R[j + 1]
    <3>1. R # << >>
      BY <1>1, <1>4
    <3> QED
      BY <1>1, <3>1, HeadTailProperties
  <2>3. /\ F \in Seq(S) /\ Len(F) = n - 1
        /\ \A j \in 1 .. n - 1 : F[j] = s[j]
    <3>1. n - 1 \in Int /\ \A j \in 1 .. n - 1 : s[j] \in S
      BY <1>0
    <3>2. /\ SubSeq(s, 1, n - 1) \in Seq(S)
          /\ Len(SubSeq(s, 1, n - 1)) = IF 1 <= n - 1 THEN n - 1 - 1 + 1 ELSE 0
          /\ \A j \in 1 .. n - 1 - 1 + 1 : SubSeq(s, 1, n - 1)[j] = s[1 + j - 1]
      BY <3>1, SubSeqProperties
    <3> QED
      BY <1>0, <1>4, <3>2 DEF F
  <2>4. /\ Reverse(F) \in Seq(S) /\ Len(Reverse(F)) = n - 1
        /\ \A j \in 1 .. n - 1 : Reverse(F)[j] = F[n - 1 - j + 1]
    BY <1>0, <1>4, <2>3 DEF Reverse
  <2>5. ASSUME NEW j \in 1 .. n - 1 PROVE Tail(R)[j] = Reverse(F)[j]
    <3>1. j + 1 \in 1 .. n /\ n - (j + 1) + 1 = n - j /\ n - 1 - j + 1 = n - j
          /\ n - j \in 1 .. n - 1
      BY <1>0, <1>4
    <3>2. Tail(R)[j] = s[n - j]
      BY <1>1, <2>2, <3>1, Zenon
    <3>3. Reverse(F)[j] = s[n - j]
      BY <2>3, <2>4, <3>1
    <3> QED
      BY <3>2, <3>3, Zenon
  <2> QED
    BY <2>1, <2>2, <2>4, <2>5, SeqEqual, SMTT(30) DEF F
<1> QED
  BY <1>1, <1>2, <1>3, <1>4 DEF R, n

\* Two injective sequences with no element in common concatenate to an
\* injective sequence.
LEMMA ConcatInjective ==
  ASSUME NEW S, NEW a \in Seq(S), NEW b \in Seq(S), IsInjective(a), IsInjective(b),
         Range(a) \cap Range(b) = {}
  PROVE  IsInjective(a \o b)
<1> DEFINE c == a \o b
<1> HIDE DEF c
<1>1. /\ Len(a) \in Nat /\ Len(b) \in Nat
      /\ c \in Seq(S) /\ Len(c) = Len(a) + Len(b)
      /\ \A j \in 1 .. Len(a) + Len(b) :
            c[j] = IF j <= Len(a) THEN a[j] ELSE b[j - Len(a)]
  BY ConcatProperties DEF c
<1>2. DOMAIN c = 1 .. Len(a) + Len(b) /\ DOMAIN a = 1 .. Len(a) /\ DOMAIN b = 1 .. Len(b)
  BY <1>1, LenProperties
<1>3. ASSUME NEW j \in 1 .. Len(a) + Len(b)
      PROVE  \/ j <= Len(a) /\ j \in DOMAIN a /\ c[j] = a[j]
             \/ ~(j <= Len(a)) /\ j - Len(a) \in DOMAIN b /\ c[j] = b[j - Len(a)]
  BY <1>1, <1>2
<1>4. \A x \in DOMAIN a, y \in DOMAIN b : a[x] # b[y]
  BY DEF Range
<1> SUFFICES ASSUME NEW x \in DOMAIN c, NEW y \in DOMAIN c, c[x] = c[y]
             PROVE  x = y
  BY DEF IsInjective, c
<1>5. x - Len(a) = y - Len(a) => x = y
  BY <1>1, <1>2
<1>6. x \in 1 .. Len(a) + Len(b) /\ y \in 1 .. Len(a) + Len(b)
  BY <1>2
<1>7. CASE x <= Len(a) /\ y <= Len(a)
  BY <1>3, <1>6, <1>7 DEF IsInjective
<1>8. CASE ~(x <= Len(a)) /\ ~(y <= Len(a))
  BY <1>3, <1>5, <1>6, <1>8 DEF IsInjective
<1>9. CASE x <= Len(a) /\ ~(y <= Len(a))
  BY <1>3, <1>4, <1>6, <1>9
<1>10. CASE ~(x <= Len(a)) /\ y <= Len(a)
  BY <1>3, <1>4, <1>6, <1>10
<1> QED
  BY <1>7, <1>8, <1>9, <1>10

\* A prefix grown by the next element is the next prefix.
LEMMA PrefixAppend ==
  ASSUME NEW S, NEW s \in Seq(S), NEW k \in 0 .. Len(s) - 1
  PROVE  Append(SubSeq(s, 1, k), s[k + 1]) = SubSeq(s, 1, k + 1)
OBVIOUS

-----------------------------------------------------------------------------
(* The error path of each failing point.                                   *)

\* What the error path run at a failure of point n must satisfy: every
\* release is of a distinct object acquired before n.
UnwindOK(n) ==
    LET U == Unwind(Points[n]) IN
    /\ U \in Seq(Objects)
    /\ IsInjective(U)
    /\ Range(U) \subseteq Range(SubSeq(AcquisitionOrder, 1, HeldBefore[n]))

\* The chain the code runs at a failure in mm_netlink_initialize itself.
LEMMA InitUnwind ==
  ASSUME NEW m \in 1 .. 11
  PROVE  Unwind(InitPoints[m]) = From(MainChain, InitEntry[m])
<1>1. /\ InitPoints[m] \in Range(InitPoints)
      /\ InitPoints[m] \notin Range(V4Points) /\ InitPoints[m] \notin Range(V6Points)
  <2>1. m \in {1, 2, 3, 4, 5, 6, 7, 8, 9, 10, 11}
    OBVIOUS
  <2> QED
    BY <2>1 DEF Range, InitPoints, V4Points, V6Points
<1>2. IndexIn(InitPoints, InitPoints[m]) = m
  <2>1. m \in {1, 2, 3, 4, 5, 6, 7, 8, 9, 10, 11}
    OBVIOUS
  <2> QED
    BY <2>1 DEF IndexIn, InitPoints
<1> QED
  BY <1>1, <1>2 DEF Unwind

\* The chains at a failure in allocate_ipv4_addrs, allocate_ipv6_addrs and
\* allocate_wg0_resources: the helper's own puts, then the caller's.
LEMMA V4Unwind ==
  ASSUME NEW m \in 1 .. 6
  PROVE  Unwind(V4Points[m]) = From(V4Chain, AddrsEntry[m]) \o From(MainChain, 11)
<1>1. m \in {1, 2, 3, 4, 5, 6}
  OBVIOUS
<1>2. /\ V4Points[m] \notin Range(InitPoints) /\ V4Points[m] \in Range(V4Points)
      /\ V4Points[m] \notin Range(V6Points)
  BY <1>1 DEF Range, InitPoints, V4Points, V6Points
<1>3. IndexIn(V4Points, V4Points[m]) = m
  BY <1>1 DEF IndexIn, V4Points
<1> QED
  BY <1>2, <1>3 DEF Unwind

LEMMA V6Unwind ==
  ASSUME NEW m \in 1 .. 6
  PROVE  Unwind(V6Points[m]) = From(V6Chain, AddrsEntry[m]) \o From(MainChain, 6)
<1>1. m \in {1, 2, 3, 4, 5, 6}
  OBVIOUS
<1>2. /\ V6Points[m] \notin Range(InitPoints) /\ V6Points[m] \notin Range(V4Points)
      /\ V6Points[m] \in Range(V6Points)
  BY <1>1 DEF Range, InitPoints, V4Points, V6Points
<1>3. IndexIn(V6Points, V6Points[m]) = m
  BY <1>1 DEF IndexIn, V6Points
<1> QED
  BY <1>2, <1>3 DEF Unwind

LEMMA Wg0Unwind ==
  ASSUME NEW m \in 1 .. 5
  PROVE  Unwind(Wg0Points[m]) = From(Wg0Chain, Wg0Entry[m]) \o From(MainChain, 1)
<1>1. m \in {1, 2, 3, 4, 5}
  OBVIOUS
<1>2. /\ Wg0Points[m] \notin Range(InitPoints) /\ Wg0Points[m] \notin Range(V4Points)
      /\ Wg0Points[m] \notin Range(V6Points)
  BY <1>1 DEF Range, InitPoints, V4Points, V6Points, Wg0Points
<1>3. IndexIn(Wg0Points, Wg0Points[m]) = m
  BY <1>1 DEF IndexIn, Wg0Points
<1> QED
  BY <1>2, <1>3 DEF Unwind

\* Every error path of mm_netlink_initialize and of its helpers releases
\* only objects acquired before the failing point, each once.
LEMMA FailFacts ==
  ASSUME NEW n \in 1 .. 28
  PROVE  UnwindOK(n)
<1>1. CASE n = 1
  <2>1. Points[n] = InitPoints[1]
    BY <1>1 DEF Points, InitPoints, V4Points, V6Points, Wg0Points
  <2>2. Unwind(Points[n]) = From(MainChain, 19)
    BY <2>1, InitUnwind DEF InitEntry
  <2>3. From(MainChain, 19) \in Seq(Objects)
    BY DEF Objects, Range, AcquisitionOrder, From, MainChain
  <2>4. IsInjective(From(MainChain, 19))
    BY DEF IsInjective, From, MainChain
  <2>5. Range(From(MainChain, 19)) \subseteq Range(SubSeq(AcquisitionOrder, 1, HeldBefore[n]))
    BY <1>1 DEF Range, AcquisitionOrder, HeldBefore, From, MainChain
  <2> QED
    BY <2>2, <2>3, <2>4, <2>5 DEF UnwindOK
<1>2. CASE n = 2
  <2>1. Points[n] = InitPoints[2]
    BY <1>2 DEF Points, InitPoints, V4Points, V6Points, Wg0Points
  <2>2. Unwind(Points[n]) = From(MainChain, 18)
    BY <2>1, InitUnwind DEF InitEntry
  <2>3. From(MainChain, 18) \in Seq(Objects)
    BY DEF Objects, Range, AcquisitionOrder, From, MainChain
  <2>4. IsInjective(From(MainChain, 18))
    BY DEF IsInjective, From, MainChain
  <2>5. Range(From(MainChain, 18)) \subseteq Range(SubSeq(AcquisitionOrder, 1, HeldBefore[n]))
    BY <1>2 DEF Range, AcquisitionOrder, HeldBefore, From, MainChain
  <2> QED
    BY <2>2, <2>3, <2>4, <2>5 DEF UnwindOK
<1>3. CASE n = 3
  <2>1. Points[n] = InitPoints[3]
    BY <1>3 DEF Points, InitPoints, V4Points, V6Points, Wg0Points
  <2>2. Unwind(Points[n]) = From(MainChain, 18)
    BY <2>1, InitUnwind DEF InitEntry
  <2>3. From(MainChain, 18) \in Seq(Objects)
    BY DEF Objects, Range, AcquisitionOrder, From, MainChain
  <2>4. IsInjective(From(MainChain, 18))
    BY DEF IsInjective, From, MainChain
  <2>5. Range(From(MainChain, 18)) \subseteq Range(SubSeq(AcquisitionOrder, 1, HeldBefore[n]))
    BY <1>3 DEF Range, AcquisitionOrder, HeldBefore, From, MainChain
  <2> QED
    BY <2>2, <2>3, <2>4, <2>5 DEF UnwindOK
<1>4. CASE n = 4
  <2>1. Points[n] = InitPoints[4]
    BY <1>4 DEF Points, InitPoints, V4Points, V6Points, Wg0Points
  <2>2. Unwind(Points[n]) = From(MainChain, 17)
    BY <2>1, InitUnwind DEF InitEntry
  <2>3. From(MainChain, 17) \in Seq(Objects)
    BY DEF Objects, Range, AcquisitionOrder, From, MainChain
  <2>4. IsInjective(From(MainChain, 17))
    BY DEF IsInjective, From, MainChain
  <2>5. Range(From(MainChain, 17)) \subseteq Range(SubSeq(AcquisitionOrder, 1, HeldBefore[n]))
    BY <1>4 DEF Range, AcquisitionOrder, HeldBefore, From, MainChain
  <2> QED
    BY <2>2, <2>3, <2>4, <2>5 DEF UnwindOK
<1>5. CASE n = 5
  <2>1. Points[n] = InitPoints[5]
    BY <1>5 DEF Points, InitPoints, V4Points, V6Points, Wg0Points
  <2>2. Unwind(Points[n]) = From(MainChain, 16)
    BY <2>1, InitUnwind DEF InitEntry
  <2>3. From(MainChain, 16) \in Seq(Objects)
    BY DEF Objects, Range, AcquisitionOrder, From, MainChain
  <2>4. IsInjective(From(MainChain, 16))
    BY DEF IsInjective, From, MainChain
  <2>5. Range(From(MainChain, 16)) \subseteq Range(SubSeq(AcquisitionOrder, 1, HeldBefore[n]))
    BY <1>5 DEF Range, AcquisitionOrder, HeldBefore, From, MainChain
  <2> QED
    BY <2>2, <2>3, <2>4, <2>5 DEF UnwindOK
<1>6. CASE n = 6
  <2>1. Points[n] = InitPoints[6]
    BY <1>6 DEF Points, InitPoints, V4Points, V6Points, Wg0Points
  <2>2. Unwind(Points[n]) = From(MainChain, 15)
    BY <2>1, InitUnwind DEF InitEntry
  <2>3. From(MainChain, 15) \in Seq(Objects)
    BY DEF Objects, Range, AcquisitionOrder, From, MainChain
  <2>4. IsInjective(From(MainChain, 15))
    BY DEF IsInjective, From, MainChain
  <2>5. Range(From(MainChain, 15)) \subseteq Range(SubSeq(AcquisitionOrder, 1, HeldBefore[n]))
    BY <1>6 DEF Range, AcquisitionOrder, HeldBefore, From, MainChain
  <2> QED
    BY <2>2, <2>3, <2>4, <2>5 DEF UnwindOK
<1>7. CASE n = 7
  <2>1. Points[n] = InitPoints[7]
    BY <1>7 DEF Points, InitPoints, V4Points, V6Points, Wg0Points
  <2>2. Unwind(Points[n]) = From(MainChain, 14)
    BY <2>1, InitUnwind DEF InitEntry
  <2>3. From(MainChain, 14) \in Seq(Objects)
    BY DEF Objects, Range, AcquisitionOrder, From, MainChain
  <2>4. IsInjective(From(MainChain, 14))
    BY DEF IsInjective, From, MainChain
  <2>5. Range(From(MainChain, 14)) \subseteq Range(SubSeq(AcquisitionOrder, 1, HeldBefore[n]))
    BY <1>7 DEF Range, AcquisitionOrder, HeldBefore, From, MainChain
  <2> QED
    BY <2>2, <2>3, <2>4, <2>5 DEF UnwindOK
<1>8. CASE n = 8
  <2>1. Points[n] = InitPoints[8]
    BY <1>8 DEF Points, InitPoints, V4Points, V6Points, Wg0Points
  <2>2. Unwind(Points[n]) = From(MainChain, 14)
    BY <2>1, InitUnwind DEF InitEntry
  <2>3. From(MainChain, 14) \in Seq(Objects)
    BY DEF Objects, Range, AcquisitionOrder, From, MainChain
  <2>4. IsInjective(From(MainChain, 14))
    BY DEF IsInjective, From, MainChain
  <2>5. Range(From(MainChain, 14)) \subseteq Range(SubSeq(AcquisitionOrder, 1, HeldBefore[n]))
    BY <1>8 DEF Range, AcquisitionOrder, HeldBefore, From, MainChain
  <2> QED
    BY <2>2, <2>3, <2>4, <2>5 DEF UnwindOK
<1>9. CASE n = 9
  <2>1. Points[n] = InitPoints[9]
    BY <1>9 DEF Points, InitPoints, V4Points, V6Points, Wg0Points
  <2>2. Unwind(Points[n]) = From(MainChain, 14)
    BY <2>1, InitUnwind DEF InitEntry
  <2>3. From(MainChain, 14) \in Seq(Objects)
    BY DEF Objects, Range, AcquisitionOrder, From, MainChain
  <2>4. IsInjective(From(MainChain, 14))
    BY DEF IsInjective, From, MainChain
  <2>5. Range(From(MainChain, 14)) \subseteq Range(SubSeq(AcquisitionOrder, 1, HeldBefore[n]))
    BY <1>9 DEF Range, AcquisitionOrder, HeldBefore, From, MainChain
  <2> QED
    BY <2>2, <2>3, <2>4, <2>5 DEF UnwindOK
<1>10. CASE n = 10
  <2>1. Points[n] = InitPoints[10]
    BY <1>10 DEF Points, InitPoints, V4Points, V6Points, Wg0Points
  <2>2. Unwind(Points[n]) = From(MainChain, 13)
    BY <2>1, InitUnwind DEF InitEntry
  <2>3. From(MainChain, 13) \in Seq(Objects)
    BY DEF Objects, Range, AcquisitionOrder, From, MainChain
  <2>4. IsInjective(From(MainChain, 13))
    BY DEF IsInjective, From, MainChain
  <2>5. Range(From(MainChain, 13)) \subseteq Range(SubSeq(AcquisitionOrder, 1, HeldBefore[n]))
    BY <1>10 DEF Range, AcquisitionOrder, HeldBefore, From, MainChain
  <2> QED
    BY <2>2, <2>3, <2>4, <2>5 DEF UnwindOK
<1>11. CASE n = 11
  <2>1. Points[n] = InitPoints[11]
    BY <1>11 DEF Points, InitPoints, V4Points, V6Points, Wg0Points
  <2>2. Unwind(Points[n]) = From(MainChain, 12)
    BY <2>1, InitUnwind DEF InitEntry
  <2>3. From(MainChain, 12) \in Seq(Objects)
    BY DEF Objects, Range, AcquisitionOrder, From, MainChain
  <2>4. IsInjective(From(MainChain, 12))
    BY DEF IsInjective, From, MainChain
  <2>5. Range(From(MainChain, 12)) \subseteq Range(SubSeq(AcquisitionOrder, 1, HeldBefore[n]))
    BY <1>11 DEF Range, AcquisitionOrder, HeldBefore, From, MainChain
  <2> QED
    BY <2>2, <2>3, <2>4, <2>5 DEF UnwindOK
<1>12. CASE n = 12
  <2>1. Points[n] = V4Points[1]
    BY <1>12 DEF Points, InitPoints, V4Points, V6Points, Wg0Points
  <2>2. Unwind(Points[n]) = From(V4Chain, 5) \o From(MainChain, 11)
    BY <2>1, V4Unwind DEF AddrsEntry
  <2>3. From(V4Chain, 5) \o From(MainChain, 11) \in Seq(Objects)
    BY DEF Objects, Range, AcquisitionOrder, From, V4Chain, MainChain
  <2>4. IsInjective(From(V4Chain, 5) \o From(MainChain, 11))
    BY DEF IsInjective, From, V4Chain, MainChain
  <2>5. Range(From(V4Chain, 5) \o From(MainChain, 11)) \subseteq Range(SubSeq(AcquisitionOrder, 1, HeldBefore[n]))
    BY <1>12 DEF Range, AcquisitionOrder, HeldBefore, From, V4Chain, MainChain
  <2> QED
    BY <2>2, <2>3, <2>4, <2>5 DEF UnwindOK
<1>13. CASE n = 13
  <2>1. Points[n] = V4Points[2]
    BY <1>13 DEF Points, InitPoints, V4Points, V6Points, Wg0Points
  <2>2. Unwind(Points[n]) = From(V4Chain, 4) \o From(MainChain, 11)
    BY <2>1, V4Unwind DEF AddrsEntry
  <2>3. From(V4Chain, 4) \o From(MainChain, 11) \in Seq(Objects)
    BY DEF Objects, Range, AcquisitionOrder, From, V4Chain, MainChain
  <2>4. IsInjective(From(V4Chain, 4) \o From(MainChain, 11))
    BY DEF IsInjective, From, V4Chain, MainChain
  <2>5. Range(From(V4Chain, 4) \o From(MainChain, 11)) \subseteq Range(SubSeq(AcquisitionOrder, 1, HeldBefore[n]))
    BY <1>13 DEF Range, AcquisitionOrder, HeldBefore, From, V4Chain, MainChain
  <2> QED
    BY <2>2, <2>3, <2>4, <2>5 DEF UnwindOK
<1>14. CASE n = 14
  <2>1. Points[n] = V4Points[3]
    BY <1>14 DEF Points, InitPoints, V4Points, V6Points, Wg0Points
  <2>2. Unwind(Points[n]) = From(V4Chain, 3) \o From(MainChain, 11)
    BY <2>1, V4Unwind DEF AddrsEntry
  <2>3. From(V4Chain, 3) \o From(MainChain, 11) \in Seq(Objects)
    BY DEF Objects, Range, AcquisitionOrder, From, V4Chain, MainChain
  <2>4. IsInjective(From(V4Chain, 3) \o From(MainChain, 11))
    BY DEF IsInjective, From, V4Chain, MainChain
  <2>5. Range(From(V4Chain, 3) \o From(MainChain, 11)) \subseteq Range(SubSeq(AcquisitionOrder, 1, HeldBefore[n]))
    BY <1>14 DEF Range, AcquisitionOrder, HeldBefore, From, V4Chain, MainChain
  <2> QED
    BY <2>2, <2>3, <2>4, <2>5 DEF UnwindOK
<1>15. CASE n = 15
  <2>1. Points[n] = V4Points[4]
    BY <1>15 DEF Points, InitPoints, V4Points, V6Points, Wg0Points
  <2>2. Unwind(Points[n]) = From(V4Chain, 2) \o From(MainChain, 11)
    BY <2>1, V4Unwind DEF AddrsEntry
  <2>3. From(V4Chain, 2) \o From(MainChain, 11) \in Seq(Objects)
    BY DEF Objects, Range, AcquisitionOrder, From, V4Chain, MainChain
  <2>4. IsInjective(From(V4Chain, 2) \o From(MainChain, 11))
    BY DEF IsInjective, From, V4Chain, MainChain
  <2>5. Range(From(V4Chain, 2) \o From(MainChain, 11)) \subseteq Range(SubSeq(AcquisitionOrder, 1, HeldBefore[n]))
    BY <1>15 DEF Range, AcquisitionOrder, HeldBefore, From, V4Chain, MainChain
  <2> QED
    BY <2>2, <2>3, <2>4, <2>5 DEF UnwindOK
<1>16. CASE n = 16
  <2>1. Points[n] = V4Points[5]
    BY <1>16 DEF Points, InitPoints, V4Points, V6Points, Wg0Points
  <2>2. Unwind(Points[n]) = From(V4Chain, 1) \o From(MainChain, 11)
    BY <2>1, V4Unwind DEF AddrsEntry
  <2>3. From(V4Chain, 1) \o From(MainChain, 11) \in Seq(Objects)
    BY DEF Objects, Range, AcquisitionOrder, From, V4Chain, MainChain
  <2>4. IsInjective(From(V4Chain, 1) \o From(MainChain, 11))
    BY DEF IsInjective, From, V4Chain, MainChain
  <2>5. Range(From(V4Chain, 1) \o From(MainChain, 11)) \subseteq Range(SubSeq(AcquisitionOrder, 1, HeldBefore[n]))
    BY <1>16 DEF Range, AcquisitionOrder, HeldBefore, From, V4Chain, MainChain
  <2> QED
    BY <2>2, <2>3, <2>4, <2>5 DEF UnwindOK
<1>17. CASE n = 17
  <2>1. Points[n] = V4Points[6]
    BY <1>17 DEF Points, InitPoints, V4Points, V6Points, Wg0Points
  <2>2. Unwind(Points[n]) = From(V4Chain, 1) \o From(MainChain, 11)
    BY <2>1, V4Unwind DEF AddrsEntry
  <2>3. From(V4Chain, 1) \o From(MainChain, 11) \in Seq(Objects)
    BY DEF Objects, Range, AcquisitionOrder, From, V4Chain, MainChain
  <2>4. IsInjective(From(V4Chain, 1) \o From(MainChain, 11))
    BY DEF IsInjective, From, V4Chain, MainChain
  <2>5. Range(From(V4Chain, 1) \o From(MainChain, 11)) \subseteq Range(SubSeq(AcquisitionOrder, 1, HeldBefore[n]))
    BY <1>17 DEF Range, AcquisitionOrder, HeldBefore, From, V4Chain, MainChain
  <2> QED
    BY <2>2, <2>3, <2>4, <2>5 DEF UnwindOK
<1>18. CASE n = 18
  <2>1. Points[n] = V6Points[1]
    BY <1>18 DEF Points, InitPoints, V4Points, V6Points, Wg0Points
  <2>2. Unwind(Points[n]) = From(V6Chain, 5) \o From(MainChain, 6)
    BY <2>1, V6Unwind DEF AddrsEntry
  <2>3. From(V6Chain, 5) \o From(MainChain, 6) \in Seq(Objects)
    BY DEF Objects, Range, AcquisitionOrder, From, V6Chain, MainChain
  <2>4. IsInjective(From(V6Chain, 5) \o From(MainChain, 6))
    BY DEF IsInjective, From, V6Chain, MainChain
  <2>5. Range(From(V6Chain, 5) \o From(MainChain, 6)) \subseteq Range(SubSeq(AcquisitionOrder, 1, HeldBefore[n]))
    BY <1>18 DEF Range, AcquisitionOrder, HeldBefore, From, V6Chain, MainChain
  <2> QED
    BY <2>2, <2>3, <2>4, <2>5 DEF UnwindOK
<1>19. CASE n = 19
  <2>1. Points[n] = V6Points[2]
    BY <1>19 DEF Points, InitPoints, V4Points, V6Points, Wg0Points
  <2>2. Unwind(Points[n]) = From(V6Chain, 4) \o From(MainChain, 6)
    BY <2>1, V6Unwind DEF AddrsEntry
  <2>3. From(V6Chain, 4) \o From(MainChain, 6) \in Seq(Objects)
    BY DEF Objects, Range, AcquisitionOrder, From, V6Chain, MainChain
  <2>4. IsInjective(From(V6Chain, 4) \o From(MainChain, 6))
    BY DEF IsInjective, From, V6Chain, MainChain
  <2>5. Range(From(V6Chain, 4) \o From(MainChain, 6)) \subseteq Range(SubSeq(AcquisitionOrder, 1, HeldBefore[n]))
    BY <1>19 DEF Range, AcquisitionOrder, HeldBefore, From, V6Chain, MainChain
  <2> QED
    BY <2>2, <2>3, <2>4, <2>5 DEF UnwindOK
<1>20. CASE n = 20
  <2>1. Points[n] = V6Points[3]
    BY <1>20 DEF Points, InitPoints, V4Points, V6Points, Wg0Points
  <2>2. Unwind(Points[n]) = From(V6Chain, 3) \o From(MainChain, 6)
    BY <2>1, V6Unwind DEF AddrsEntry
  <2>3. From(V6Chain, 3) \o From(MainChain, 6) \in Seq(Objects)
    BY DEF Objects, Range, AcquisitionOrder, From, V6Chain, MainChain
  <2>4. IsInjective(From(V6Chain, 3) \o From(MainChain, 6))
    BY DEF IsInjective, From, V6Chain, MainChain
  <2>5. Range(From(V6Chain, 3) \o From(MainChain, 6)) \subseteq Range(SubSeq(AcquisitionOrder, 1, HeldBefore[n]))
    BY <1>20 DEF Range, AcquisitionOrder, HeldBefore, From, V6Chain, MainChain
  <2> QED
    BY <2>2, <2>3, <2>4, <2>5 DEF UnwindOK
<1>21. CASE n = 21
  <2>1. Points[n] = V6Points[4]
    BY <1>21 DEF Points, InitPoints, V4Points, V6Points, Wg0Points
  <2>2. Unwind(Points[n]) = From(V6Chain, 2) \o From(MainChain, 6)
    BY <2>1, V6Unwind DEF AddrsEntry
  <2>3. From(V6Chain, 2) \o From(MainChain, 6) \in Seq(Objects)
    BY DEF Objects, Range, AcquisitionOrder, From, V6Chain, MainChain
  <2>4. IsInjective(From(V6Chain, 2) \o From(MainChain, 6))
    BY DEF IsInjective, From, V6Chain, MainChain
  <2>5. Range(From(V6Chain, 2) \o From(MainChain, 6)) \subseteq Range(SubSeq(AcquisitionOrder, 1, HeldBefore[n]))
    BY <1>21 DEF Range, AcquisitionOrder, HeldBefore, From, V6Chain, MainChain
  <2> QED
    BY <2>2, <2>3, <2>4, <2>5 DEF UnwindOK
<1>22. CASE n = 22
  <2>1. Points[n] = V6Points[5]
    BY <1>22 DEF Points, InitPoints, V4Points, V6Points, Wg0Points
  <2>2. Unwind(Points[n]) = From(V6Chain, 1) \o From(MainChain, 6)
    BY <2>1, V6Unwind DEF AddrsEntry
  <2>3. From(V6Chain, 1) \o From(MainChain, 6) \in Seq(Objects)
    BY DEF Objects, Range, AcquisitionOrder, From, V6Chain, MainChain
  <2>4. IsInjective(From(V6Chain, 1) \o From(MainChain, 6))
    BY DEF IsInjective, From, V6Chain, MainChain
  <2>5. Range(From(V6Chain, 1) \o From(MainChain, 6)) \subseteq Range(SubSeq(AcquisitionOrder, 1, HeldBefore[n]))
    BY <1>22 DEF Range, AcquisitionOrder, HeldBefore, From, V6Chain, MainChain
  <2> QED
    BY <2>2, <2>3, <2>4, <2>5 DEF UnwindOK
<1>23. CASE n = 23
  <2>1. Points[n] = V6Points[6]
    BY <1>23 DEF Points, InitPoints, V4Points, V6Points, Wg0Points
  <2>2. Unwind(Points[n]) = From(V6Chain, 1) \o From(MainChain, 6)
    BY <2>1, V6Unwind DEF AddrsEntry
  <2>3. From(V6Chain, 1) \o From(MainChain, 6) \in Seq(Objects)
    BY DEF Objects, Range, AcquisitionOrder, From, V6Chain, MainChain
  <2>4. IsInjective(From(V6Chain, 1) \o From(MainChain, 6))
    BY DEF IsInjective, From, V6Chain, MainChain
  <2>5. Range(From(V6Chain, 1) \o From(MainChain, 6)) \subseteq Range(SubSeq(AcquisitionOrder, 1, HeldBefore[n]))
    BY <1>23 DEF Range, AcquisitionOrder, HeldBefore, From, V6Chain, MainChain
  <2> QED
    BY <2>2, <2>3, <2>4, <2>5 DEF UnwindOK
<1>24. CASE n = 24
  <2>1. Points[n] = Wg0Points[1]
    BY <1>24 DEF Points, InitPoints, V4Points, V6Points, Wg0Points
  <2>2. Unwind(Points[n]) = From(Wg0Chain, 5) \o From(MainChain, 1)
    BY <2>1, Wg0Unwind DEF Wg0Entry
  <2>3. From(Wg0Chain, 5) \o From(MainChain, 1) \in Seq(Objects)
    BY DEF Objects, Range, AcquisitionOrder, From, Wg0Chain, MainChain
  <2>4. IsInjective(From(Wg0Chain, 5) \o From(MainChain, 1))
    <3>1. /\ From(Wg0Chain, 5) \in Seq(Objects) /\ From(MainChain, 1) \in Seq(Objects)
          /\ Range(From(Wg0Chain, 5)) \cap Range(From(MainChain, 1)) = {}
      BY DEF Objects, Range, AcquisitionOrder, From, Wg0Chain, MainChain
    <3>2. IsInjective(From(Wg0Chain, 5)) /\ IsInjective(From(MainChain, 1))
      BY DEF IsInjective, From, Wg0Chain, MainChain
    <3> QED
      BY <3>1, <3>2, ConcatInjective
  <2>5. Range(From(Wg0Chain, 5) \o From(MainChain, 1)) \subseteq Range(SubSeq(AcquisitionOrder, 1, HeldBefore[n]))
    BY <1>24 DEF Range, AcquisitionOrder, HeldBefore, From, Wg0Chain, MainChain
  <2> QED
    BY <2>2, <2>3, <2>4, <2>5 DEF UnwindOK
<1>25. CASE n = 25
  <2>1. Points[n] = Wg0Points[2]
    BY <1>25 DEF Points, InitPoints, V4Points, V6Points, Wg0Points
  <2>2. Unwind(Points[n]) = From(Wg0Chain, 5) \o From(MainChain, 1)
    BY <2>1, Wg0Unwind, SMTT(30) DEF Wg0Entry
  <2>3. From(Wg0Chain, 5) \o From(MainChain, 1) \in Seq(Objects)
    BY DEF Objects, Range, AcquisitionOrder, From, Wg0Chain, MainChain
  <2>4. IsInjective(From(Wg0Chain, 5) \o From(MainChain, 1))
    <3>1. /\ From(Wg0Chain, 5) \in Seq(Objects) /\ From(MainChain, 1) \in Seq(Objects)
          /\ Range(From(Wg0Chain, 5)) \cap Range(From(MainChain, 1)) = {}
      BY DEF Objects, Range, AcquisitionOrder, From, Wg0Chain, MainChain
    <3>2. IsInjective(From(Wg0Chain, 5)) /\ IsInjective(From(MainChain, 1))
      BY DEF IsInjective, From, Wg0Chain, MainChain
    <3> QED
      BY <3>1, <3>2, ConcatInjective
  <2>5. Range(From(Wg0Chain, 5) \o From(MainChain, 1)) \subseteq Range(SubSeq(AcquisitionOrder, 1, HeldBefore[n]))
    BY <1>25, SMTT(30) DEF Range, AcquisitionOrder, HeldBefore, From, Wg0Chain, MainChain
  <2> QED
    BY <2>2, <2>3, <2>4, <2>5 DEF UnwindOK
<1>26. CASE n = 26
  <2>1. Points[n] = Wg0Points[3]
    BY <1>26 DEF Points, InitPoints, V4Points, V6Points, Wg0Points
  <2>2. Unwind(Points[n]) = From(Wg0Chain, 5) \o From(MainChain, 1)
    BY <2>1, Wg0Unwind, SMTT(30) DEF Wg0Entry
  <2>3. From(Wg0Chain, 5) \o From(MainChain, 1) \in Seq(Objects)
    BY DEF Objects, Range, AcquisitionOrder, From, Wg0Chain, MainChain
  <2>4. IsInjective(From(Wg0Chain, 5) \o From(MainChain, 1))
    <3>1. /\ From(Wg0Chain, 5) \in Seq(Objects) /\ From(MainChain, 1) \in Seq(Objects)
          /\ Range(From(Wg0Chain, 5)) \cap Range(From(MainChain, 1)) = {}
      BY DEF Objects, Range, AcquisitionOrder, From, Wg0Chain, MainChain
    <3>2. IsInjective(From(Wg0Chain, 5)) /\ IsInjective(From(MainChain, 1))
      BY DEF IsInjective, From, Wg0Chain, MainChain
    <3> QED
      BY <3>1, <3>2, ConcatInjective
  <2>5. Range(From(Wg0Chain, 5) \o From(MainChain, 1)) \subseteq Range(SubSeq(AcquisitionOrder, 1, HeldBefore[n]))
    BY <1>26 DEF Range, AcquisitionOrder, HeldBefore, From, Wg0Chain, MainChain
  <2> QED
    BY <2>2, <2>3, <2>4, <2>5 DEF UnwindOK
<1>27. CASE n = 27
  <2>1. Points[n] = Wg0Points[4]
    BY <1>27 DEF Points, InitPoints, V4Points, V6Points, Wg0Points
  <2>2. Unwind(Points[n]) = From(Wg0Chain, 2) \o From(MainChain, 1)
    BY <2>1, Wg0Unwind DEF Wg0Entry
  <2>3. From(Wg0Chain, 2) \o From(MainChain, 1) \in Seq(Objects)
    BY DEF Objects, Range, AcquisitionOrder, From, Wg0Chain, MainChain
  <2>4. IsInjective(From(Wg0Chain, 2) \o From(MainChain, 1))
    <3>1. /\ From(Wg0Chain, 2) \in Seq(Objects) /\ From(MainChain, 1) \in Seq(Objects)
          /\ Range(From(Wg0Chain, 2)) \cap Range(From(MainChain, 1)) = {}
      BY DEF Objects, Range, AcquisitionOrder, From, Wg0Chain, MainChain
    <3>2. IsInjective(From(Wg0Chain, 2)) /\ IsInjective(From(MainChain, 1))
      BY DEF IsInjective, From, Wg0Chain, MainChain
    <3> QED
      BY <3>1, <3>2, ConcatInjective
  <2>5. Range(From(Wg0Chain, 2) \o From(MainChain, 1)) \subseteq Range(SubSeq(AcquisitionOrder, 1, HeldBefore[n]))
    BY <1>27 DEF Range, AcquisitionOrder, HeldBefore, From, Wg0Chain, MainChain
  <2> QED
    BY <2>2, <2>3, <2>4, <2>5 DEF UnwindOK
<1>28. CASE n = 28
  <2>1. Points[n] = Wg0Points[5]
    BY <1>28 DEF Points, InitPoints, V4Points, V6Points, Wg0Points
  <2>2. Unwind(Points[n]) = From(Wg0Chain, 1) \o From(MainChain, 1)
    BY <2>1, Wg0Unwind DEF Wg0Entry
  <2>3. From(Wg0Chain, 1) \o From(MainChain, 1) \in Seq(Objects)
    BY DEF Objects, Range, AcquisitionOrder, From, Wg0Chain, MainChain
  <2>4. IsInjective(From(Wg0Chain, 1) \o From(MainChain, 1))
    <3>1. /\ From(Wg0Chain, 1) \in Seq(Objects) /\ From(MainChain, 1) \in Seq(Objects)
          /\ Range(From(Wg0Chain, 1)) \cap Range(From(MainChain, 1)) = {}
      BY DEF Objects, Range, AcquisitionOrder, From, Wg0Chain, MainChain
    <3>2. IsInjective(From(Wg0Chain, 1)) /\ IsInjective(From(MainChain, 1))
      BY DEF IsInjective, From, Wg0Chain, MainChain
    <3> QED
      BY <3>1, <3>2, ConcatInjective
  <2>5. Range(From(Wg0Chain, 1) \o From(MainChain, 1)) \subseteq Range(SubSeq(AcquisitionOrder, 1, HeldBefore[n]))
    BY <1>28 DEF Range, AcquisitionOrder, HeldBefore, From, Wg0Chain, MainChain
  <2> QED
    BY <2>2, <2>3, <2>4, <2>5 DEF UnwindOK
<1>0. n \in {1, 2, 3, 4, 5, 6, 7, 8, 9, 10, 11, 12, 13, 14,
              15, 16, 17, 18, 19, 20, 21, 22, 23, 24, 25, 26, 27, 28}
  OBVIOUS
<1> QED
  BY <1>0, <1>1, <1>2, <1>3, <1>4, <1>5, <1>6, <1>7, <1>8, <1>9, <1>10, <1>11, <1>12, <1>13, <1>14, <1>15, <1>16, <1>17, <1>18, <1>19, <1>20, <1>21, <1>22, <1>23, <1>24, <1>25, <1>26, <1>27, <1>28, SMTT(30)

\* A prefix of an injective sequence is an injective sequence of its
\* elements; dropping the last element of a prefix gives the next shorter one.
LEMMA PrefixFacts ==
  ASSUME NEW S, NEW s \in Seq(S), IsInjective(s), NEW k \in 0 .. Len(s)
  PROVE  /\ SubSeq(s, 1, k) \in Seq(S)
         /\ Len(SubSeq(s, 1, k)) = k
         /\ IsInjective(SubSeq(s, 1, k))
         /\ Range(SubSeq(s, 1, k)) \subseteq Range(s)
         /\ k > 0 => /\ SubSeq(s, 1, k)[k] = s[k]
                     /\ SubSeq(SubSeq(s, 1, k), 1, k - 1) = SubSeq(s, 1, k - 1)
                     /\ SubSeq(SubSeq(s, 1, k), k + 1, k) = << >>
<1> DEFINE P == SubSeq(s, 1, k)
<1> HIDE DEF P
<1>0. Len(s) \in Nat /\ \A j \in 1 .. Len(s) : s[j] \in S
  BY LenProperties, ElementOfSeq
<1>1. P \in Seq(S) /\ Len(P) = k /\ \A j \in 1 .. k : P[j] = s[j]
  BY <1>0, SubSeqProperties DEF P
<1>2. DOMAIN P = 1 .. k /\ DOMAIN s = 1 .. Len(s)
  BY <1>0, <1>1, LenProperties
<1>3. IsInjective(P)
  BY <1>0, <1>1, <1>2 DEF IsInjective
<1>4. Range(P) \subseteq Range(s)
  BY <1>0, <1>1, <1>2 DEF Range
<1>5. ASSUME k > 0
      PROVE  /\ SubSeq(P, 1, k - 1) = SubSeq(s, 1, k - 1)
             /\ SubSeq(P, k + 1, k) = << >>
  <2>1. SubSeq(P, 1, k - 1) \in Seq(S) /\ Len(SubSeq(P, 1, k - 1)) = k - 1
        /\ \A j \in 1 .. k - 1 : SubSeq(P, 1, k - 1)[j] = P[j]
    BY <1>0, <1>1, <1>5, SubSeqProperties
  <2>2. SubSeq(s, 1, k - 1) \in Seq(S) /\ Len(SubSeq(s, 1, k - 1)) = k - 1
        /\ \A j \in 1 .. k - 1 : SubSeq(s, 1, k - 1)[j] = s[j]
    BY <1>0, <1>5, SubSeqProperties
  <2>3. SubSeq(P, 1, k - 1) = SubSeq(s, 1, k - 1)
    BY <1>0, <1>1, <2>1, <2>2, SeqEqual, SMTT(30)
  <2>4. SubSeq(P, k + 1, k) = << >>
    BY <1>0, <1>1, SubSeqEmpty
  <2> QED
    BY <2>3, <2>4
<1> QED
  BY <1>1, <1>3, <1>4, <1>5 DEF P

\* The whole of a sequence is its longest prefix.
LEMMA WholePrefix ==
  ASSUME NEW S, NEW s \in Seq(S)
  PROVE  SubSeq(s, 1, Len(s)) = s
<1>1. Len(s) \in Nat /\ \A j \in 1 .. Len(s) : s[j] \in S
  BY LenProperties, ElementOfSeq
<1>2. SubSeq(s, 1, Len(s)) \in Seq(S) /\ Len(SubSeq(s, 1, Len(s))) = Len(s)
      /\ \A j \in 1 .. Len(s) : SubSeq(s, 1, Len(s))[j] = s[j]
  BY <1>1, SubSeqProperties
<1> QED
  BY <1>2, SeqEqual

-----------------------------------------------------------------------------
(* Facts about the acquisition order.                                      *)

LEMMA AcquisitionOrderFacts ==
  /\ AcquisitionOrder \in Seq(Objects)
  /\ Len(AcquisitionOrder) = 24
  /\ IsInjective(AcquisitionOrder)
BY DEF AcquisitionOrder, Objects, Range, IsInjective

LEMMA PointsLength == Len(Points) = 28
BY DEF Points, InitPoints, V4Points, V6Points, Wg0Points

\* The prefixes of the acquisition order: what is held at each point.
LEMMA AcquiredPrefix ==
  ASSUME NEW k \in 0 .. 24
  PROVE  /\ SubSeq(AcquisitionOrder, 1, k) \in Seq(Objects)
         /\ Len(SubSeq(AcquisitionOrder, 1, k)) = k
         /\ IsInjective(SubSeq(AcquisitionOrder, 1, k))
         /\ Range(SubSeq(AcquisitionOrder, 1, k)) \subseteq Objects
         /\ k < 24 => Append(SubSeq(AcquisitionOrder, 1, k), AcquisitionOrder[k + 1])
                      = SubSeq(AcquisitionOrder, 1, k + 1)
         /\ k > 0 =>
              /\ SubSeq(AcquisitionOrder, 1, k)[k] = AcquisitionOrder[k]
              /\ SubSeq(SubSeq(AcquisitionOrder, 1, k), 1, k - 1)
                   = SubSeq(AcquisitionOrder, 1, k - 1)
              /\ SubSeq(SubSeq(AcquisitionOrder, 1, k), k + 1, k) = << >>
         /\ k = 24 => SubSeq(AcquisitionOrder, 1, k) = AcquisitionOrder
<1>1. AcquisitionOrder \in Seq(Objects) /\ Len(AcquisitionOrder) = 24
      /\ IsInjective(AcquisitionOrder)
  BY AcquisitionOrderFacts
<1>2. k \in 0 .. Len(AcquisitionOrder)
  BY <1>1
<1>3. Range(AcquisitionOrder) = Objects
  BY DEF Objects
<1>4. k < 24 => k \in 0 .. Len(AcquisitionOrder) - 1
  BY <1>1
<1>5. k < 24 => Append(SubSeq(AcquisitionOrder, 1, k), AcquisitionOrder[k + 1])
                = SubSeq(AcquisitionOrder, 1, k + 1)
  BY <1>1, <1>4, PrefixAppend
<1>6. k = 24 => SubSeq(AcquisitionOrder, 1, k) = AcquisitionOrder
  BY <1>1, WholePrefix
<1>7. /\ SubSeq(AcquisitionOrder, 1, k) \in Seq(Objects)
      /\ Len(SubSeq(AcquisitionOrder, 1, k)) = k
      /\ IsInjective(SubSeq(AcquisitionOrder, 1, k))
      /\ Range(SubSeq(AcquisitionOrder, 1, k)) \subseteq Range(AcquisitionOrder)
      /\ k > 0 =>
           /\ SubSeq(AcquisitionOrder, 1, k)[k] = AcquisitionOrder[k]
           /\ SubSeq(SubSeq(AcquisitionOrder, 1, k), 1, k - 1)
                = SubSeq(AcquisitionOrder, 1, k - 1)
           /\ SubSeq(SubSeq(AcquisitionOrder, 1, k), k + 1, k) = << >>
  BY <1>1, <1>2, PrefixFacts, Zenon
<1> QED
  BY <1>3, <1>5, <1>6, <1>7

LEMMA FullPrefix == SubSeq(AcquisitionOrder, 1, 24) = AcquisitionOrder
<1>1. 24 \in 0 .. 24
  BY SMTT(30)
<1> QED
  BY <1>1, AcquiredPrefix, Zenon

\* A step of mm_netlink_initialize that succeeds: a call leaves what is held
\* alone, an acquisition adds the next object of the acquisition order, and
\* the last point (wg0_tgt_nexthop) acquires the last object.
LEMMA AcquireFacts ==
  ASSUME NEW n \in 1 .. 28
  PROVE  /\ HeldBefore[n] \in 0 .. 23
         /\ n < 28 /\ Points[n] \in Calls => HeldBefore[n + 1] = HeldBefore[n]
         /\ n < 28 /\ Points[n] \notin Calls =>
               /\ HeldBefore[n + 1] = HeldBefore[n] + 1
               /\ AcquisitionOrder[HeldBefore[n] + 1] = Points[n]
         /\ n = 28 => /\ Points[n] \notin Calls /\ HeldBefore[n] = 23
                      /\ AcquisitionOrder[24] = Points[n]
<1>1. CASE n = 1
  BY <1>1 DEF Points, InitPoints, V4Points, V6Points, Wg0Points, Calls, HeldBefore, AcquisitionOrder
<1>2. CASE n = 2
  BY <1>2 DEF Points, InitPoints, V4Points, V6Points, Wg0Points, Calls, HeldBefore, AcquisitionOrder
<1>3. CASE n = 3
  BY <1>3 DEF Points, InitPoints, V4Points, V6Points, Wg0Points, Calls, HeldBefore, AcquisitionOrder
<1>4. CASE n = 4
  BY <1>4 DEF Points, InitPoints, V4Points, V6Points, Wg0Points, Calls, HeldBefore, AcquisitionOrder
<1>5. CASE n = 5
  BY <1>5 DEF Points, InitPoints, V4Points, V6Points, Wg0Points, Calls, HeldBefore, AcquisitionOrder
<1>6. CASE n = 6
  BY <1>6 DEF Points, InitPoints, V4Points, V6Points, Wg0Points, Calls, HeldBefore, AcquisitionOrder
<1>7. CASE n = 7
  BY <1>7 DEF Points, InitPoints, V4Points, V6Points, Wg0Points, Calls, HeldBefore, AcquisitionOrder
<1>8. CASE n = 8
  BY <1>8 DEF Points, InitPoints, V4Points, V6Points, Wg0Points, Calls, HeldBefore, AcquisitionOrder
<1>9. CASE n = 9
  BY <1>9 DEF Points, InitPoints, V4Points, V6Points, Wg0Points, Calls, HeldBefore, AcquisitionOrder
<1>10. CASE n = 10
  BY <1>10 DEF Points, InitPoints, V4Points, V6Points, Wg0Points, Calls, HeldBefore, AcquisitionOrder
<1>11. CASE n = 11
  BY <1>11 DEF Points, InitPoints, V4Points, V6Points, Wg0Points, Calls, HeldBefore, AcquisitionOrder
<1>12. CASE n = 12
  BY <1>12 DEF Points, InitPoints, V4Points, V6Points, Wg0Points, Calls, HeldBefore, AcquisitionOrder
<1>13. CASE n = 13
  BY <1>13 DEF Points, InitPoints, V4Points, V6Points, Wg0Points, Calls, HeldBefore, AcquisitionOrder
<1>14. CASE n = 14
  BY <1>14 DEF Points, InitPoints, V4Points, V6Points, Wg0Points, Calls, HeldBefore, AcquisitionOrder
<1>15. CASE n = 15
  BY <1>15 DEF Points, InitPoints, V4Points, V6Points, Wg0Points, Calls, HeldBefore, AcquisitionOrder
<1>16. CASE n = 16
  BY <1>16 DEF Points, InitPoints, V4Points, V6Points, Wg0Points, Calls, HeldBefore, AcquisitionOrder
<1>17. CASE n = 17
  BY <1>17 DEF Points, InitPoints, V4Points, V6Points, Wg0Points, Calls, HeldBefore, AcquisitionOrder
<1>18. CASE n = 18
  BY <1>18 DEF Points, InitPoints, V4Points, V6Points, Wg0Points, Calls, HeldBefore, AcquisitionOrder
<1>19. CASE n = 19
  BY <1>19 DEF Points, InitPoints, V4Points, V6Points, Wg0Points, Calls, HeldBefore, AcquisitionOrder
<1>20. CASE n = 20
  BY <1>20 DEF Points, InitPoints, V4Points, V6Points, Wg0Points, Calls, HeldBefore, AcquisitionOrder
<1>21. CASE n = 21
  BY <1>21 DEF Points, InitPoints, V4Points, V6Points, Wg0Points, Calls, HeldBefore, AcquisitionOrder
<1>22. CASE n = 22
  BY <1>22 DEF Points, InitPoints, V4Points, V6Points, Wg0Points, Calls, HeldBefore, AcquisitionOrder
<1>23. CASE n = 23
  BY <1>23, SMTT(30) DEF Points, InitPoints, V4Points, V6Points, Wg0Points, Calls, HeldBefore, AcquisitionOrder
<1>24. CASE n = 24
  BY <1>24 DEF Points, InitPoints, V4Points, V6Points, Wg0Points, Calls, HeldBefore, AcquisitionOrder
<1>25. CASE n = 25
  BY <1>25 DEF Points, InitPoints, V4Points, V6Points, Wg0Points, Calls, HeldBefore, AcquisitionOrder
<1>26. CASE n = 26
  BY <1>26 DEF Points, InitPoints, V4Points, V6Points, Wg0Points, Calls, HeldBefore, AcquisitionOrder
<1>27. CASE n = 27
  BY <1>27 DEF Points, InitPoints, V4Points, V6Points, Wg0Points, Calls, HeldBefore, AcquisitionOrder
<1>28. CASE n = 28
  BY <1>28 DEF Points, InitPoints, V4Points, V6Points, Wg0Points, Calls, HeldBefore, AcquisitionOrder
<1>0. n \in {1, 2, 3, 4, 5, 6, 7, 8, 9, 10, 11, 12, 13, 14,
              15, 16, 17, 18, 19, 20, 21, 22, 23, 24, 25, 26, 27, 28}
  OBVIOUS
<1> QED
  BY <1>0, <1>1, <1>2, <1>3, <1>4, <1>5, <1>6, <1>7, <1>8, <1>9, <1>10, <1>11, <1>12, <1>13, <1>14, <1>15, <1>16, <1>17, <1>18, <1>19, <1>20, <1>21, <1>22, <1>23, <1>24, <1>25, <1>26, <1>27, <1>28, Zenon

\* mm_netlink_shutdown releases the objects in the reverse of the order
\* mm_netlink_initialize acquired them.
LEMMA ShutdownIsReverse ==
  ShutdownOrder = Reverse(AcquisitionOrder)
<1>1. DOMAIN ShutdownOrder = 1 .. 24
  BY DEF ShutdownOrder, MainChain, From
<1>2. /\ DOMAIN Reverse(AcquisitionOrder) = 1 .. 24
      /\ \A i \in 1 .. 24 : Reverse(AcquisitionOrder)[i] = AcquisitionOrder[25 - i]
  BY AcquisitionOrderFacts DEF Reverse
<1>3. ASSUME NEW i \in 1 .. 24
      PROVE  ShutdownOrder[i] = AcquisitionOrder[25 - i]
  <2>1. i \in {1, 2, 3, 4, 5, 6, 7, 8, 9, 10, 11, 12, 13, 14, 15, 16, 17, 18,
              19, 20, 21, 22, 23, 24}
    OBVIOUS
  <2> QED
    BY <2>1 DEF ShutdownOrder, MainChain, From, AcquisitionOrder
<1>4. ShutdownOrder = [i \in 1 .. 24 |-> ShutdownOrder[i]]
  BY <1>1 DEF ShutdownOrder, MainChain, From
<1>5. Reverse(AcquisitionOrder) = [i \in 1 .. 24 |-> Reverse(AcquisitionOrder)[i]]
  BY <1>2, Zenon DEF Reverse
<1> QED
  BY <1>2, <1>3, <1>4, <1>5

-----------------------------------------------------------------------------
(* IInv is an inductive invariant.                                         *)

LEMMA InitIInv == Init => IInv
<1> SUFFICES ASSUME Init PROVE IInv
  OBVIOUS
<1>1. SubSeq(AcquisitionOrder, 1, 0) = << >>
  BY AcquisitionOrderFacts, SubSeqEmpty
<1>2. HeldBefore[1] = 0
  BY DEF HeldBefore
<1> QED
  BY <1>1, <1>2 DEF Init, IInv

LEMMA IInvStep == IInv /\ [Next]_vars => IInv'
<1> SUFFICES ASSUME IInv, [Next]_vars PROVE IInv'
  OBVIOUS
<1> DEFINE AO == AcquisitionOrder
<1>0. /\ Len(Points) = 28
      /\ pc \in {"init", "unwind", "failed", "up", "shutdown", "down"}
      /\ next \in 1 .. 28
  BY PointsLength DEF IInv
<1>1. CASE Acquire
  <2> DEFINE h == HeldBefore[next]
  <2>0. /\ h \in 0 .. 23
        /\ next < 28 /\ Points[next] \in Calls => HeldBefore[next + 1] = h
        /\ next < 28 /\ Points[next] \notin Calls =>
              HeldBefore[next + 1] = h + 1 /\ AO[h + 1] = Points[next]
        /\ next = 28 => Points[next] \notin Calls /\ h = 23 /\ AO[24] = Points[next]
    BY <1>0, AcquireFacts, Zenon
  <2>1. pc = "init" /\ live = SubSeq(AO, 1, h)
    BY <1>1 DEF Acquire, IInv
  <2>2. h < 24 => Append(SubSeq(AO, 1, h), AO[h + 1]) = SubSeq(AO, 1, h + 1)
    <3>1. h \in 0 .. 24
      BY <2>0, SMTT(30)
    <3> QED
      BY <3>1, AcquiredPrefix, Zenon
  <2>3. CASE next = 28
    <3>1. pc' = "up" /\ next' = next /\ live' = Append(live, AO[24])
      BY <1>0, <1>1, <2>0, <2>3, SMTT(30) DEF Acquire
    <3>2. SubSeq(AO, 1, 24) = AO
      BY FullPrefix
    <3>3. Append(SubSeq(AO, 1, 23), AO[24]) = SubSeq(AO, 1, 24)
      BY <2>0, <2>2, <2>3, SMTT(30)
    <3>4. live' = AO
      BY <2>0, <2>1, <2>3, <3>1, <3>2, <3>3, Zenon
    <3> QED
      BY <1>0, <3>1, <3>4, SMTT(30) DEF IInv
  <2>4. CASE next < 28 /\ Points[next] \in Calls
    <3>1. pc' = "init" /\ next' = next + 1 /\ live' = live
      BY <1>0, <1>1, <2>4, SMTT(30) DEF Acquire
    <3>2. live' = SubSeq(AO, 1, HeldBefore[next'])
      BY <2>0, <2>1, <2>4, <3>1, Zenon
    <3>3. next' \in 1 .. 28
      BY <1>0, <2>4, <3>1
    <3> QED
      BY <3>1, <3>2, <3>3, Zenon DEF IInv
  <2>5. CASE next < 28 /\ Points[next] \notin Calls
    <3>1. pc' = "init" /\ next' = next + 1 /\ live' = Append(live, Points[next])
      BY <1>0, <1>1, <2>5, SMTT(30) DEF Acquire
    <3>2. live' = SubSeq(AO, 1, HeldBefore[next'])
      <4>1. live' = Append(SubSeq(AO, 1, h), AO[h + 1])
        BY <2>0, <2>1, <2>5, <3>1, Zenon
      <4>2. HeldBefore[next + 1] = h + 1 /\ h < 24
        BY <2>0, <2>5
      <4>3. HeldBefore[next'] = h + 1
        BY <3>1, <4>2, SMTT(30)
      <4> QED
        BY <2>2, <4>1, <4>2, <4>3, Zenon
    <3>3. next' \in 1 .. 28
      BY <1>0, <2>5, <3>1, SMTT(30)
    <3> QED
      BY <3>1, <3>2, <3>3, SMTT(30) DEF IInv
  <2> QED
    BY <1>0, <2>3, <2>4, <2>5, SMTT(30)
<1>2. CASE Fail
  <2>1. pc = "init" /\ pc' = "unwind" /\ next' = next /\ live' = live
        /\ toFree' = Unwind(Points[next])
    BY <1>2 DEF Fail
  <2>2. live = SubSeq(AO, 1, HeldBefore[next]) /\ HeldBefore[next] \in 0 .. 24
    <3>1. HeldBefore[next] \in 0 .. 23
      BY <1>0, AcquireFacts, Zenon
    <3> QED
      BY <2>1, <3>1 DEF IInv
  <2>3. /\ live \in Seq(Objects) /\ IsInjective(live)
        /\ Range(SubSeq(AO, 1, HeldBefore[next])) = Range(live)
    BY <2>2, AcquiredPrefix, Zenon
  <2>4. UnwindOK(next)
    BY <1>0, FailFacts
  <2> QED
    BY <1>0, <2>1, <2>3, <2>4, SMTT(30) DEF UnwindOK, IInv
<1>3. CASE Release
  <2>1. /\ pc \in {"unwind", "shutdown"}
        /\ toFree # << >> /\ pc' = pc /\ next' = next
        /\ live' = RemoveFirst(live, Head(toFree)) /\ toFree' = Tail(toFree)
    BY <1>3 DEF Release
  <2>2. CASE pc = "unwind"
    <3>1. /\ live \in Seq(Objects) /\ IsInjective(live)
          /\ toFree \in Seq(Objects) /\ IsInjective(toFree)
          /\ Range(toFree) \subseteq Range(live)
      BY <2>2 DEF IInv
    <3>2. Head(toFree) \in Range(live)
      <4>1. Len(toFree) \in Nat \ {0} /\ Head(toFree) = toFree[1]
        BY <2>1, <3>1, EmptySeq, HeadTailProperties, SMTT(30)
      <4>2. 1 \in DOMAIN toFree
        BY <3>1, <4>1, LenProperties, SMTT(30)
      <4> QED
        BY <3>1, <4>1, <4>2, SMTT(30) DEF Range
    <3>3. PICK i \in 1 .. Len(live) : live[i] = Head(toFree)
      BY <3>1, <3>2, LenProperties, SMTT(30) DEF Range
    <3>4. live' = SubSeq(live, 1, i - 1) \o SubSeq(live, i + 1, Len(live))
      BY <2>1, <3>1, <3>3, RemoveFirstInjective, Zenon
    <3>5. /\ live' \in Seq(Objects) /\ IsInjective(live')
          /\ Range(live') = Range(live) \ {Head(toFree)}
      BY <3>1, <3>3, <3>4, RemoveAtInjective, Zenon
    <3>6. /\ toFree' \in Seq(Objects) /\ IsInjective(toFree')
          /\ Range(toFree') = Range(toFree) \ {Head(toFree)}
      BY <2>1, <3>1, TailInjective
    <3> QED
      BY <1>0, <2>1, <2>2, <3>1, <3>5, <3>6, SMTT(30) DEF IInv
  <2>3. CASE pc = "shutdown"
    <3>1. PICK k \in 0 .. 24 : live = SubSeq(AO, 1, k)
      BY <2>3, SMTT(30) DEF IInv
    <3>2. toFree = Reverse(live)
      BY <2>3 DEF IInv
    <3>3. /\ live \in Seq(Objects) /\ Len(live) = k /\ IsInjective(live)
          /\ k > 0 => /\ SubSeq(live, 1, k - 1) = SubSeq(AO, 1, k - 1)
                      /\ SubSeq(live, k + 1, k) = << >>
      BY <3>1, AcquiredPrefix, Zenon
    <3>4. k > 0
      BY <2>1, <3>2, <3>3, ReverseProperties, EmptySeq, SMTT(30)
    <3>5. /\ Head(toFree) = live[k]
          /\ toFree' = Reverse(SubSeq(live, 1, k - 1))
      BY <2>1, <3>2, <3>3, <3>4, ReverseProperties, SMTT(30)
    <3>6. k \in 1 .. Len(live)
      BY <3>3, <3>4, SMTT(30)
    <3>7. live' = SubSeq(live, 1, k - 1) \o SubSeq(live, k + 1, Len(live))
      BY <2>1, <3>3, <3>5, <3>6, RemoveFirstInjective, Zenon
    <3>8. live' = SubSeq(AO, 1, k - 1)
      <4>1. SubSeq(AO, 1, k - 1) \in Seq(Objects)
        BY <3>4, AcquiredPrefix
      <4> QED
        BY <3>3, <3>4, <3>7, <4>1, ConcatEmptySeq
    <3>9. k - 1 \in 0 .. 24
      BY <3>4, SMTT(30)
    <3> QED
      BY <1>0, <2>1, <2>3, <3>3, <3>4, <3>5, <3>8, <3>9, Zenon DEF IInv
  <2> QED
    BY <2>1, <2>2, <2>3, SMTT(30)
<1>4. CASE Return
  <2>1. /\ pc \in {"unwind", "shutdown"}
        /\ pc' = IF pc = "unwind" THEN "failed" ELSE "down"
        /\ UNCHANGED <<next, live, toFree>>
    BY <1>4 DEF Return
  <2> QED
    BY <1>0, <2>1, SMTT(30) DEF IInv
<1>5. CASE Shutdown
  <2>1. pc = "up" /\ pc' = "shutdown" /\ toFree' = ShutdownOrder
        /\ UNCHANGED <<next, live>>
    BY <1>5 DEF Shutdown
  <2>2. SubSeq(AO, 1, 24) = AO
    BY FullPrefix
  <2>3. live = SubSeq(AO, 1, 24) /\ toFree' = Reverse(live)
    BY <2>1, <2>2, ShutdownIsReverse, SMTT(30) DEF IInv
  <2> QED
    BY <1>0, <2>1, <2>3 DEF IInv
<1>6. CASE Done \/ UNCHANGED vars
  BY <1>6, Zenon DEF Done, vars, IInv
<1> QED
  BY <1>1, <1>2, <1>3, <1>4, <1>5, <1>6 DEF Next

LEMMA IInvHolds == Spec => []IInv
BY InitIInv, IInvStep, PTL DEF Spec

-----------------------------------------------------------------------------
(* The theorems.                                                           *)

\* No put or free on an error path of mm_netlink_initialize (the nested
\* unwinds of netlink.c and of allocate_ipv4_addrs, allocate_ipv6_addrs and
\* allocate_wg0_resources) or in mm_netlink_shutdown reaches an object that
\* is not held, and none releases an object twice, whichever acquisition or
\* call fails.
THEOREM ReleasesOnlyHeldHolds == Spec => []ReleasesOnlyHeld
<1>1. IInv => ReleasesOnlyHeld
  <2> SUFFICES ASSUME IInv, pc \in {"unwind", "shutdown"}
               PROVE  IsInjective(toFree) /\ Range(toFree) \subseteq Range(live)
    BY DEF ReleasesOnlyHeld
  <2>1. CASE pc = "unwind"
    BY <2>1 DEF IInv
  <2>2. CASE pc = "shutdown"
    <3>1. PICK k \in 0 .. 24 : live = SubSeq(AcquisitionOrder, 1, k)
      BY <2>2 DEF IInv
    <3>2. live \in Seq(Objects) /\ IsInjective(live)
      BY <3>1, AcquiredPrefix, Zenon
    <3>3. toFree = Reverse(live)
      BY <2>2, SMTT(30) DEF IInv
    <3> QED
      BY <3>2, <3>3, ReverseProperties, SMTT(30)
  <2> QED
    BY <2>1, <2>2
<1> QED
  BY <1>1, IInvHolds, PTL

\* mm_netlink_shutdown releases exactly the objects mm_netlink_initialize
\* acquired, in the reverse order of acquisition, and leaves nothing held
\* when it returns.
THEOREM ShutdownReleasesInReverseHolds == Spec => []ShutdownReleasesInReverse
<1>1. IInv => ShutdownReleasesInReverse
  BY DEF IInv, ShutdownReleasesInReverse
<1> QED
  BY <1>1, IInvHolds, PTL

====
