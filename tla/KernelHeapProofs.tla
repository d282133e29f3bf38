-------------------------- MODULE KernelHeapProofs --------------------------
(***************************************************************************)
(* The properties of the kernel heap, for every number and size of slabs,  *)
(* every list of classes and every set of requests.                        *)
(*                                                                         *)
(* The invariant is about slabs S, list heads A and headers H, which are   *)
(* the variables between calls and intermediate values inside one.         *)
(***************************************************************************)
EXTENDS KernelHeapManager, SequenceLemmas

Links == SlabIndexes \cup {INVALID_LIST_INDEX}

SlabSet ==
    [State : {"Free", "Small", "LargeHead", "LargeTail"},
     ClassIndex : Classes \cup {LARGE_CLASS_SENTINEL}, OwnerOrSpan : Nat,
     TotalObjects : Nat, FreeObjects : Nat, FreeList : Seq(Nat),
     PrevAvailable : Links, NextAvailable : Links]

HeaderSet ==
    [slab : SlabIndexes, class : Classes \cup {LARGE_CLASS_SENTINEL}, units : Nat \ {0}]

Types(S, A, H) ==
    /\ S \in [SlabIndexes -> SlabSet]
    /\ A \in [Classes -> Links]
    /\ DOMAIN H \subseteq Nat
    /\ \A a \in DOMAIN H : H[a] \in HeaderSet

-----------------------------------------------------------------------------
(* The class lists                                                         *)

\* Following the links from head, one meets the slabs of q, in both directions.
Spells(q, S, head) ==
    /\ head = IF q = <<>> THEN INVALID_LIST_INDEX ELSE q[1]
    /\ \A n \in 1 .. Len(q) :
         /\ S[q[n]].NextAvailable = IF n < Len(q) THEN q[n + 1] ELSE INVALID_LIST_INDEX
         /\ S[q[n]].PrevAvailable = IF 1 < n THEN q[n - 1] ELSE INVALID_LIST_INDEX

\* The list of every class c has the members M[c], and no other slab has links.
Listed(S, A, M) ==
    /\ \A c \in Classes : \E q \in Seq(SlabIndexes) :
         IsInjective(q) /\ Range(q) = M[c] /\ Spells(q, S, A[c])
    /\ \A i \in SlabIndexes :
         (\A c \in Classes : i \notin M[c]) =>
            /\ S[i].PrevAvailable = INVALID_LIST_INDEX
            /\ S[i].NextAvailable = INVALID_LIST_INDEX

\* The slabs with a free object, by class.
Members(S) ==
    [c \in Classes |->
       {i \in SlabIndexes : S[i].State = "Small" /\ S[i].ClassIndex = c /\ S[i].FreeObjects > 0}]

-----------------------------------------------------------------------------
(* Slabs and headers                                                       *)

\* The places of the objects of a slab.
Objects(i, c) ==
    {GetSlabBaseAddress(i) + m * SLAB_CLASS_SIZES[c] : m \in 0 .. ObjectsPerSlab(c) - 1}

\* Every object is free or allocated.
GoodSmall(s, i, H) ==
    /\ s.ClassIndex \in Classes
    /\ s.TotalObjects = ObjectsPerSlab(s.ClassIndex)
    /\ Len(s.FreeList) = s.FreeObjects
    /\ IsInjective(s.FreeList)
    /\ Range(s.FreeList) \subseteq Objects(i, s.ClassIndex)
    /\ \A a \in Objects(i, s.ClassIndex) \ Range(s.FreeList) : a \in DOMAIN H /\ H[a].slab = i

\* A head and its tails, which name it.
GoodHead(S, i, H) ==
    /\ S[i].OwnerOrSpan >= 1 /\ i + S[i].OwnerOrSpan <= SlabCount
    /\ \A j \in i + 1 .. i + S[i].OwnerOrSpan - 1 :
         S[j].State = "LargeTail" /\ S[j].OwnerOrSpan = i
    /\ GetSlabBaseAddress(i) \in DOMAIN H
    /\ H[GetSlabBaseAddress(i)].slab = i
    /\ H[GetSlabBaseAddress(i)].class = LARGE_CLASS_SENTINEL

GoodTail(S, j) ==
    LET o == S[j].OwnerOrSpan
    IN o \in SlabIndexes /\ S[o].State = "LargeHead" /\ o < j /\ j < o + S[o].OwnerOrSpan

GoodSlab(S, i, H) ==
    /\ S[i].State = "Small" => GoodSmall(S[i], i, H)
    /\ S[i].State = "LargeHead" => GoodHead(S, i, H)
    /\ S[i].State = "LargeTail" => GoodTail(S, i)

\* A header is that of an allocated object, or of a run of slabs that is long enough.
GoodHeader(S, a, e) ==
    \/ /\ e.class \in Classes
       /\ S[e.slab].State = "Small" /\ S[e.slab].ClassIndex = e.class
       /\ a \in Objects(e.slab, e.class) \ Range(S[e.slab].FreeList)
       /\ e.units <= SLAB_CLASS_SIZES[e.class]
    \/ /\ e.class = LARGE_CLASS_SENTINEL
       /\ S[e.slab].State = "LargeHead"
       /\ a = GetSlabBaseAddress(e.slab)
       /\ e.units <= S[e.slab].OwnerOrSpan * SLAB_PAGE_SIZE

Accounted(S, H) ==
    /\ \A i \in SlabIndexes : GoodSlab(S, i, H)
    /\ \A a \in DOMAIN H : GoodHeader(S, a, H[a])

Good(S, A, H) == Types(S, A, H) /\ Listed(S, A, Members(S)) /\ Accounted(S, H)

\* No small slab but those of X is without an allocated object.
NoneIdle(S, X) ==
    \A i \in SlabIndexes \ X : S[i].State = "Small" => S[i].FreeObjects < S[i].TotalObjects

\* The inductive invariant.
HeapInv == Good(Slabs, ClassAvailableHead, Headers) /\ NoneIdle(Slabs, {})

-----------------------------------------------------------------------------
(* Arithmetic of places                                                    *)

\* Multiplication by a natural number keeps the order.
LEMMA TimesMonotonic ==
    ASSUME NEW k \in Nat, NEW m \in Nat, NEW z \in Nat, k <= m
    PROVE  k * z \in Nat /\ m * z \in Nat /\ k * z <= m * z
<1>1. PICK d \in Nat : m = k + d
  BY m - k \in Nat
<1>2. m * z = k * z + d * z
  BY <1>1
<1>3. d * z \in Nat /\ k * z \in Nat
  OBVIOUS
<1> QED
  BY <1>1, <1>2, <1>3

\* A quotient rounds down, and to at least one when the divisor fits.
LEMMA DivisionBounds ==
    ASSUME NEW p \in Nat, NEW z \in Nat \ {0}
    PROVE  /\ p \div z \in Nat
           /\ (p \div z) * z <= p
           /\ p < (p \div z) * z + z
           /\ z <= p => p \div z >= 1
<1>1. p = (p \div z) * z + (p % z) /\ p % z \in 0 .. z - 1 /\ p \div z \in Int
  OBVIOUS
<1>2. p \div z \in Nat
  OBVIOUS
<1>3. z <= p => p \div z >= 1
  BY <1>1, <1>2
<1> QED
  BY <1>1, <1>2, <1>3

\* The objects of a class fit into a slab, and there is at least one.
LEMMA ClassFits ==
    ASSUME NEW c \in Classes
    PROVE  /\ SLAB_CLASS_SIZES[c] \in Nat \ {0}
           /\ SLAB_PAGE_SIZE \in Nat \ {0}
           /\ ObjectsPerSlab(c) \in Nat \ {0}
           /\ ObjectsPerSlab(c) * SLAB_CLASS_SIZES[c] <= SLAB_PAGE_SIZE
<1>1. SLAB_CLASS_SIZES[c] \in 1 .. SLAB_PAGE_SIZE /\ SLAB_PAGE_SIZE \in Nat \ {0}
  BY HeapAssumption DEF Classes
<1> QED
  BY <1>1, DivisionBounds DEF ObjectsPerSlab

\* The slabs follow each other, a page apart.
LEMMA SlabBase ==
    ASSUME NEW i \in Nat, NEW j \in Nat, i <= j
    PROVE  /\ GetSlabBaseAddress(i) \in Nat /\ GetSlabBaseAddress(j) \in Nat
           /\ GetSlabBaseAddress(i) <= GetSlabBaseAddress(j)
           /\ GetSlabBaseAddress(j) = GetSlabBaseAddress(i) + (j - i) * SLAB_PAGE_SIZE
           /\ GetSlabBaseAddress(i + 1) = GetSlabBaseAddress(i) + SLAB_PAGE_SIZE
<1>1. SLAB_PAGE_SIZE \in Nat
  BY HeapAssumption
<1> QED
  BY <1>1, TimesMonotonic DEF GetSlabBaseAddress

\* The index and the address of a slab are natural numbers.
LEMMA BaseType ==
    ASSUME NEW i \in SlabIndexes
    PROVE  i \in Nat /\ GetSlabBaseAddress(i) \in Nat
<1>1. i \in Nat
  BY HeapAssumption DEF SlabIndexes
<1> QED
  BY <1>1, SlabBase

\* An object lies in its slab, and two of them do not overlap.
LEMMA ObjectPlaces ==
    ASSUME NEW i \in SlabIndexes, NEW c \in Classes, NEW a \in Objects(i, c)
    PROVE  /\ a \in Nat
           /\ GetSlabBaseAddress(i) <= a
           /\ a + SLAB_CLASS_SIZES[c] <= GetSlabBaseAddress(i) + SLAB_PAGE_SIZE
           /\ (a - GetSlabBaseAddress(i)) % SLAB_CLASS_SIZES[c] = 0
           /\ \A b \in Objects(i, c) : a < b => a + SLAB_CLASS_SIZES[c] <= b
<1> DEFINE z == SLAB_CLASS_SIZES[c]
           n == ObjectsPerSlab(c)
           B == GetSlabBaseAddress(i)
<1>1. z \in Nat \ {0} /\ n \in Nat \ {0} /\ n * z <= SLAB_PAGE_SIZE /\ SLAB_PAGE_SIZE \in Nat
  BY ClassFits
<1>2. B \in Nat
  BY BaseType
<1>3. PICK m \in 0 .. n - 1 : a = B + m * z
  BY DEF Objects
<1>4. \A b \in Objects(i, c) : \E l \in 0 .. n - 1 : b = B + l * z
  BY DEF Objects
<1> HIDE DEF z, n, B
<1>5. m * z \in Nat /\ (m + 1) * z = m * z + z /\ (m + 1) * z <= n * z
  BY <1>1, <1>3, TimesMonotonic
<1>6. ASSUME NEW b \in Objects(i, c), a < b PROVE a + z <= b
  <2>1. PICK l \in 0 .. n - 1 : b = B + l * z
    BY <1>4
  <2>2. CASE l <= m
    <3>1. l * z <= m * z
      BY <1>1, <1>3, <2>1, <2>2, TimesMonotonic
    <3>2. l * z \in Nat
      BY <1>1, <2>1
    <3> QED
      BY <1>2, <1>3, <1>5, <1>6, <2>1, <3>1, <3>2
  <2>3. CASE m + 1 <= l
    <3>1. (m + 1) * z <= l * z /\ l * z \in Nat
      BY <1>1, <1>3, <2>1, <2>3, TimesMonotonic
    <3> QED
      BY <1>1, <1>2, <1>3, <1>5, <2>1, <3>1
  <2> QED
    BY <1>1, <1>3, <2>1, <2>2, <2>3
<1>7. (m * z) % z = 0
  BY <1>1, <1>3
<1>8. a - B = m * z /\ a \in Nat
  BY <1>2, <1>3, <1>5
<1>9. (a - B) % z = 0
  BY <1>7, <1>8
<1>10. B <= a /\ a + z <= B + SLAB_PAGE_SIZE
  BY <1>1, <1>2, <1>3, <1>5
<1> QED
  BY <1>6, <1>8, <1>9, <1>10 DEF z, B

-----------------------------------------------------------------------------
(* Cardinalities                                                           *)

\* A sequence without repetition has as many elements as it is long.
LEMMA InjectiveCardinality ==
    ASSUME NEW T, NEW q \in Seq(T), IsInjective(q)
    PROVE  IsFiniteSet(Range(q)) /\ Cardinality(Range(q)) = Len(q)
<1>1. Len(q) \in Nat /\ DOMAIN q = 1 .. Len(q)
  OBVIOUS
<1>2. IsFiniteSet(1 .. Len(q)) /\ Cardinality(1 .. Len(q)) = Len(q)
  BY <1>1, FS_Interval
<1>3. q \in [1 .. Len(q) -> Range(q)]
  BY <1>1 DEF Range
<1>4. \A x, y \in 1 .. Len(q) : q[x] = q[y] => x = y
  BY <1>1 DEF IsInjective
<1>5. \A y \in Range(q) : \E x \in 1 .. Len(q) : q[x] = y
  BY <1>1 DEF Range
<1>6. q \in Bijection(1 .. Len(q), Range(q))
  BY <1>3, <1>4, <1>5 DEF Bijection, Injection, Surjection
<1>7. ExistsBijection(1 .. Len(q), Range(q))
  BY <1>6 DEF ExistsBijection
<1> QED
  BY <1>2, <1>7, FS_Bijection

\* The list of a fresh slab holds each of its objects once.
LEMMA FreshObjects ==
    ASSUME NEW i \in SlabIndexes, NEW c \in Classes
    PROVE  /\ ObjectAddresses(i, c) \in Seq(Nat)
           /\ Len(ObjectAddresses(i, c)) = ObjectsPerSlab(c)
           /\ IsInjective(ObjectAddresses(i, c))
           /\ Range(ObjectAddresses(i, c)) = Objects(i, c)
<1> DEFINE z == SLAB_CLASS_SIZES[c]
           n == ObjectsPerSlab(c)
           B == GetSlabBaseAddress(i)
           f == ObjectAddresses(i, c)
<1>1. z \in Nat \ {0} /\ n \in Nat \ {0}
  BY ClassFits
<1>2. B \in Nat
  BY BaseType
<1>3. f = [k \in 1 .. n |-> B + (n - k) * z]
  BY DEF ObjectAddresses
<1>4. Objects(i, c) = {B + m * z : m \in 0 .. n - 1}
  BY DEF Objects
<1> HIDE DEF z, n, B, f
<1>5. \A k \in 1 .. n : n - k \in Nat /\ n - k \in 0 .. n - 1
  BY <1>1
<1>6. \A k \in 1 .. n : (n - k) * z \in Nat
  BY <1>1, <1>5, TimesMonotonic
<1>7. f \in [1 .. n -> Nat]
  BY SMTT(30), <1>1, <1>2, <1>3, <1>6
<1>8. f \in Seq(Nat) /\ Len(f) = n /\ DOMAIN f = 1 .. n
  BY <1>1, <1>7
<1>9. ASSUME NEW k \in 1 .. n, NEW l \in 1 .. n, k < l
      PROVE  f[k] # f[l]
  <2>1. (n - l + 1) * z <= (n - k) * z
    <3>1. n - l + 1 \in Nat /\ n - k \in Nat /\ n - l + 1 <= n - k
      BY <1>1, <1>9
    <3> QED
      BY <1>1, <3>1, TimesMonotonic
  <2>2. (n - l + 1) * z = (n - l) * z + z
    BY <1>1
  <2>3. (n - l) * z \in Nat /\ (n - k) * z \in Nat
    BY <1>6
  <2> QED
    BY <1>1, <1>2, <1>3, <2>1, <2>2, <2>3
<1>10. IsInjective(f)
  <2> SUFFICES ASSUME NEW k \in 1 .. n, NEW l \in 1 .. n, f[k] = f[l] PROVE k = l
    BY <1>8 DEF IsInjective
  <2> QED
    BY <1>1, <1>9
<1>11. Range(f) = Objects(i, c)
  <2>1. ASSUME NEW a \in Range(f) PROVE a \in Objects(i, c)
    BY <1>3, <1>4, <1>5, <1>8 DEF Range
  <2>2. ASSUME NEW a \in Objects(i, c) PROVE a \in Range(f)
    <3>1. PICK m \in 0 .. n - 1 : a = B + m * z
      BY <1>4
    <3>2. n - m \in 1 .. n /\ n - (n - m) = m
      BY <1>1
    <3>3. f[n - m] = a
      BY <1>3, <3>1, <3>2
    <3> QED
      BY <1>8, <3>2, <3>3 DEF Range
  <2> QED
    BY <2>1, <2>2
<1> QED
  BY <1>8, <1>10, <1>11 DEF f, n

\* A slab has as many objects as ObjectsPerSlab says.
LEMMA ObjectsCounted ==
    ASSUME NEW i \in SlabIndexes, NEW c \in Classes
    PROVE  /\ IsFiniteSet(Objects(i, c))
           /\ Cardinality(Objects(i, c)) = ObjectsPerSlab(c)
  BY FreshObjects, InjectiveCardinality

\* The objects that are not on the free list are as many as are missing there.
LEMMA Missing ==
    ASSUME NEW i \in SlabIndexes, NEW c \in Classes, NEW q \in Seq(Nat), IsInjective(q),
           Range(q) \subseteq Objects(i, c)
    PROVE  /\ IsFiniteSet(Objects(i, c) \ Range(q))
           /\ Cardinality(Objects(i, c) \ Range(q)) + Len(q) = ObjectsPerSlab(c)
           /\ Len(q) = ObjectsPerSlab(c) => Range(q) = Objects(i, c)
           /\ Len(q) < ObjectsPerSlab(c) => Objects(i, c) \ Range(q) # {}
<1>1. IsFiniteSet(Range(q)) /\ Cardinality(Range(q)) = Len(q) /\ Len(q) \in Nat
  BY InjectiveCardinality
<1>2. IsFiniteSet(Objects(i, c)) /\ Cardinality(Objects(i, c)) = ObjectsPerSlab(c)
  BY ObjectsCounted
<1>3. ObjectsPerSlab(c) \in Nat
  BY ClassFits
<1>4. Cardinality(Objects(i, c) \ Range(q))
        = Cardinality(Objects(i, c)) - Cardinality(Objects(i, c) \cap Range(q))
      /\ IsFiniteSet(Objects(i, c) \ Range(q))
      /\ Cardinality(Objects(i, c) \ Range(q)) \in Nat
  BY <1>2, FS_Difference, FS_CardinalityType
<1>5. Objects(i, c) \cap Range(q) = Range(q)
  OBVIOUS
<1>6. Cardinality(Objects(i, c) \ Range(q)) + Len(q) = ObjectsPerSlab(c)
  <2>1. Cardinality(Objects(i, c) \cap Range(q)) = Len(q)
    BY <1>1, <1>5
  <2> QED
    BY <1>1, <1>2, <1>3, <1>4, <2>1
<1>7. Len(q) = ObjectsPerSlab(c) => Range(q) = Objects(i, c)
  <2>1. Range(q) \in SUBSET Objects(i, c)
    OBVIOUS
  <2> QED
    BY <1>1, <1>2, <2>1, FS_Subset
<1>8. Len(q) < ObjectsPerSlab(c) => Objects(i, c) \ Range(q) # {}
  <2>1. Objects(i, c) \ Range(q) = {} => Cardinality(Objects(i, c) \ Range(q)) = 0
    BY FS_EmptySet
  <2> QED
    BY <1>1, <1>3, <1>6, <2>1
<1> QED
  BY <1>4, <1>6, <1>7, <1>8

-----------------------------------------------------------------------------
(* Linking and unlinking a slab                                            *)

\* Two descriptors that differ in their links only.
SameData(s, t) ==
    /\ t.State = s.State /\ t.ClassIndex = s.ClassIndex /\ t.OwnerOrSpan = s.OwnerOrSpan
    /\ t.TotalObjects = s.TotalObjects
    /\ t.FreeObjects = s.FreeObjects /\ t.FreeList = s.FreeList

Relinked(S, S2) ==
    /\ S2 \in [SlabIndexes -> SlabSet]
    /\ \A j \in SlabIndexes : SameData(S[j], S2[j])

\* No slab is in the lists of two classes.
Apart(M) ==
    /\ M \in [Classes -> SUBSET SlabIndexes]
    /\ \A c, d \in Classes : c # d => M[c] \cap M[d] = {}

\* INVALID_LIST_INDEX is a link and no slab.
LEMMA NoLink == INVALID_LIST_INDEX \in Links /\ INVALID_LIST_INDEX \notin SlabIndexes
  BY HeapAssumption DEF Links, INVALID_LIST_INDEX, SlabIndexes

\* Another pair of links in a slab.
Linked(s, prev, next) == [s EXCEPT !.PrevAvailable = prev, !.NextAvailable = next]

\* Writing the two links of a slab leaves its other fields alone.
LEMMA LinkedFields ==
    ASSUME NEW s \in SlabSet, NEW prev \in Links, NEW next \in Links
    PROVE  /\ Linked(s, prev, next) \in SlabSet
           /\ Linked(s, prev, next).PrevAvailable = prev
           /\ Linked(s, prev, next).NextAvailable = next
           /\ Linked(s, prev, next).State = s.State
           /\ Linked(s, prev, next).ClassIndex = s.ClassIndex
           /\ Linked(s, prev, next).OwnerOrSpan = s.OwnerOrSpan
           /\ Linked(s, prev, next).TotalObjects = s.TotalObjects
           /\ Linked(s, prev, next).FreeObjects = s.FreeObjects
           /\ Linked(s, prev, next).FreeList = s.FreeList
  BY DEF Linked, SlabSet

\* The slabs with other links in one of them.
WithLinks(S, k, prev, next) ==
    [j \in SlabIndexes |-> IF j = k THEN Linked(S[k], prev, next) ELSE S[j]]

\* Writing the links of slab k leaves the other slabs alone.
LEMMA RelinkOne ==
    ASSUME NEW S \in [SlabIndexes -> SlabSet], NEW k \in SlabIndexes,
           NEW prev \in Links, NEW next \in Links,
           NEW S2, S2 = WithLinks(S, k, prev, next)
    PROVE  /\ Relinked(S, S2)
           /\ S2[k].PrevAvailable = prev /\ S2[k].NextAvailable = next
           /\ \A j \in SlabIndexes \ {k} : S2[j] = S[j]
<1> DEFINE l == Linked(S[k], prev, next)
<1>1. S[k] \in SlabSet
  OBVIOUS
<1>2. l \in SlabSet
  BY <1>1, LinkedFields
<1>3. /\ S2[k] = l /\ \A j \in SlabIndexes \ {k} : S2[j] = S[j]
      /\ S2 \in [SlabIndexes -> SlabSet]
  BY <1>2 DEF WithLinks
<1>4. /\ l.PrevAvailable = prev /\ l.NextAvailable = next
      /\ l.State = S[k].State /\ l.ClassIndex = S[k].ClassIndex
      /\ l.OwnerOrSpan = S[k].OwnerOrSpan
      /\ l.TotalObjects = S[k].TotalObjects
      /\ l.FreeObjects = S[k].FreeObjects /\ l.FreeList = S[k].FreeList
  BY <1>1, LinkedFields
<1> HIDE DEF l
<1>5. Relinked(S, S2)
  BY <1>3, <1>4 DEF Relinked, SameData
<1> QED
  BY <1>3, <1>4, <1>5

\* The same where both links become invalid.
LEMMA ClearLinks ==
    ASSUME NEW S \in [SlabIndexes -> SlabSet], NEW k \in SlabIndexes,
           NEW S2, S2 = WithLinks(S, k, INVALID_LIST_INDEX, INVALID_LIST_INDEX)
    PROVE  /\ Relinked(S, S2)
           /\ S2[k].PrevAvailable = INVALID_LIST_INDEX
           /\ S2[k].NextAvailable = INVALID_LIST_INDEX
           /\ \A j \in SlabIndexes \ {k} : S2[j] = S[j]
  BY NoLink, RelinkOne

\* Writing one link writes both, the other with its old value.
LEMMA SameLinks ==
    ASSUME NEW s \in SlabSet
    PROVE  /\ Linked(s, s.PrevAvailable, s.NextAvailable) = s
           /\ \A p \in Links : [s EXCEPT !.PrevAvailable = p] = Linked(s, p, s.NextAvailable)
           /\ \A n \in Links : [s EXCEPT !.NextAvailable = n] = Linked(s, s.PrevAvailable, n)
  BY DEF Linked, SlabSet

\* A pair of slabs and heads, the way an operation passes it on.
Pair(h, S, A) == h = [slabs |-> S, heads |-> A]

\* The links of T have slab i in front of head.
Fronted(S, T, i, head) ==
    /\ T[i].PrevAvailable = INVALID_LIST_INDEX /\ T[i].NextAvailable = head
    /\ \A j \in SlabIndexes \ {i} :
         /\ T[j].PrevAvailable = IF j = head THEN i ELSE S[j].PrevAvailable
         /\ T[j].NextAvailable = S[j].NextAvailable

\* What LinkSlabIntoClassList does to a slab that is not in the list.
LEMMA LinkEffect ==
    ASSUME NEW S \in [SlabIndexes -> SlabSet], NEW A \in [Classes -> Links],
           NEW i \in SlabIndexes, NEW c \in Classes,
           S[i].PrevAvailable = INVALID_LIST_INDEX, S[i].NextAvailable = INVALID_LIST_INDEX,
           A[c] # i,
           NEW h, Pair(h, S, A),
           NEW g, g = LinkSlabIntoClassList(h, i, c)
    PROVE  /\ Relinked(S, g.slabs)
           /\ Fronted(S, g.slabs, i, A[c])
           /\ g.heads \in [Classes -> Links] /\ g.heads[c] = i
           /\ \A d \in Classes \ {c} : g.heads[d] = A[d]
           /\ Pair(g, g.slabs, g.heads)
<1> DEFINE head == A[c]
           linked == [S EXCEPT ![i].PrevAvailable = INVALID_LIST_INDEX,
                               ![i].NextAvailable = head]
           after == IF head = INVALID_LIST_INDEX THEN linked
                    ELSE [linked EXCEPT ![head].PrevAvailable = i]
<1>1. /\ g.slabs = after /\ g.heads = [A EXCEPT ![c] = i]
      /\ Pair(g, g.slabs, g.heads)
  BY DEF LinkSlabIntoClassList, Pair
<1>2. i \in Links /\ head \in Links /\ INVALID_LIST_INDEX \in Links
  BY NoLink DEF Links
<1>3. linked = WithLinks(S, i, INVALID_LIST_INDEX, head)
  BY DEF Linked, WithLinks
<1> HIDE DEF linked
<1>4. /\ Relinked(S, linked)
      /\ linked[i].PrevAvailable = INVALID_LIST_INDEX /\ linked[i].NextAvailable = head
      /\ \A j \in SlabIndexes \ {i} : linked[j] = S[j]
  BY <1>2, <1>3, RelinkOne
<1>5. /\ g.heads \in [Classes -> Links] /\ g.heads[c] = i
      /\ \A d \in Classes \ {c} : g.heads[d] = A[d]
      /\ Pair(g, g.slabs, g.heads)
  BY <1>1, <1>2
<1>6. CASE head = INVALID_LIST_INDEX
  BY <1>1, <1>4, <1>5, <1>6, NoLink DEF Fronted
<1>7. CASE head \in SlabIndexes
  <2>1. linked \in [SlabIndexes -> SlabSet] /\ linked[head] \in SlabSet
    BY <1>4, <1>7 DEF Relinked, SameData
  <2>2. PICK next \in Links : next = linked[head].NextAvailable
    BY <2>1 DEF SlabSet
  <2>3. after = WithLinks(linked, head, i, next)
    <3>1. after = [linked EXCEPT ![head] = [linked[head] EXCEPT !.PrevAvailable = i]]
      BY <1>7, NoLink
    <3>2. [linked[head] EXCEPT !.PrevAvailable = i] = Linked(linked[head], i, next)
      BY <1>2, <2>1, <2>2, SameLinks
    <3> QED
      BY <1>7, <2>1, <3>1, <3>2 DEF WithLinks
  <2> HIDE DEF after
  <2>4. /\ Relinked(linked, after)
        /\ after[head].PrevAvailable = i /\ after[head].NextAvailable = next
        /\ \A j \in SlabIndexes \ {head} : after[j] = linked[j]
    BY <1>2, <1>7, <2>1, <2>2, <2>3, RelinkOne
  <2>5. Relinked(S, after)
    BY <1>4, <2>4 DEF Relinked, SameData
  <2> QED
    BY <1>1, <1>4, <1>5, <1>7, <2>2, <2>4, <2>5 DEF Fronted
<1> QED
  BY <1>2, <1>6, <1>7 DEF Links

\* The links around slab i are those of T, and its own are gone.
Bypassed(S, T, i) ==
    /\ T[i].PrevAvailable = INVALID_LIST_INDEX
    /\ T[i].NextAvailable = INVALID_LIST_INDEX
    /\ \A j \in SlabIndexes \ {i} :
         /\ T[j].PrevAvailable = IF j = S[i].NextAvailable THEN S[i].PrevAvailable
                                 ELSE S[j].PrevAvailable
         /\ T[j].NextAvailable = IF j = S[i].PrevAvailable THEN S[i].NextAvailable
                                 ELSE S[j].NextAvailable

\* What UnlinkSlabFromClassList does to a slab that is not its own neighbour.
LEMMA UnlinkEffect ==
    ASSUME NEW S \in [SlabIndexes -> SlabSet], NEW A \in [Classes -> Links],
           NEW i \in SlabIndexes, NEW c \in Classes,
           S[i].PrevAvailable # i, S[i].NextAvailable # i,
           NEW h, Pair(h, S, A),
           NEW g, g = UnlinkSlabFromClassList(h, i, c)
    PROVE  /\ Relinked(S, g.slabs)
           /\ Bypassed(S, g.slabs, i)
           /\ g.heads \in [Classes -> Links]
           /\ \A d \in Classes \ {c} : g.heads[d] = A[d]
           /\ g.heads[c] = IF S[i].PrevAvailable = INVALID_LIST_INDEX /\ A[c] = i
                           THEN S[i].NextAvailable ELSE A[c]
           /\ Pair(g, g.slabs, g.heads)
<1>1. S[i].PrevAvailable \in Links /\ S[i].NextAvailable \in Links
  BY DEF SlabSet
<1>2. PICK prev \in Links : prev = S[i].PrevAvailable
  BY <1>1
<1>3. PICK next \in Links : next = S[i].NextAvailable
  BY <1>1
<1>4. prev # i /\ next # i
  BY <1>2, <1>3
<1> DEFINE before == IF prev = INVALID_LIST_INDEX THEN S
                     ELSE [S EXCEPT ![prev].NextAvailable = next]
           after == IF next = INVALID_LIST_INDEX THEN before
                    ELSE [before EXCEPT ![next].PrevAvailable = prev]
           last == [after EXCEPT ![i].PrevAvailable = INVALID_LIST_INDEX,
                                 ![i].NextAvailable = INVALID_LIST_INDEX]
<1>5. /\ g.slabs = last
      /\ g.heads = IF prev = INVALID_LIST_INDEX /\ A[c] = i THEN [A EXCEPT ![c] = next] ELSE A
      /\ Pair(g, g.slabs, g.heads)
  BY <1>2, <1>3 DEF UnlinkSlabFromClassList, Pair
<1>6. INVALID_LIST_INDEX \in Links /\ Links = SlabIndexes \cup {INVALID_LIST_INDEX}
  BY NoLink DEF Links
<1>7. /\ Relinked(S, before)
      /\ \A j \in SlabIndexes :
           /\ before[j].PrevAvailable = S[j].PrevAvailable
           /\ before[j].NextAvailable = IF j = prev THEN next ELSE S[j].NextAvailable
  <2>1. CASE prev = INVALID_LIST_INDEX
    BY <2>1, NoLink DEF Relinked, SameData
  <2>2. CASE prev \in SlabIndexes
    <3>1. S[prev] \in SlabSet
      BY <2>2
    <3>2. PICK p \in Links : p = S[prev].PrevAvailable
      BY <3>1 DEF SlabSet
    <3>3. before = WithLinks(S, prev, p, next)
      <4>1. before = [S EXCEPT ![prev] = [S[prev] EXCEPT !.NextAvailable = next]]
        BY <2>2, NoLink
      <4>2. [S[prev] EXCEPT !.NextAvailable = next] = Linked(S[prev], p, next)
        BY <3>1, <3>2, SameLinks
      <4> QED
        BY <2>2, <4>1, <4>2 DEF WithLinks
    <3> HIDE DEF before
    <3>4. /\ Relinked(S, before)
          /\ before[prev].PrevAvailable = p /\ before[prev].NextAvailable = next
          /\ \A j \in SlabIndexes \ {prev} : before[j] = S[j]
      BY <2>2, <3>2, <3>3, RelinkOne
    <3> QED
      BY <2>2, <3>2, <3>4
  <2> QED
    BY <1>6, <2>1, <2>2
<1> HIDE DEF before
<1>8. /\ Relinked(S, after)
      /\ \A j \in SlabIndexes :
           /\ after[j].PrevAvailable = IF j = next THEN prev ELSE S[j].PrevAvailable
           /\ after[j].NextAvailable = IF j = prev THEN next ELSE S[j].NextAvailable
  <2>1. CASE next = INVALID_LIST_INDEX
    BY <1>7, <2>1, NoLink
  <2>2. CASE next \in SlabIndexes
    <3>1. before \in [SlabIndexes -> SlabSet] /\ before[next] \in SlabSet
      BY <1>7, <2>2 DEF Relinked, SameData
    <3>2. PICK n \in Links : n = before[next].NextAvailable
      BY <3>1 DEF SlabSet
    <3>3. after = WithLinks(before, next, prev, n)
      <4>1. after = [before EXCEPT ![next] = [before[next] EXCEPT !.PrevAvailable = prev]]
        BY <2>2, NoLink
      <4>2. [before[next] EXCEPT !.PrevAvailable = prev] = Linked(before[next], prev, n)
        BY <3>1, <3>2, SameLinks
      <4> QED
        BY <2>2, <3>1, <4>1, <4>2 DEF WithLinks
    <3> HIDE DEF after
    <3>4. /\ Relinked(before, after)
          /\ after[next].PrevAvailable = prev /\ after[next].NextAvailable = n
          /\ \A j \in SlabIndexes \ {next} : after[j] = before[j]
      BY <2>2, <3>1, <3>2, <3>3, RelinkOne
    <3>5. Relinked(S, after)
      BY <1>7, <3>4 DEF Relinked, SameData
    <3> QED
      BY <1>7, <2>2, <3>2, <3>4, <3>5
  <2> QED
    BY <1>6, <2>1, <2>2
<1> HIDE DEF after
<1>9. after \in [SlabIndexes -> SlabSet]
  BY <1>8 DEF Relinked, SameData
<1>10. last = WithLinks(after, i, INVALID_LIST_INDEX, INVALID_LIST_INDEX)
  <2>1. last = [after EXCEPT ![i] = [after[i] EXCEPT !.PrevAvailable = INVALID_LIST_INDEX,
                                                     !.NextAvailable = INVALID_LIST_INDEX]]
    BY <1>9
  <2>2. last = [after EXCEPT ![i] = Linked(after[i], INVALID_LIST_INDEX, INVALID_LIST_INDEX)]
    BY <2>1 DEF Linked
  <2> QED
    BY <1>9, <2>2 DEF WithLinks
<1> HIDE DEF last
<1>11. /\ Relinked(after, last)
       /\ last[i].PrevAvailable = INVALID_LIST_INDEX /\ last[i].NextAvailable = INVALID_LIST_INDEX
       /\ \A j \in SlabIndexes \ {i} : last[j] = after[j]
  BY <1>9, <1>10, ClearLinks
<1>12. Relinked(S, last)
  BY <1>8, <1>11 DEF Relinked, SameData
<1>13. Bypassed(S, last, i)
  BY <1>8, <1>11, <1>2, <1>3 DEF Bypassed
<1>14. /\ g.heads \in [Classes -> Links]
       /\ \A d \in Classes \ {c} : g.heads[d] = A[d]
       /\ g.heads[c] = IF prev = INVALID_LIST_INDEX /\ A[c] = i THEN next ELSE A[c]
  BY <1>5
<1> QED
  BY <1>5, <1>12, <1>13, <1>14, <1>2, <1>3

-----------------------------------------------------------------------------
(* The lists after linking and unlinking                                   *)

\* The links of S2 have slab i in front of the slabs R, whose first is head.
Precedes(i, R, S, S2, head) ==
    /\ \A j \in R : /\ S2[j].PrevAvailable = IF j = head THEN i ELSE S[j].PrevAvailable
                    /\ S2[j].NextAvailable = S[j].NextAvailable
    /\ S2[i].PrevAvailable = INVALID_LIST_INDEX /\ S2[i].NextAvailable = head

\* The slab i in front of the list that q spells.
LEMMA SpellsFront ==
    ASSUME NEW q \in Seq(SlabIndexes), IsInjective(q), NEW i \in SlabIndexes, i \notin Range(q),
           NEW S, NEW S2, NEW head, Spells(q, S, head), Precedes(i, Range(q), S, S2, head)
    PROVE  \E r \in Seq(SlabIndexes) :
             IsInjective(r) /\ Range(r) = Range(q) \cup {i} /\ Spells(r, S2, i)
<1> DEFINE L == Len(q)
           r == <<i>> \o q
<1>1. L \in Nat /\ DOMAIN q = 1 .. L /\ \A n \in 1 .. L : q[n] \in SlabIndexes
  OBVIOUS
<1>2. /\ r \in Seq(SlabIndexes) /\ Len(r) = L + 1 /\ DOMAIN r = 1 .. L + 1
      /\ r[1] = i /\ \A n \in 1 .. L : r[n + 1] = q[n]
  BY <1>1
<1> HIDE DEF r
<1>3. \A n \in 2 .. L + 1 : n - 1 \in 1 .. L /\ r[n] = q[n - 1]
  <2> SUFFICES ASSUME NEW n \in 2 .. L + 1 PROVE n - 1 \in 1 .. L /\ r[n] = q[n - 1]
    OBVIOUS
  <2>1. n - 1 \in 1 .. L /\ (n - 1) + 1 = n
    BY <1>1
  <2> QED
    BY <1>2, <2>1
<1>4. \A n \in 1 .. L : q[n] # i /\ q[n] \in Range(q)
  BY <1>1 DEF Range
<1>5. IsInjective(r)
  <2> SUFFICES ASSUME NEW n \in 1 .. L + 1, NEW m \in 1 .. L + 1, r[n] = r[m] PROVE n = m
    BY <1>2 DEF IsInjective
  <2>1. \A a, b \in 1 .. L : q[a] = q[b] => a = b
    BY <1>1 DEF IsInjective
  <2> QED
    BY <1>1, <1>2, <1>3, <1>4, <2>1
<1>6. Range(r) = Range(q) \cup {i}
  <2>1. \A x \in Range(r) : x \in Range(q) \cup {i}
    <3> SUFFICES ASSUME NEW n \in 1 .. L + 1 PROVE r[n] \in Range(q) \cup {i}
      BY <1>2 DEF Range
    <3> QED
      BY <1>1, <1>2, <1>3, <1>4
  <2>2. i \in Range(r)
    BY <1>1, <1>2 DEF Range
  <2>3. \A x \in Range(q) : x \in Range(r)
    <3> SUFFICES ASSUME NEW n \in 1 .. L PROVE q[n] \in Range(r)
      BY <1>1 DEF Range
    <3>1. n + 1 \in 1 .. L + 1 /\ r[n + 1] = q[n]
      BY <1>1, <1>2
    <3> QED
      BY <1>2, <3>1 DEF Range
  <2> QED
    BY <2>1, <2>2, <2>3
<1>7. head = IF L = 0 THEN INVALID_LIST_INDEX ELSE q[1]
  BY <1>1 DEF Spells
<1>8. ASSUME NEW n \in 1 .. L + 1
      PROVE  /\ S2[r[n]].NextAvailable = IF n < L + 1 THEN r[n + 1] ELSE INVALID_LIST_INDEX
             /\ S2[r[n]].PrevAvailable = IF 1 < n THEN r[n - 1] ELSE INVALID_LIST_INDEX
  <2>1. CASE n = 1
    <3>1. 0 < L => r[2] = q[1]
      BY <1>1, <1>3
    <3> QED
      BY <1>1, <1>2, <1>7, <2>1, <3>1 DEF Precedes
  <2>2. CASE n # 1
    <3> DEFINE k == n - 1
    <3>1. k \in 1 .. L /\ r[n] = q[k] /\ 1 < n /\ n = k + 1
      BY <1>1, <1>3, <2>2
    <3>2. /\ S[q[k]].NextAvailable = IF k < L THEN q[k + 1] ELSE INVALID_LIST_INDEX
          /\ S[q[k]].PrevAvailable = IF 1 < k THEN q[k - 1] ELSE INVALID_LIST_INDEX
      BY <3>1 DEF Spells
    <3>3. k < L => n + 1 \in 2 .. L + 1 /\ r[n + 1] = q[k + 1]
      BY <1>1, <1>3, <3>1
    <3>4. 1 < k => k \in 2 .. L + 1 /\ r[k] = q[k - 1]
      BY <1>1, <1>3, <3>1
    <3>5. q[k] = head <=> k = 1
      <4>1. \A a, b \in 1 .. L : q[a] = q[b] => a = b
        BY <1>1 DEF IsInjective
      <4>2. 1 \in 1 .. L /\ head = q[1]
        BY <1>1, <1>7, <3>1
      <4> QED
        BY <3>1, <4>1, <4>2
    <3>6. q[k] \in Range(q)
      BY <1>4, <3>1
    <3> HIDE DEF k
    <3>7. S2[r[n]].NextAvailable = IF n < L + 1 THEN r[n + 1] ELSE INVALID_LIST_INDEX
      BY <1>1, <3>1, <3>2, <3>3, <3>6 DEF Precedes
    <3>8. S2[r[n]].PrevAvailable = r[k]
      <4>1. CASE k = 1
        BY <1>2, <3>1, <3>5, <3>6, <4>1 DEF Precedes
      <4>2. CASE k # 1
        BY <1>1, <3>1, <3>2, <3>4, <3>5, <3>6, <4>2 DEF Precedes
      <4> QED
        BY <4>1, <4>2
    <3>9. n - 1 = k
      BY <3>1
    <3> QED
      BY <3>1, <3>7, <3>8, <3>9
  <2> QED
    BY <2>1, <2>2
<1>9. Spells(r, S2, i)
  BY <1>1, <1>2, <1>8 DEF Spells
<1> QED
  BY <1>2, <1>5, <1>6, <1>9

\* The neighbours of a slab on its list.
LEMMA Neighbours ==
    ASSUME NEW q \in Seq(SlabIndexes), IsInjective(q), NEW i \in Range(q),
           NEW S, NEW head, Spells(q, S, head)
    PROVE  /\ S[i].PrevAvailable # i /\ S[i].NextAvailable # i
           /\ head = i <=> S[i].PrevAvailable = INVALID_LIST_INDEX
           /\ S[i].PrevAvailable # INVALID_LIST_INDEX => S[i].PrevAvailable \in Range(q)
           /\ S[i].NextAvailable # INVALID_LIST_INDEX => S[i].NextAvailable \in Range(q)
<1> DEFINE L == Len(q)
<1>1. /\ L \in Nat /\ DOMAIN q = 1 .. L /\ \A n \in 1 .. L : q[n] \in SlabIndexes /\ q[n] \in Range(q)
      /\ \A a, b \in 1 .. L : q[a] = q[b] => a = b
  BY DEF IsInjective, Range
<1>2. PICK k \in 1 .. L : q[k] = i
  BY <1>1 DEF Range
<1>3. head = q[1]
  BY <1>1, <1>2 DEF Spells
<1>4. /\ S[i].NextAvailable = IF k < L THEN q[k + 1] ELSE INVALID_LIST_INDEX
      /\ S[i].PrevAvailable = IF 1 < k THEN q[k - 1] ELSE INVALID_LIST_INDEX
  BY <1>2 DEF Spells
<1>5. /\ k < L => k + 1 \in 1 .. L
      /\ 1 < k => k - 1 \in 1 .. L
      /\ 1 \in 1 .. L
  BY <1>1, <1>2
<1>6. \A n \in 1 .. L : q[n] # INVALID_LIST_INDEX
  BY <1>1, NoLink
<1> QED
  BY <1>1, <1>2, <1>3, <1>4, <1>5, <1>6

\* The list that q spells without its slab i.
LEMMA SpellsCut ==
    ASSUME NEW q \in Seq(SlabIndexes), IsInjective(q), NEW i \in Range(q),
           NEW S, NEW S2, NEW head, Spells(q, S, head), Bypassed(S, S2, i)
    PROVE  \E r \in Seq(SlabIndexes) :
             /\ IsInjective(r) /\ Range(r) = Range(q) \ {i}
             /\ Spells(r, S2, IF head = i THEN S[i].NextAvailable ELSE head)
<1>1. PICK prev : prev = S[i].PrevAvailable
  OBVIOUS
<1>2. PICK next : next = S[i].NextAvailable
  OBVIOUS
<1> DEFINE L == Len(q)
           r == RemoveFirst(q, i)
<1>3. /\ L \in Nat /\ DOMAIN q = 1 .. L /\ \A n \in 1 .. L : q[n] \in SlabIndexes /\ q[n] \in Range(q)
      /\ \A a, b \in 1 .. L : q[a] = q[b] => a = b
  BY DEF IsInjective, Range
<1>4. PICK k \in 1 .. L : q[k] = i
  BY <1>3 DEF Range
<1>5. /\ r \in Seq(SlabIndexes) /\ Len(r) = L - 1 /\ IsInjective(r) /\ Range(r) = Range(q) \ {i}
  BY RemoveFirstRange
<1>6. r = RemoveAt(q, k)
  BY <1>3, <1>4, RemoveFirstIsRemoveAt
<1>7. \A n \in 1 .. L - 1 : r[n] = IF n < k THEN q[n] ELSE q[n + 1]
  <2>1. k \in 1 .. Len(q) /\ q \in Seq(SlabIndexes)
    BY <1>4
  <2>2. \A n \in 1 .. Len(q) - 1 : RemoveAt(q, k)[n] = IF n < k THEN q[n] ELSE q[n + 1]
    BY <2>1, RemoveAtElements
  <2> QED
    BY <1>6, <2>2
<1> HIDE DEF r
<1>8. /\ head = q[1]
      /\ \A n \in 1 .. L :
           /\ S[q[n]].NextAvailable = IF n < L THEN q[n + 1] ELSE INVALID_LIST_INDEX
           /\ S[q[n]].PrevAvailable = IF 1 < n THEN q[n - 1] ELSE INVALID_LIST_INDEX
  BY <1>3, <1>4 DEF Spells
<1>9. /\ next = IF k < L THEN q[k + 1] ELSE INVALID_LIST_INDEX
      /\ prev = IF 1 < k THEN q[k - 1] ELSE INVALID_LIST_INDEX
  BY <1>4, <1>8, <1>1, <1>2
<1>10. /\ k < L => k + 1 \in 1 .. L
       /\ 1 < k => k - 1 \in 1 .. L
       /\ 1 \in 1 .. L
  BY <1>3, <1>4
<1>11. \A n \in 1 .. L : q[n] # INVALID_LIST_INDEX
  BY <1>3, NoLink
<1>12. /\ head = i <=> k = 1
       /\ prev # INVALID_LIST_INDEX <=> 1 < k
       /\ next # INVALID_LIST_INDEX <=> k < L
  BY <1>3, <1>4, <1>8, <1>9, <1>10, <1>11
<1>13. ASSUME NEW n \in 1 .. L, n # k
       PROVE  /\ q[n] \in Range(q) \ {i}
              /\ q[n] = next <=> n = k + 1
              /\ q[n] = prev <=> n = k - 1
  BY <1>3, <1>4, <1>9, <1>10, <1>11, <1>13
<1>14. ASSUME NEW n \in 1 .. L, n # k
       PROVE  /\ S2[q[n]].NextAvailable =
                   IF n = k - 1 THEN next ELSE IF n < L THEN q[n + 1] ELSE INVALID_LIST_INDEX
              /\ S2[q[n]].PrevAvailable =
                   IF n = k + 1 THEN prev ELSE IF 1 < n THEN q[n - 1] ELSE INVALID_LIST_INDEX
  <2>1. /\ S2[q[n]].PrevAvailable = IF q[n] = next THEN prev ELSE S[q[n]].PrevAvailable
        /\ S2[q[n]].NextAvailable = IF q[n] = prev THEN next ELSE S[q[n]].NextAvailable
    BY <1>3, <1>13, <1>14, <1>1, <1>2 DEF Bypassed
  <2> QED
    BY <1>8, <1>13, <1>14, <2>1
<1>15. ASSUME NEW n \in 1 .. L - 1
       PROVE  /\ S2[r[n]].NextAvailable = IF n < L - 1 THEN r[n + 1] ELSE INVALID_LIST_INDEX
              /\ S2[r[n]].PrevAvailable = IF 1 < n THEN r[n - 1] ELSE INVALID_LIST_INDEX
  <2>1. CASE n < k
    <3>1. n \in 1 .. L /\ n # k /\ r[n] = q[n] /\ n < L
      BY <1>3, <1>4, <1>7, <2>1
    <3>2. S2[r[n]].PrevAvailable = IF 1 < n THEN q[n - 1] ELSE INVALID_LIST_INDEX
      BY <1>4, <1>14, <2>1, <3>1
    <3>3. 1 < n => r[n - 1] = q[n - 1]
      BY <1>3, <1>4, <1>7, <2>1
    <3>4. CASE n = k - 1
      <4>1. S2[r[n]].NextAvailable = next
        BY <1>14, <3>1, <3>4
      <4>2. n < L - 1 => r[n + 1] = q[k + 1]
        BY <1>3, <1>4, <1>7, <3>4
      <4> QED
        BY <1>3, <1>4, <1>9, <3>2, <3>3, <3>4, <4>1, <4>2
    <3>5. CASE n # k - 1
      <4>1. S2[r[n]].NextAvailable = q[n + 1]
        BY <1>14, <3>1, <3>5
      <4>2. n < L - 1 /\ r[n + 1] = q[n + 1]
        BY <1>3, <1>4, <1>7, <2>1, <3>5
      <4> QED
        BY <3>2, <3>3, <4>1, <4>2
    <3> QED
      BY <3>4, <3>5
  <2>2. CASE k <= n
    <3> DEFINE m == n + 1
    <3>1. m \in 1 .. L /\ m # k /\ m # k - 1 /\ r[n] = q[m] /\ 1 < m
      BY <1>3, <1>4, <1>7, <2>2
    <3>2. S2[r[n]].NextAvailable = IF m < L THEN q[m + 1] ELSE INVALID_LIST_INDEX
      BY <1>14, <3>1
    <3>3. n < L - 1 => m < L /\ r[n + 1] = q[m + 1]
      BY <1>3, <1>4, <1>7, <2>2
    <3>4. ~(n < L - 1) => ~(m < L)
      BY <1>3
    <3>5. S2[r[n]].PrevAvailable = IF m = k + 1 THEN prev ELSE q[m - 1]
      BY <1>14, <3>1
    <3>6. m = k + 1 <=> n = k
      BY <1>4
    <3>7. n = k /\ 1 < n => r[n - 1] = q[k - 1]
      BY <1>3, <1>4, <1>7
    <3>8. n # k => 1 < n /\ r[n - 1] = q[n] /\ m - 1 = n
      BY <1>3, <1>4, <1>7, <2>2
    <3> QED
      BY <1>4, <1>9, <3>2, <3>3, <3>4, <3>5, <3>6, <3>7, <3>8
  <2> QED
    BY <1>4, <2>1, <2>2
<1>16. (IF head = i THEN next ELSE head) = IF r = <<>> THEN INVALID_LIST_INDEX ELSE r[1]
  <2>1. r = <<>> <=> L = 1
    BY <1>3, <1>4, <1>5
  <2>2. CASE L = 1
    BY <1>4, <1>9, <1>12, <2>1, <2>2
  <2>3. CASE L # 1
    <3>1. 1 \in 1 .. L - 1
      BY <1>3, <1>4, <2>3
    <3> QED
      BY <1>4, <1>7, <1>8, <1>9, <1>12, <2>1, <2>3, <3>1
  <2> QED
    BY <2>2, <2>3
<1>17. Spells(r, S2, IF head = i THEN next ELSE head)
  BY <1>3, <1>5, <1>15, <1>16 DEF Spells
<1> QED
  BY <1>5, <1>17, <1>2

-----------------------------------------------------------------------------
(* All class lists after an operation                                      *)

\* The members after slab i joined class c, and after it left.
Joined(M, c, i) == [d \in Classes |-> IF d = c THEN M[c] \cup {i} ELSE M[d]]
Left(M, c, i) == [d \in Classes |-> IF d = c THEN M[c] \ {i} ELSE M[d]]

\* What does not change links and heads keeps the lists.
LEMMA ListedFrame ==
    ASSUME NEW S, NEW S2, NEW A, NEW M, Listed(S, A, M), Apart(M),
           \A j \in SlabIndexes : /\ S2[j].PrevAvailable = S[j].PrevAvailable
                                  /\ S2[j].NextAvailable = S[j].NextAvailable
    PROVE  Listed(S2, A, M)
<1>1. ASSUME NEW c \in Classes
      PROVE  \E q \in Seq(SlabIndexes) : IsInjective(q) /\ Range(q) = M[c] /\ Spells(q, S2, A[c])
  <2>1. PICK q \in Seq(SlabIndexes) : IsInjective(q) /\ Range(q) = M[c] /\ Spells(q, S, A[c])
    BY DEF Listed
  <2>2. \A n \in 1 .. Len(q) : q[n] \in SlabIndexes
    OBVIOUS
  <2>3. Spells(q, S2, A[c])
    BY <2>1, <2>2 DEF Spells
  <2> QED
    BY <2>1, <2>3
<1> QED
  BY <1>1 DEF Listed

\* The head of a list is one of its members.
LEMMA HeadIsMember ==
    ASSUME NEW S, NEW A, NEW M, Listed(S, A, M), NEW c \in Classes
    PROVE  /\ A[c] \in Links
           /\ A[c] # INVALID_LIST_INDEX => A[c] \in M[c]
           /\ A[c] = INVALID_LIST_INDEX => M[c] = {}
<1>1. PICK q \in Seq(SlabIndexes) : IsInjective(q) /\ Range(q) = M[c] /\ Spells(q, S, A[c])
  BY DEF Listed
<1>2. CASE q = <<>>
  <2>1. Range(q) = {}
    BY <1>2 DEF Range
  <2> QED
    BY <1>1, <1>2, <2>1, NoLink DEF Spells
<1>3. CASE q # <<>>
  <2>1. q[1] \in SlabIndexes /\ q[1] \in Range(q)
    BY <1>3 DEF Range
  <2> QED
    BY <1>1, <1>3, <2>1, NoLink DEF Spells, Links
<1> QED
  BY <1>2, <1>3

\* A slab of no list joins the list of c.
LEMMA ListedLink ==
    ASSUME NEW S \in [SlabIndexes -> SlabSet], NEW A \in [Classes -> Links], NEW M,
           Listed(S, A, M), Apart(M), NEW i \in SlabIndexes, NEW c \in Classes,
           \A d \in Classes : i \notin M[d],
           NEW h, Pair(h, S, A), NEW g, g = LinkSlabIntoClassList(h, i, c)
    PROVE  /\ Relinked(S, g.slabs)
           /\ g.heads \in [Classes -> Links] /\ g.heads[c] = i
           /\ Listed(g.slabs, g.heads, Joined(M, c, i))
           /\ Pair(g, g.slabs, g.heads)
<1> DEFINE N == Joined(M, c, i)
<1>1. /\ S[i].PrevAvailable = INVALID_LIST_INDEX /\ S[i].NextAvailable = INVALID_LIST_INDEX
  BY DEF Listed
<1>2. A[c] # i
  BY HeadIsMember, NoLink
<1>3. PICK T : T = g.slabs
  OBVIOUS
<1>4. PICK B : B = g.heads
  OBVIOUS
<1>5. Relinked(S, T) /\ Fronted(S, T, i, A[c]) /\ Pair(g, g.slabs, g.heads)
  BY <1>1, <1>2, <1>3, LinkEffect
<1>6. B \in [Classes -> Links] /\ B[c] = i /\ \A d \in Classes \ {c} : B[d] = A[d]
  BY <1>1, <1>2, <1>4, LinkEffect
<1>7. \A d \in Classes : N[d] = IF d = c THEN M[c] \cup {i} ELSE M[d]
  BY DEF Joined
<1> HIDE DEF N
<1>8. ASSUME NEW d \in Classes
      PROVE  \E q \in Seq(SlabIndexes) : IsInjective(q) /\ Range(q) = N[d] /\ Spells(q, T, B[d])
  <2>1. PICK q \in Seq(SlabIndexes) : IsInjective(q) /\ Range(q) = M[d] /\ Spells(q, S, A[d])
    BY DEF Listed
  <2>2. Range(q) \subseteq SlabIndexes /\ i \notin Range(q)
    BY <2>1 DEF Range
  <2>3. CASE d = c
    <3>1. Precedes(i, Range(q), S, T, A[d])
      BY <1>1, <1>2, <1>5, <2>2, <2>3 DEF Fronted, Precedes
    <3>2. \E r \in Seq(SlabIndexes) :
            IsInjective(r) /\ Range(r) = Range(q) \cup {i} /\ Spells(r, T, i)
      BY <2>1, <2>2, <3>1, SpellsFront
    <3>3. PICK r \in Seq(SlabIndexes) :
            IsInjective(r) /\ Range(r) = Range(q) \cup {i} /\ Spells(r, T, i)
      BY <3>2
    <3>4. Range(r) = N[d]
      BY <1>7, <2>1, <2>3, <3>3
    <3>5. B[d] = i
      BY <1>6, <2>3
    <3> QED
      BY <3>3, <3>4, <3>5
  <2>4. CASE d # c
    <3>1. \A j \in Range(q) : j # i /\ j # A[c] /\ j \in SlabIndexes
      BY <2>1, <2>2, <2>4, HeadIsMember, NoLink DEF Apart
    <3>2. \A n \in 1 .. Len(q) : q[n] \in Range(q)
      BY DEF Range
    <3>3. \A j \in Range(q) : /\ T[j].PrevAvailable = S[j].PrevAvailable
                              /\ T[j].NextAvailable = S[j].NextAvailable
      BY <1>5, <3>1 DEF Fronted
    <3>4. Spells(q, T, A[d])
      BY <2>1, <3>2, <3>3 DEF Spells
    <3> QED
      BY <1>6, <1>7, <2>1, <2>4, <3>4
  <2> QED
    BY <2>3, <2>4
<1>9. ASSUME NEW j \in SlabIndexes, \A d \in Classes : j \notin N[d]
      PROVE  T[j].PrevAvailable = INVALID_LIST_INDEX /\ T[j].NextAvailable = INVALID_LIST_INDEX
  <2>1. j # i /\ \A d \in Classes : j \notin M[d]
    BY <1>7, <1>9
  <2>2. j # A[c]
    BY <2>1, HeadIsMember, NoLink
  <2> QED
    BY <1>5, <2>1, <2>2 DEF Listed, Fronted
<1>10. Listed(T, B, N)
  BY <1>8, <1>9 DEF Listed
<1> QED
  BY <1>3, <1>4, <1>5, <1>6, <1>10 DEF N

\* A slab leaves the list of c.
LEMMA ListedUnlink ==
    ASSUME NEW S \in [SlabIndexes -> SlabSet], NEW A \in [Classes -> Links], NEW M,
           Listed(S, A, M), Apart(M), NEW c \in Classes, NEW i \in M[c],
           NEW h, Pair(h, S, A), NEW g, g = UnlinkSlabFromClassList(h, i, c)
    PROVE  /\ Relinked(S, g.slabs)
           /\ g.heads \in [Classes -> Links]
           /\ Listed(g.slabs, g.heads, Left(M, c, i))
           /\ Pair(g, g.slabs, g.heads)
<1> DEFINE N == Left(M, c, i)
<1>1. PICK q \in Seq(SlabIndexes) : IsInjective(q) /\ Range(q) = M[c] /\ Spells(q, S, A[c])
  BY DEF Listed
<1>2. i \in Range(q) /\ i \in SlabIndexes /\ Range(q) \subseteq SlabIndexes
  BY <1>1 DEF Apart, Range
<1>3. PICK prev : prev = S[i].PrevAvailable
  OBVIOUS
<1>4. PICK next : next = S[i].NextAvailable
  OBVIOUS
<1>5. /\ prev # i /\ next # i
      /\ A[c] = i <=> prev = INVALID_LIST_INDEX
      /\ prev # INVALID_LIST_INDEX => prev \in Range(q)
      /\ next # INVALID_LIST_INDEX => next \in Range(q)
  BY <1>1, <1>2, <1>3, <1>4, Neighbours
<1>6. PICK T : T = g.slabs
  OBVIOUS
<1>7. PICK B : B = g.heads
  OBVIOUS
<1>8. /\ Relinked(S, T) /\ Bypassed(S, T, i) /\ Pair(g, g.slabs, g.heads)
      /\ B \in [Classes -> Links] /\ \A d \in Classes \ {c} : B[d] = A[d]
      /\ B[c] = IF S[i].PrevAvailable = INVALID_LIST_INDEX /\ A[c] = i
                THEN S[i].NextAvailable ELSE A[c]
  BY <1>2, <1>3, <1>4, <1>5, <1>6, <1>7, UnlinkEffect
<1>9. B[c] = IF A[c] = i THEN S[i].NextAvailable ELSE A[c]
  BY <1>3, <1>5, <1>8
<1>10. \A d \in Classes : N[d] = IF d = c THEN M[c] \ {i} ELSE M[d]
  BY DEF Left
<1> HIDE DEF N
<1>11. ASSUME NEW d \in Classes
       PROVE  \E r \in Seq(SlabIndexes) : IsInjective(r) /\ Range(r) = N[d] /\ Spells(r, T, B[d])
  <2>1. CASE d = c
    <3>1. \E r \in Seq(SlabIndexes) :
            /\ IsInjective(r) /\ Range(r) = Range(q) \ {i}
            /\ Spells(r, T, IF A[c] = i THEN S[i].NextAvailable ELSE A[c])
      BY <1>1, <1>2, <1>8, SpellsCut
    <3> QED
      BY <1>1, <1>9, <1>10, <2>1, <3>1
  <2>2. CASE d # c
    <3>1. PICK r \in Seq(SlabIndexes) : IsInjective(r) /\ Range(r) = M[d] /\ Spells(r, S, A[d])
      BY DEF Listed
    <3>2. \A j \in Range(r) : j \in SlabIndexes /\ j \notin M[c]
      BY <2>2, <3>1 DEF Apart, Range
    <3>3. \A j \in Range(r) : j # i /\ j # prev /\ j # next
      BY <1>1, <1>5, <3>2, NoLink
    <3>4. \A j \in Range(r) : /\ T[j].PrevAvailable = S[j].PrevAvailable
                              /\ T[j].NextAvailable = S[j].NextAvailable
      BY <1>3, <1>4, <1>8, <3>2, <3>3 DEF Bypassed
    <3>5. \A n \in 1 .. Len(r) : r[n] \in Range(r)
      BY DEF Range
    <3>6. Spells(r, T, A[d])
      BY <3>1, <3>4, <3>5 DEF Spells
    <3> QED
      BY <1>8, <1>10, <2>2, <3>1, <3>6
  <2> QED
    BY <2>1, <2>2
<1>12. ASSUME NEW j \in SlabIndexes, \A d \in Classes : j \notin N[d]
       PROVE  T[j].PrevAvailable = INVALID_LIST_INDEX /\ T[j].NextAvailable = INVALID_LIST_INDEX
  <2>1. CASE j = i
    BY <1>8, <2>1 DEF Bypassed
  <2>2. CASE j # i
    <3>1. \A d \in Classes : j \notin M[d]
      BY <1>10, <1>12, <2>2
    <3>2. j # prev /\ j # next
      BY <1>1, <1>5, <3>1, NoLink
    <3>3. S[j].PrevAvailable = INVALID_LIST_INDEX /\ S[j].NextAvailable = INVALID_LIST_INDEX
      BY <3>1 DEF Listed
    <3> QED
      BY <1>3, <1>4, <1>8, <2>2, <3>2, <3>3 DEF Bypassed
  <2> QED
    BY <2>1, <2>2
<1>13. Listed(T, B, N)
  BY <1>11, <1>12 DEF Listed
<1> QED
  BY <1>6, <1>7, <1>8, <1>13 DEF N

-----------------------------------------------------------------------------
(* Slabs and headers after an operation                                    *)

\* The headers of slabs outside R are the same in H2 as in H.
SameOutside(H, H2, R) ==
    /\ \A b \in DOMAIN H : H[b].slab \notin R => b \in DOMAIN H2 /\ H2[b] = H[b]
    /\ \A b \in DOMAIN H2 : H2[b].slab \notin R => b \in DOMAIN H /\ H2[b] = H[b]

\* An operation on the slabs R, to which whole runs belong.
LEMMA AccountedFrame ==
    ASSUME NEW S \in [SlabIndexes -> SlabSet], NEW S2, NEW H, NEW H2,
           NEW R, R \subseteq SlabIndexes,
           Accounted(S, H), SameOutside(H, H2, R),
           \A a \in DOMAIN H2 : H2[a] \in HeaderSet,
           \A j \in SlabIndexes \ R : SameData(S[j], S2[j]),
           \A j \in SlabIndexes \ R : S[j].State = "LargeTail" => S[j].OwnerOrSpan \notin R,
           \A t \in R : S[t].State = "LargeTail" => S[t].OwnerOrSpan \in R,
           \A i \in R : GoodSlab(S2, i, H2),
           \A b \in DOMAIN H2 : H2[b].slab \in R => GoodHeader(S2, b, H2[b])
    PROVE  Accounted(S2, H2)
<1>1. ASSUME NEW i \in SlabIndexes \ R PROVE GoodSlab(S2, i, H2)
  <2>1. GoodSlab(S, i, H)
    BY DEF Accounted
  <2>2. SameData(S[i], S2[i])
    OBVIOUS
  <2>3. CASE S[i].State = "Small"
    <3>1. GoodSmall(S[i], i, H)
      BY <2>1, <2>3 DEF GoodSlab
    <3>2. \A a \in DOMAIN H : H[a].slab = i => a \in DOMAIN H2 /\ H2[a].slab = i
      BY DEF SameOutside
    <3>3. GoodSmall(S2[i], i, H2)
      BY <2>2, <3>1, <3>2 DEF GoodSmall, SameData
    <3> QED
      BY <2>2, <2>3, <3>3 DEF GoodSlab, SameData
  <2>4. CASE S[i].State = "LargeHead"
    <3>1. GoodHead(S, i, H)
      BY <2>1, <2>4 DEF GoodSlab
    <3>2. S[i].OwnerOrSpan \in Nat /\ i \in Nat /\ S2[i].OwnerOrSpan = S[i].OwnerOrSpan
      BY <2>2, HeapAssumption DEF SlabSet, SlabIndexes, SameData
    <3>3. ASSUME NEW j \in i + 1 .. i + S[i].OwnerOrSpan - 1
          PROVE  S2[j].State = "LargeTail" /\ S2[j].OwnerOrSpan = i
      <4>1. S[j].State = "LargeTail" /\ S[j].OwnerOrSpan = i /\ i + S[i].OwnerOrSpan <= SlabCount
        BY <3>1 DEF GoodHead
      <4>2. j \in SlabIndexes
        BY <3>2, <4>1, HeapAssumption DEF SlabIndexes
      <4>3. j \notin R
        BY <4>1
      <4> QED
        BY <4>1, <4>2, <4>3 DEF SameData
    <3>4. PICK b : b = GetSlabBaseAddress(i)
      OBVIOUS
    <3>5. b \in DOMAIN H /\ H[b].slab = i /\ H[b].class = LARGE_CLASS_SENTINEL
      BY <3>1, <3>4 DEF GoodHead
    <3>6. b \in DOMAIN H2 /\ H2[b].slab = i /\ H2[b].class = LARGE_CLASS_SENTINEL
      BY <3>5 DEF SameOutside
    <3>7. GoodHead(S2, i, H2)
      BY <3>1, <3>2, <3>3, <3>4, <3>6 DEF GoodHead
    <3> QED
      BY <2>2, <2>4, <3>7 DEF GoodSlab, SameData
  <2>5. CASE S[i].State = "LargeTail"
    <3>1. GoodTail(S, i)
      BY <2>1, <2>5 DEF GoodSlab
    <3>2. PICK o \in SlabIndexes \ R : o = S[i].OwnerOrSpan
      BY <2>5, <3>1 DEF GoodTail
    <3>3. SameData(S[o], S2[o])
      BY <3>2
    <3>4. S[o].State = "LargeHead" /\ o < i /\ i < o + S[o].OwnerOrSpan
      BY <3>1, <3>2 DEF GoodTail
    <3>5. GoodTail(S2, i)
      BY <2>2, <3>2, <3>3, <3>4 DEF GoodTail, SameData
    <3> QED
      BY <2>2, <2>5, <3>5 DEF GoodSlab, SameData
  <2>6. CASE S[i].State \notin {"Small", "LargeHead", "LargeTail"}
    BY <2>2, <2>6 DEF GoodSlab, SameData
  <2> QED
    BY <2>3, <2>4, <2>5, <2>6
<1>2. ASSUME NEW a \in DOMAIN H2, H2[a].slab \notin R PROVE GoodHeader(S2, a, H2[a])
  <2>1. a \in DOMAIN H /\ H2[a] = H[a]
    BY <1>2 DEF SameOutside
  <2>2. GoodHeader(S, a, H[a])
    BY <2>1 DEF Accounted
  <2>3. H[a].slab \in SlabIndexes \ R
    BY <1>2, <2>1 DEF HeaderSet
  <2>4. SameData(S[H[a].slab], S2[H[a].slab])
    BY <2>3
  <2> QED
    BY <2>1, <2>2, <2>4 DEF GoodHeader, SameData
<1> QED
  BY <1>1, <1>2 DEF Accounted

\* A header lies in its slab.
LEMMA HeaderPlace ==
    ASSUME NEW S, NEW a, NEW e \in HeaderSet, GoodHeader(S, a, e)
    PROVE  /\ a \in Nat
           /\ GetSlabBaseAddress(e.slab) <= a
           /\ a < GetSlabBaseAddress(e.slab) + SLAB_PAGE_SIZE
<1>1. e.slab \in SlabIndexes
  BY DEF HeaderSet
<1>2. GetSlabBaseAddress(e.slab) \in Nat /\ SLAB_PAGE_SIZE \in Nat \ {0}
  BY <1>1, BaseType, HeapAssumption
<1>3. CASE a = GetSlabBaseAddress(e.slab)
  BY <1>2, <1>3
<1>4. CASE e.class \in Classes /\ a \in Objects(e.slab, e.class)
  <2>1. SLAB_CLASS_SIZES[e.class] \in Nat \ {0}
    BY <1>4, ClassFits
  <2>2. /\ a \in Nat /\ GetSlabBaseAddress(e.slab) <= a
        /\ a + SLAB_CLASS_SIZES[e.class] <= GetSlabBaseAddress(e.slab) + SLAB_PAGE_SIZE
    BY <1>1, <1>4, ObjectPlaces
  <2> QED
    BY <1>2, <2>1, <2>2
<1> QED
  BY <1>3, <1>4 DEF GoodHeader

\* An object begins inside its slab.
LEMMA ObjectPlace ==
    ASSUME NEW i \in SlabIndexes, NEW c \in Classes, NEW a \in Objects(i, c)
    PROVE  /\ a \in Nat
           /\ GetSlabBaseAddress(i) <= a
           /\ a < GetSlabBaseAddress(i) + SLAB_PAGE_SIZE
<1>1. SLAB_CLASS_SIZES[c] \in Nat \ {0}
  BY ClassFits
<1>2. GetSlabBaseAddress(i) \in Nat /\ SLAB_PAGE_SIZE \in Nat
  BY BaseType, HeapAssumption
<1>3. /\ a \in Nat /\ GetSlabBaseAddress(i) <= a
      /\ a + SLAB_CLASS_SIZES[c] <= GetSlabBaseAddress(i) + SLAB_PAGE_SIZE
  BY ObjectPlaces
<1> QED
  BY <1>1, <1>2, <1>3

\* A place lies in one slab.
LEMMA OneSlab ==
    ASSUME NEW i \in SlabIndexes, NEW j \in SlabIndexes, NEW a \in Nat,
           GetSlabBaseAddress(i) <= a, a < GetSlabBaseAddress(i) + SLAB_PAGE_SIZE,
           GetSlabBaseAddress(j) <= a, a < GetSlabBaseAddress(j) + SLAB_PAGE_SIZE
    PROVE  i = j
<1>1. /\ i \in Nat /\ j \in Nat /\ SLAB_PAGE_SIZE \in Nat
      /\ GetSlabBaseAddress(i) \in Nat /\ GetSlabBaseAddress(j) \in Nat
  BY BaseType, HeapAssumption
<1>2. CASE i < j
  <2>1. GetSlabBaseAddress(i + 1) <= GetSlabBaseAddress(j)
    BY <1>1, <1>2, SlabBase
  <2>2. GetSlabBaseAddress(i + 1) = GetSlabBaseAddress(i) + SLAB_PAGE_SIZE
    BY <1>1, SlabBase
  <2> QED
    BY <1>1, <2>1, <2>2
<1>3. CASE j < i
  <2>1. GetSlabBaseAddress(j + 1) <= GetSlabBaseAddress(i)
    BY <1>1, <1>3, SlabBase
  <2>2. GetSlabBaseAddress(j + 1) = GetSlabBaseAddress(j) + SLAB_PAGE_SIZE
    BY <1>1, SlabBase
  <2> QED
    BY <1>1, <2>1, <2>2
<1> QED
  BY <1>1, <1>2, <1>3

\* What changes links only keeps the members, the accounts and the slabs that
\* have an allocated object.
LEMMA RelinkedAccounted ==
    ASSUME NEW S \in [SlabIndexes -> SlabSet], NEW S2, Relinked(S, S2),
           NEW H, \A a \in DOMAIN H : H[a] \in HeaderSet
    PROVE  /\ Members(S2) = Members(S)
           /\ Accounted(S, H) => Accounted(S2, H)
           /\ \A X : NoneIdle(S, X) => NoneIdle(S2, X)
<1>1. \A j \in SlabIndexes : SameData(S[j], S2[j])
  BY DEF Relinked
<1>2. Members(S2) = Members(S)
  BY <1>1 DEF Members, SameData
<1>3. ASSUME Accounted(S, H) PROVE Accounted(S2, H)
  <2>1. SameOutside(H, H, {})
    BY DEF SameOutside
  <2> QED
    BY <1>1, <1>3, <2>1, AccountedFrame
<1>4. ASSUME NEW X, NoneIdle(S, X) PROVE NoneIdle(S2, X)
  BY <1>1, <1>4 DEF NoneIdle, SameData
<1> QED
  BY <1>2, <1>3, <1>4

\* A slab is a member of the list of its own class only.
LEMMA MembersApart ==
    ASSUME NEW S
    PROVE  Apart(Members(S))
  BY DEF Apart, Members

\* Another list of free objects in slab i.
WithObjects(s, q, n) == [s EXCEPT !.FreeList = q, !.FreeObjects = n]

\* Writing the free list and the count leaves the other fields alone.
LEMMA WithObjectsFields ==
    ASSUME NEW s \in SlabSet, NEW q \in Seq(Nat), NEW n \in Nat
    PROVE  /\ WithObjects(s, q, n) \in SlabSet
           /\ WithObjects(s, q, n).FreeList = q /\ WithObjects(s, q, n).FreeObjects = n
           /\ WithObjects(s, q, n).State = s.State
           /\ WithObjects(s, q, n).ClassIndex = s.ClassIndex
           /\ WithObjects(s, q, n).OwnerOrSpan = s.OwnerOrSpan
           /\ WithObjects(s, q, n).TotalObjects = s.TotalObjects
           /\ WithObjects(s, q, n).PrevAvailable = s.PrevAvailable
           /\ WithObjects(s, q, n).NextAvailable = s.NextAvailable
  BY DEF WithObjects, SlabSet

\* Slab i is cut into objects of class c.
SmallOf(S, i, c) == S[i].State = "Small" /\ S[i].ClassIndex = c

\* The slabs with other free objects in slab i.
Restocked(S, S2, i, q, n) ==
    /\ S2 \in [SlabIndexes -> SlabSet]
    /\ S2[i] = WithObjects(S[i], q, n)
    /\ \A j \in SlabIndexes \ {i} : S2[j] = S[j]

\* Slab i is a member of class c if it has a free object, one of n.
Rejoined(S, S2, i, c, n) ==
    /\ n > 0 => Members(S2) = Joined(Members(S), c, i)
    /\ n = 0 => Members(S2) = Left(Members(S), c, i)

\* Its lists: only the membership of slab i may change.
LEMMA RestockedLists ==
    ASSUME NEW S \in [SlabIndexes -> SlabSet], NEW S2, NEW i \in SlabIndexes, NEW c \in Classes,
           NEW q \in Seq(Nat), NEW n \in Nat, Restocked(S, S2, i, q, n),
           SmallOf(S, i, c), NEW A, NEW M, Listed(S, A, M), Apart(M)
    PROVE  Listed(S2, A, M) /\ Rejoined(S, S2, i, c, n)
<1>1. S[i] \in SlabSet
  OBVIOUS
<1>2. PICK t : t = WithObjects(S[i], q, n)
  OBVIOUS
<1>3. /\ t.State = "Small" /\ t.ClassIndex = c /\ t.FreeObjects = n
      /\ t.PrevAvailable = S[i].PrevAvailable /\ t.NextAvailable = S[i].NextAvailable
  BY <1>1, <1>2, WithObjectsFields DEF SmallOf
<1>4. S2[i] = t /\ \A j \in SlabIndexes \ {i} : S2[j] = S[j]
  BY <1>2 DEF Restocked
<1>5. Listed(S2, A, M)
  BY <1>3, <1>4, ListedFrame
<1>6. ASSUME NEW d \in Classes
      PROVE  {j \in SlabIndexes : S2[j].State = "Small" /\ S2[j].ClassIndex = d /\ S2[j].FreeObjects > 0}
               = IF d = c THEN IF n > 0 THEN Members(S)[c] \cup {i} ELSE Members(S)[c] \ {i}
                 ELSE Members(S)[d]
  BY <1>3, <1>4 DEF Members, SmallOf
<1>7. /\ n > 0 => Members(S2) = Joined(Members(S), c, i)
      /\ n = 0 => Members(S2) = Left(Members(S), c, i)
  BY <1>6 DEF Joined, Left, Members
<1> QED
  BY <1>5, <1>7 DEF Rejoined

\* The n objects of q are free in slab i, and the others have a header.
FreeOf(H, i, c, q, n) ==
    /\ Len(q) = n /\ IsInjective(q) /\ Range(q) \subseteq Objects(i, c)
    /\ \A a \in Objects(i, c) \ Range(q) : a \in DOMAIN H /\ H[a].slab = i
    /\ \A b \in DOMAIN H : H[b].slab = i =>
         /\ b \in Objects(i, c) \ Range(q) /\ H[b].class = c
         /\ H[b].units <= SLAB_CLASS_SIZES[c]

\* Headers of other slabs are the same.
SameBut(H, H2, i) == SameOutside(H, H2, {i})

\* Its objects: those of slab i have to be accounted for anew.
LEMMA RestockedAccounted ==
    ASSUME NEW S \in [SlabIndexes -> SlabSet], NEW S2, NEW i \in SlabIndexes, NEW c \in Classes,
           NEW q \in Seq(Nat), NEW n \in Nat, Restocked(S, S2, i, q, n),
           SmallOf(S, i, c),
           NEW H, Accounted(S, H), NEW H2, \A a \in DOMAIN H2 : H2[a] \in HeaderSet,
           SameBut(H, H2, i), FreeOf(H2, i, c, q, n)
    PROVE  Accounted(S2, H2)
<1>1. S[i] \in SlabSet
  OBVIOUS
<1>2. PICK t : t = WithObjects(S[i], q, n)
  OBVIOUS
<1>3. /\ t.State = "Small" /\ t.ClassIndex = c /\ t.FreeObjects = n /\ t.FreeList = q
      /\ t.TotalObjects = S[i].TotalObjects
  BY <1>1, <1>2, WithObjectsFields DEF SmallOf
<1>4. S2[i] = t /\ \A j \in SlabIndexes \ {i} : S2[j] = S[j]
  BY <1>2 DEF Restocked
<1>5. \A j \in SlabIndexes \ {i} : SameData(S[j], S2[j])
  BY <1>4 DEF SameData
<1>6. GoodSmall(S[i], i, H)
  BY DEF Accounted, GoodSlab, SmallOf
<1>7. GoodSlab(S2, i, H2)
  <2>1. GoodSmall(t, i, H2)
    BY <1>3, <1>6 DEF GoodSmall, SmallOf, FreeOf
  <2> QED
    BY <1>3, <1>4, <2>1 DEF GoodSlab
<1>8. \A b \in DOMAIN H2 : H2[b].slab = i => GoodHeader(S2, b, H2[b])
  BY <1>3, <1>4 DEF GoodHeader, FreeOf
<1>9. ASSUME NEW j \in SlabIndexes, S[j].State = "LargeTail" PROVE S[j].OwnerOrSpan # i
  BY <1>9 DEF Accounted, GoodSlab, GoodTail, SmallOf
<1> QED
  BY <1>5, <1>7, <1>8, <1>9, AccountedFrame DEF SmallOf, SameBut

-----------------------------------------------------------------------------
(* Taking an object                                                        *)

\* The fields of the slabs after a new free list in slab i.
LEMMA RestockedFields ==
    ASSUME NEW S \in [SlabIndexes -> SlabSet], NEW T, NEW i \in SlabIndexes,
           NEW q \in Seq(Nat), NEW n \in Nat, Restocked(S, T, i, q, n)
    PROVE  /\ T \in [SlabIndexes -> SlabSet]
           /\ T[i].FreeList = q /\ T[i].FreeObjects = n
           /\ T[i].State = S[i].State /\ T[i].ClassIndex = S[i].ClassIndex
           /\ T[i].TotalObjects = S[i].TotalObjects
           /\ \A j \in SlabIndexes \ {i} : T[j] = S[j]
<1>1. S[i] \in SlabSet
  OBVIOUS
<1>2. PICK t : t = WithObjects(S[i], q, n)
  OBVIOUS
<1>3. /\ t.FreeList = q /\ t.FreeObjects = n
      /\ t.State = S[i].State /\ t.ClassIndex = S[i].ClassIndex
      /\ t.TotalObjects = S[i].TotalObjects
  BY <1>1, <1>2, WithObjectsFields
<1>4. T[i] = t /\ T \in [SlabIndexes -> SlabSet] /\ \A j \in SlabIndexes \ {i} : T[j] = S[j]
  BY <1>2 DEF Restocked
<1> QED
  BY <1>3, <1>4

\* H2 is H with the header e at a.
Placed(H, H2, a, e) ==
    /\ DOMAIN H2 = DOMAIN H \cup {a} /\ H2[a] = e
    /\ \A b \in DOMAIN H \ {a} : H2[b] = H[b]

\* A header for an object of slab i.
HeaderFor(e, i, c) ==
    e \in HeaderSet /\ e.slab = i /\ e.class = c /\ e.units <= SLAB_CLASS_SIZES[c]

\* One header more, in slab i.
LEMMA PlacedHeader ==
    ASSUME NEW H, \A b \in DOMAIN H : H[b] \in HeaderSet, NEW i, NEW c,
           NEW a, a \notin DOMAIN H, NEW e, HeaderFor(e, i, c), NEW H2, Placed(H, H2, a, e)
    PROVE  /\ SameBut(H, H2, i)
           /\ \A b \in DOMAIN H2 : H2[b] \in HeaderSet
           /\ a \in DOMAIN H2 /\ H2[a].slab = i /\ H2[a].class = c
           /\ H2[a].units <= SLAB_CLASS_SIZES[c]
           /\ \A b \in DOMAIN H : b \in DOMAIN H2 /\ H2[b] = H[b]
           /\ \A b \in DOMAIN H2 \ {a} : b \in DOMAIN H /\ H2[b] = H[b]
<1>1. DOMAIN H2 = DOMAIN H \cup {a} /\ H2[a] = e /\ \A b \in DOMAIN H : H2[b] = H[b]
  BY DEF Placed
<1>2. e \in HeaderSet /\ e.slab = i /\ e.class = c /\ e.units <= SLAB_CLASS_SIZES[c]
  BY DEF HeaderFor
<1>3. SameBut(H, H2, i)
  BY <1>1, <1>2 DEF SameOutside, SameBut
<1> QED
  BY <1>1, <1>2, <1>3

\* No header is at a free object.
LEMMA FreeObject ==
    ASSUME NEW S \in [SlabIndexes -> SlabSet], NEW H, Accounted(S, H),
           \A b \in DOMAIN H : H[b] \in HeaderSet,
           NEW i \in SlabIndexes, NEW c \in Classes,
           SmallOf(S, i, c), NEW a \in Range(S[i].FreeList)
    PROVE  a \in Objects(i, c) /\ a \in Nat /\ a \notin DOMAIN H
<1>1. GoodSmall(S[i], i, H)
  BY DEF Accounted, GoodSlab, SmallOf
<1>2. a \in Objects(i, c)
  BY <1>1 DEF GoodSmall, SmallOf
<1>3. a \in Nat
  BY <1>2, ObjectPlace
<1>4. a \notin DOMAIN H
  <2> SUFFICES ASSUME a \in DOMAIN H PROVE FALSE
    OBVIOUS
  <2>1. GoodHeader(S, a, H[a]) /\ H[a] \in HeaderSet /\ H[a].slab \in SlabIndexes
    BY DEF Accounted, HeaderSet
  <2>2. H[a].slab = i
    BY <1>2, <2>1, HeaderPlace, ObjectPlace, OneSlab
  <2> QED
    BY <2>1, <2>2 DEF GoodHeader, SmallOf
<1> QED
  BY <1>2, <1>3, <1>4

\* The free objects of slab s without the first.
Rest(s, r, m) == r = Tail(s.FreeList) /\ m = s.FreeObjects - 1

\* What TakeObject does.
LEMMA TakeEffect ==
    ASSUME NEW S \in [SlabIndexes -> SlabSet], NEW A \in [Classes -> Links],
           NEW i \in SlabIndexes, NEW c \in Classes,
           NEW r \in Seq(Nat), NEW m \in Nat, Rest(S[i], r, m),
           NEW h, Pair(h, S, A), NEW g, g = TakeObject(h, i, c)
    PROVE  \E k, T : /\ Restocked(S, T, i, r, m) /\ Pair(k, T, A)
                     /\ g = IF m = 0 THEN UnlinkSlabFromClassList(k, i, c) ELSE k
<1>1. PICK t : t = WithObjects(S[i], r, m)
  OBVIOUS
<1>2. t \in SlabSet /\ t.FreeObjects = m
  BY <1>1, WithObjectsFields
<1>3. PICK T : T = [S EXCEPT ![i] = t]
  OBVIOUS
<1>4. T[i] = t /\ T \in [SlabIndexes -> SlabSet] /\ \A j \in SlabIndexes \ {i} : T[j] = S[j]
  BY <1>2, <1>3
<1>5. Restocked(S, T, i, r, m)
  BY <1>1, <1>4 DEF Restocked
<1>6. PICK k : Pair(k, T, A)
  BY DEF Pair
<1>7. PICK slab : slab = [h.slabs[i] EXCEPT !.FreeList = Tail(@), !.FreeObjects = @ - 1]
  OBVIOUS
<1>8. h.slabs[i] = S[i]
  BY DEF Pair
<1>9. slab = t
  BY <1>1, <1>7, <1>8 DEF WithObjects, Rest, SlabSet
<1>10. [h EXCEPT !.slabs[i] = slab] = k
  BY <1>3, <1>6, <1>9 DEF Pair
<1>11. g = IF slab.FreeObjects = 0 THEN UnlinkSlabFromClassList(k, i, c) ELSE k
  BY <1>7, <1>10 DEF TakeObject
<1>12. g = IF m = 0 THEN UnlinkSlabFromClassList(k, i, c) ELSE k
  BY <1>2, <1>9, <1>11
<1> QED
  BY <1>5, <1>6, <1>12

\* The free objects of a slab are at most all of them.
LEMMA FreeBound ==
    ASSUME NEW S \in [SlabIndexes -> SlabSet], NEW H, Accounted(S, H),
           NEW i \in SlabIndexes, NEW c \in Classes, SmallOf(S, i, c)
    PROVE  /\ S[i].FreeObjects \in Nat /\ ObjectsPerSlab(c) \in Nat
           /\ S[i].FreeObjects <= ObjectsPerSlab(c)
           /\ S[i].TotalObjects = ObjectsPerSlab(c)
<1>1. PICK q \in Seq(Nat) : q = S[i].FreeList
  BY DEF SlabSet
<1>2. GoodSmall(S[i], i, H)
  BY DEF Accounted, GoodSlab, SmallOf
<1>3. /\ IsInjective(q) /\ Range(q) \subseteq Objects(i, c)
      /\ Len(q) = S[i].FreeObjects /\ S[i].TotalObjects = ObjectsPerSlab(c)
  BY <1>1, <1>2 DEF GoodSmall, SmallOf
<1>4. /\ Cardinality(Objects(i, c) \ Range(q)) + Len(q) = ObjectsPerSlab(c)
      /\ Cardinality(Objects(i, c) \ Range(q)) \in Nat
  BY <1>3, Missing, FS_CardinalityType
<1> QED
  BY <1>3, <1>4

\* Slab i loses the head of its free list to a new header: objects and headers
\* still match.
LEMMA TakenAccounted ==
    ASSUME NEW S \in [SlabIndexes -> SlabSet], NEW H, Accounted(S, H),
           \A b \in DOMAIN H : H[b] \in HeaderSet,
           NEW i \in SlabIndexes, NEW c \in Classes, SmallOf(S, i, c),
           S[i].FreeObjects > 0,
           NEW r \in Seq(Nat), NEW m \in Nat, Rest(S[i], r, m),
           NEW T, Restocked(S, T, i, r, m), NEW e, HeaderFor(e, i, c),
           NEW H2, Placed(H, H2, Head(S[i].FreeList), e)
    PROVE  /\ Accounted(T, H2)
           /\ DOMAIN H \subseteq Nat => DOMAIN H2 \subseteq Nat
           /\ \A b \in DOMAIN H2 : H2[b] \in HeaderSet
           /\ m < ObjectsPerSlab(c)
<1>1. PICK q \in Seq(Nat) : q = S[i].FreeList
  BY DEF SlabSet
<1>2. PICK n \in Nat : n = S[i].FreeObjects
  BY DEF SlabSet
<1>3. GoodSmall(S[i], i, H)
  BY DEF Accounted, GoodSlab, SmallOf
<1>4. /\ Len(q) = n /\ IsInjective(q) /\ Range(q) \subseteq Objects(i, c)
      /\ \A b \in Objects(i, c) \ Range(q) : b \in DOMAIN H /\ H[b].slab = i
  BY <1>1, <1>2, <1>3 DEF GoodSmall, SmallOf
<1>5. q # <<>> /\ n > 0
  BY <1>2, <1>4
<1>6. PICK a : a = Head(q)
  OBVIOUS
<1>7. m + 1 = n /\ r = Tail(q)
  BY <1>1, <1>2, <1>5 DEF Rest
<1>8. /\ Len(r) = m /\ IsInjective(r)
      /\ Range(r) = Range(q) \ {a} /\ a \in Range(q)
  BY <1>4, <1>5, <1>6, <1>7, PopElements
<1>9. a \in Objects(i, c) /\ a \in Nat /\ a \notin DOMAIN H
  BY <1>1, <1>8, FreeObject
<1>10. Placed(H, H2, a, e)
  BY <1>1, <1>6
<1>11. /\ SameBut(H, H2, i)
       /\ \A b \in DOMAIN H2 : H2[b] \in HeaderSet
       /\ a \in DOMAIN H2 /\ H2[a].slab = i /\ H2[a].class = c
       /\ H2[a].units <= SLAB_CLASS_SIZES[c]
       /\ \A b \in DOMAIN H : b \in DOMAIN H2 /\ H2[b] = H[b]
       /\ \A b \in DOMAIN H2 \ {a} : b \in DOMAIN H /\ H2[b] = H[b]
  <2>1. SameBut(H, H2, i) /\ \A b \in DOMAIN H2 : H2[b] \in HeaderSet
    BY <1>9, <1>10, PlacedHeader
  <2> QED
    BY <1>9, <1>10, <2>1 DEF Placed, HeaderFor
<1>12. \A b \in Objects(i, c) \ Range(r) : b \in DOMAIN H2 /\ H2[b].slab = i
  BY <1>4, <1>8, <1>11
<1>13. ASSUME NEW b \in DOMAIN H2, H2[b].slab = i
       PROVE  /\ b \in Objects(i, c) \ Range(r) /\ H2[b].class = c
              /\ H2[b].units <= SLAB_CLASS_SIZES[c]
  <2>1. CASE b = a
    BY <1>8, <1>9, <1>11, <2>1
  <2>2. CASE b # a
    <3>1. b \in DOMAIN H /\ H2[b] = H[b] /\ GoodHeader(S, b, H[b])
      BY <1>11, <2>2 DEF Accounted
    <3> QED
      BY <1>1, <1>8, <1>13, <3>1 DEF GoodHeader, SmallOf
  <2> QED
    BY <2>1, <2>2
<1>14. Range(r) \subseteq Objects(i, c)
  BY <1>4, <1>8
<1>15. Accounted(T, H2)
  <2>1. SameBut(H, H2, i) /\ \A b \in DOMAIN H2 : H2[b] \in HeaderSet
    BY <1>11
  <2>2. FreeOf(H2, i, c, r, m)
    BY <1>8, <1>12, <1>13, <1>14 DEF FreeOf
  <2> QED
    BY <2>1, <2>2, RestockedAccounted
<1>16. m < ObjectsPerSlab(c)
  BY <1>2, <1>7, FreeBound
<1>17. DOMAIN H \subseteq Nat => DOMAIN H2 \subseteq Nat
  BY <1>9, <1>11
<1> QED
  BY <1>11, <1>15, <1>16, <1>17

\* A member that joins again changes nothing.
LEMMA JoinedSame ==
    ASSUME NEW S, NEW c \in Classes, NEW i \in Members(S)[c]
    PROVE  Joined(Members(S), c, i) = Members(S)
<1>1. Members(S) = [d \in Classes |-> Members(S)[d]]
  BY DEF Members
<1>2. \A d \in Classes : Joined(Members(S), c, i)[d] = Members(S)[d]
  BY DEF Joined
<1> QED
  BY <1>1, <1>2 DEF Joined

\* The slabs but i have an allocated object.
NoneIdleBut(S, i) == NoneIdle(S, {i})

\* TakeObject and the header it is followed by keep the heap good.
LEMMA TakeGood ==
    ASSUME NEW S, NEW A, NEW H, Good(S, A, H), NEW c \in Classes, NEW i \in Members(S)[c],
           NoneIdleBut(S, i),
           NEW h, Pair(h, S, A), NEW g, g = TakeObject(h, i, c), NEW e, HeaderFor(e, i, c),
           NEW H2, Placed(H, H2, Head(S[i].FreeList), e)
    PROVE  Good(g.slabs, g.heads, H2) /\ NoneIdle(g.slabs, {})
<1>1. /\ S \in [SlabIndexes -> SlabSet] /\ A \in [Classes -> Links]
      /\ DOMAIN H \subseteq Nat /\ \A b \in DOMAIN H : H[b] \in HeaderSet
      /\ Listed(S, A, Members(S)) /\ Accounted(S, H)
  BY DEF Good, Types
<1>2. i \in SlabIndexes /\ SmallOf(S, i, c) /\ S[i].FreeObjects > 0
  BY DEF Members, SmallOf
<1>3. S[i] \in SlabSet /\ S[i].FreeList \in Seq(Nat) /\ S[i].FreeObjects \in Nat
  BY <1>1, <1>2 DEF SlabSet
<1>4. S[i].FreeList # <<>>
  <2>1. GoodSmall(S[i], i, H)
    BY <1>1, <1>2 DEF Accounted, GoodSlab, SmallOf
  <2> QED
    BY <1>2, <1>3, <2>1 DEF GoodSmall
<1>5. PICK r \in Seq(Nat), m \in Nat : Rest(S[i], r, m)
  <2>1. Tail(S[i].FreeList) \in Seq(Nat) /\ S[i].FreeObjects - 1 \in Nat
    BY <1>2, <1>3, <1>4
  <2> QED
    BY <2>1 DEF Rest
<1>6. PICK k, T : /\ Restocked(S, T, i, r, m) /\ Pair(k, T, A)
                  /\ g = IF m = 0 THEN UnlinkSlabFromClassList(k, i, c) ELSE k
  BY <1>1, <1>2, <1>5, TakeEffect
<1>7. /\ Accounted(T, H2) /\ DOMAIN H2 \subseteq Nat
      /\ \A b \in DOMAIN H2 : H2[b] \in HeaderSet
      /\ m < ObjectsPerSlab(c)
  BY <1>1, <1>2, <1>5, <1>6, TakenAccounted
<1>8. /\ Listed(T, A, Members(S))
      /\ m > 0 => Members(T) = Joined(Members(S), c, i)
      /\ m = 0 => Members(T) = Left(Members(S), c, i)
  <2>1. Apart(Members(S))
    BY MembersApart
  <2>2. Listed(T, A, Members(S)) /\ Rejoined(S, T, i, c, m)
    BY <1>1, <1>2, <1>5, <1>6, <2>1, RestockedLists
  <2> QED
    BY <2>2 DEF Rejoined
<1>9. /\ T \in [SlabIndexes -> SlabSet] /\ T[i].FreeObjects = m
      /\ T[i].TotalObjects = S[i].TotalObjects
      /\ \A j \in SlabIndexes \ {i} : T[j] = S[j]
  BY <1>1, <1>2, <1>5, <1>6, RestockedFields
<1>10. NoneIdle(T, {})
  <2>1. S[i].TotalObjects = ObjectsPerSlab(c)
    BY <1>1, <1>2, FreeBound
  <2> QED
    BY <1>7, <1>9, <2>1 DEF NoneIdle, NoneIdleBut
<1>11. k.slabs = T /\ k.heads = A
  BY <1>6 DEF Pair
<1>12. CASE m = 0
  <2>1. g = UnlinkSlabFromClassList(k, i, c)
    BY <1>6, <1>12
  <2>2. /\ Relinked(T, g.slabs) /\ g.heads \in [Classes -> Links]
        /\ Listed(g.slabs, g.heads, Left(Members(S), c, i))
    <3>1. Apart(Members(S))
      BY MembersApart
    <3> QED
      BY <1>1, <1>6, <1>8, <1>9, <2>1, <3>1, ListedUnlink
  <2>3. /\ Members(g.slabs) = Members(T) /\ Accounted(g.slabs, H2) /\ NoneIdle(g.slabs, {})
        /\ g.slabs \in [SlabIndexes -> SlabSet]
    BY <1>7, <1>9, <1>10, <2>2, RelinkedAccounted DEF Relinked
  <2> QED
    BY <1>7, <1>8, <1>12, <2>2, <2>3 DEF Good, Types
<1>13. CASE m # 0
  <2>1. g.slabs = T /\ g.heads = A
    BY <1>6, <1>11, <1>13
  <2>2. Members(T) = Members(S)
    BY <1>5, <1>8, <1>13, JoinedSame
  <2> QED
    BY <1>1, <1>7, <1>8, <1>9, <1>10, <2>1, <2>2 DEF Good, Types
<1> QED
  BY <1>12, <1>13

-----------------------------------------------------------------------------
(* Returning an object                                                     *)

\* r is q with a in front.
InFront(r, q, a) == r = <<a>> \o q

\* Putting a new element in front keeps a sequence free of repetition.
LEMMA FrontOfInjective ==
    ASSUME NEW T, NEW q \in Seq(T), IsInjective(q), NEW a \in T, a \notin Range(q),
           NEW r, InFront(r, q, a)
    PROVE  /\ r \in Seq(T) /\ Len(r) = Len(q) + 1
           /\ IsInjective(r) /\ Range(r) = Range(q) \cup {a}
<1> DEFINE L == Len(q)
<1>1. L \in Nat /\ DOMAIN q = 1 .. L
  OBVIOUS
<1>2. /\ r \in Seq(T) /\ Len(r) = L + 1 /\ DOMAIN r = 1 .. L + 1
      /\ r[1] = a /\ \A n \in 1 .. L : r[n + 1] = q[n]
  BY <1>1 DEF InFront
<1>3. \A n \in 2 .. L + 1 : n - 1 \in 1 .. L /\ r[n] = q[n - 1]
  <2> SUFFICES ASSUME NEW n \in 2 .. L + 1 PROVE n - 1 \in 1 .. L /\ r[n] = q[n - 1]
    OBVIOUS
  <2>1. n - 1 \in 1 .. L /\ (n - 1) + 1 = n
    BY <1>1
  <2> QED
    BY <1>2, <2>1
<1>4. \A n \in 1 .. L : q[n] # a
  BY <1>1 DEF Range
<1>5. IsInjective(r)
  <2> SUFFICES ASSUME NEW n \in 1 .. L + 1, NEW m \in 1 .. L + 1, r[n] = r[m] PROVE n = m
    BY <1>2 DEF IsInjective
  <2>1. \A x, y \in 1 .. L : q[x] = q[y] => x = y
    BY <1>1 DEF IsInjective
  <2> QED
    BY <1>1, <1>2, <1>3, <1>4, <2>1
<1>6. \A x \in Range(r) : x \in Range(q) \cup {a}
  <2> SUFFICES ASSUME NEW n \in 1 .. L + 1 PROVE r[n] \in Range(q) \cup {a}
    BY <1>2 DEF Range
  <2> QED
    BY <1>1, <1>2, <1>3 DEF Range
<1>7. a \in Range(r)
  BY <1>1, <1>2 DEF Range
<1>8. \A x \in Range(q) : x \in Range(r)
  <2> SUFFICES ASSUME NEW n \in 1 .. L PROVE q[n] \in Range(r)
    BY <1>1 DEF Range
  <2>1. n + 1 \in 1 .. L + 1 /\ r[n + 1] = q[n]
    BY <1>1, <1>2
  <2> QED
    BY <1>2, <2>1 DEF Range
<1> QED
  BY <1>2, <1>5, <1>6, <1>7, <1>8

\* The object a in front of the free objects of slab s.
More(s, r, m, a) == InFront(r, s.FreeList, a) /\ m = s.FreeObjects + 1

\* H2 is H without the header at a, which is for an object of slab i.
Removed(H, H2, a, i, c) ==
    /\ a \in DOMAIN H /\ H[a].slab = i /\ H[a].class = c
    /\ DOMAIN H2 = DOMAIN H \ {a} /\ \A b \in DOMAIN H2 : H2[b] = H[b]

\* The free list of slab i gains the object whose header is removed: objects
\* and headers still match.
LEMMA ReturnedAccounted ==
    ASSUME NEW S \in [SlabIndexes -> SlabSet], NEW H, Accounted(S, H),
           \A b \in DOMAIN H : H[b] \in HeaderSet,
           NEW i \in SlabIndexes, NEW c \in Classes, SmallOf(S, i, c),
           NEW a, NEW r, NEW m, More(S[i], r, m, a),
           NEW H2, Removed(H, H2, a, i, c)
    PROVE  /\ r \in Seq(Nat) /\ m \in Nat /\ m > 0
           /\ \A T : Restocked(S, T, i, r, m) => Accounted(T, H2)
<1>1. PICK q \in Seq(Nat) : q = S[i].FreeList
  BY DEF SlabSet
<1>2. PICK n \in Nat : n = S[i].FreeObjects
  BY DEF SlabSet
<1>3. GoodSmall(S[i], i, H)
  BY DEF Accounted, GoodSlab, SmallOf
<1>4. /\ Len(q) = n /\ IsInjective(q) /\ Range(q) \subseteq Objects(i, c)
      /\ \A b \in Objects(i, c) \ Range(q) : b \in DOMAIN H /\ H[b].slab = i
  BY <1>1, <1>2, <1>3 DEF GoodSmall, SmallOf
<1>5. /\ a \in DOMAIN H /\ H[a].slab = i /\ H[a].class = c
      /\ DOMAIN H2 = DOMAIN H \ {a} /\ \A b \in DOMAIN H2 : H2[b] = H[b]
  BY DEF Removed
<1>6. ASSUME NEW b \in DOMAIN H, H[b].slab = i
      PROVE  /\ b \in Objects(i, c) \ Range(q) /\ H[b].class = c
             /\ H[b].units <= SLAB_CLASS_SIZES[c]
  <2>1. GoodHeader(S, b, H[b])
    BY DEF Accounted
  <2> QED
    BY <1>1, <1>6, <2>1 DEF GoodHeader, SmallOf
<1>7. a \in Objects(i, c) \ Range(q) /\ a \in Nat
  BY <1>5, <1>6, ObjectPlace
<1>8. InFront(r, q, a) /\ m = n + 1
  BY <1>1, <1>2 DEF More
<1>9. r \in Seq(Nat) /\ Len(r) = m /\ IsInjective(r) /\ Range(r) = Range(q) \cup {a}
  BY <1>4, <1>7, <1>8, FrontOfInjective
<1>10. FreeOf(H2, i, c, r, m)
  <2>1. Range(r) \subseteq Objects(i, c)
    BY <1>4, <1>7, <1>9
  <2>2. \A b \in Objects(i, c) \ Range(r) : b \in DOMAIN H2 /\ H2[b].slab = i
    BY <1>4, <1>5, <1>9
  <2>3. ASSUME NEW b \in DOMAIN H2, H2[b].slab = i
        PROVE  /\ b \in Objects(i, c) \ Range(r) /\ H2[b].class = c
               /\ H2[b].units <= SLAB_CLASS_SIZES[c]
    BY <1>5, <1>6, <1>9, <2>3
  <2> QED
    BY <1>9, <2>1, <2>2, <2>3 DEF FreeOf
<1>11. SameBut(H, H2, i) /\ \A b \in DOMAIN H2 : H2[b] \in HeaderSet
  BY <1>5 DEF SameOutside, SameBut
<1>12. m \in Nat /\ m > 0
  BY <1>8
<1>13. m \in Nat /\ r \in Seq(Nat)
  BY <1>9, <1>12
<1>14. ASSUME NEW T, Restocked(S, T, i, r, m) PROVE Accounted(T, H2)
  BY <1>10, <1>11, <1>13, <1>14, RestockedAccounted
<1> QED
  BY <1>9, <1>12, <1>14

\* The last step of ReturnObject.
Put(h, i, a) ==
    [h EXCEPT !.slabs[i] = [h.slabs[i] EXCEPT !.FreeList = <<a>> \o @, !.FreeObjects = @ + 1]]

\* Putting an object back writes the free list of slab i and no head.
LEMMA PutEffect ==
    ASSUME NEW S \in [SlabIndexes -> SlabSet], NEW A, NEW i \in SlabIndexes,
           NEW r \in Seq(Nat), NEW m \in Nat, NEW a, More(S[i], r, m, a),
           NEW h, Pair(h, S, A)
    PROVE  \E T : Restocked(S, T, i, r, m) /\ Pair(Put(h, i, a), T, A)
<1>1. PICK t : t = WithObjects(S[i], r, m)
  OBVIOUS
<1>2. t \in SlabSet
  BY <1>1, WithObjectsFields
<1>3. PICK T : T = [S EXCEPT ![i] = t]
  OBVIOUS
<1>4. T[i] = t /\ T \in [SlabIndexes -> SlabSet] /\ \A j \in SlabIndexes \ {i} : T[j] = S[j]
  BY <1>2, <1>3
<1>5. Restocked(S, T, i, r, m)
  BY <1>1, <1>4 DEF Restocked
<1>6. PICK slab : slab = [h.slabs[i] EXCEPT !.FreeList = <<a>> \o @, !.FreeObjects = @ + 1]
  OBVIOUS
<1>7. h.slabs[i] = S[i]
  BY DEF Pair
<1>8. slab = t
  BY <1>1, <1>6, <1>7 DEF WithObjects, More, InFront, SlabSet
<1>9. Pair([h EXCEPT !.slabs[i] = slab], T, A)
  BY <1>3, <1>8 DEF Pair
<1>10. Put(h, i, a) = [h EXCEPT !.slabs[i] = slab]
  BY <1>6 DEF Put
<1>11. Pair(Put(h, i, a), T, A)
  BY <1>9, <1>10 DEF Pair
<1> QED
  BY <1>5, <1>11

\* ReturnObject puts the object back, after linking a slab that was full.
LEMMA ReturnEffect ==
    ASSUME NEW S \in [SlabIndexes -> SlabSet], NEW A, NEW i \in SlabIndexes, NEW c, NEW a,
           NEW h, Pair(h, S, A), NEW l, l = LinkSlabIntoClassList(h, i, c)
    PROVE  /\ S[i].FreeObjects = 0 => ReturnObject(h, i, c, a) = Put(l, i, a)
           /\ S[i].FreeObjects # 0 => ReturnObject(h, i, c, a) = Put(h, i, a)
<1>1. h.slabs[i].FreeObjects = S[i].FreeObjects
  BY DEF Pair
<1>2. CASE S[i].FreeObjects = 0
  BY <1>1, <1>2 DEF ReturnObject, Put
<1>3. CASE S[i].FreeObjects # 0
  BY <1>1, <1>3 DEF ReturnObject, Put
<1> QED
  BY <1>2, <1>3

\* An object goes back to slab i of the good S.
LEMMA PutGood ==
    ASSUME NEW S \in [SlabIndexes -> SlabSet], NEW A \in [Classes -> Links], NEW H,
           Accounted(S, H), DOMAIN H \subseteq Nat, \A b \in DOMAIN H : H[b] \in HeaderSet,
           NoneIdle(S, {}), NEW i \in SlabIndexes, NEW c \in Classes, SmallOf(S, i, c),
           Listed(S, A, Joined(Members(S), c, i)), Apart(Joined(Members(S), c, i)),
           NEW h, Pair(h, S, A), NEW a, NEW H2, Removed(H, H2, a, i, c),
           NEW g, g = Put(h, i, a)
    PROVE  /\ Good(g.slabs, g.heads, H2) /\ NoneIdleBut(g.slabs, i)
           /\ i \in Members(g.slabs)[c] /\ Pair(g, g.slabs, g.heads)
<1>1. PICK r, m : More(S[i], r, m, a)
  BY DEF More, InFront
<1>2. r \in Seq(Nat) /\ m \in Nat /\ m > 0
  BY <1>1, ReturnedAccounted
<1>3. PICK T : Restocked(S, T, i, r, m) /\ Pair(g, T, A)
  BY <1>1, <1>2, PutEffect
<1>4. Accounted(T, H2)
  BY <1>1, <1>3, ReturnedAccounted
<1>5. Listed(T, A, Joined(Members(S), c, i)) /\ Rejoined(S, T, i, c, m)
  BY <1>2, <1>3, RestockedLists
<1>6. Members(T) = Joined(Members(S), c, i)
  BY <1>2, <1>5 DEF Rejoined
<1>7. T \in [SlabIndexes -> SlabSet] /\ \A j \in SlabIndexes \ {i} : T[j] = S[j]
  BY <1>3 DEF Restocked
<1>8. NoneIdleBut(T, i)
  BY <1>7 DEF NoneIdle, NoneIdleBut
<1>9. DOMAIN H2 \subseteq Nat /\ \A b \in DOMAIN H2 : H2[b] \in HeaderSet
  BY DEF Removed
<1>10. Good(T, A, H2)
  BY <1>4, <1>5, <1>6, <1>7, <1>9 DEF Good, Types
<1>11. i \in Members(T)[c]
  BY <1>6 DEF Joined
<1>12. g.slabs = T /\ g.heads = A
  BY <1>3 DEF Pair
<1> QED
  BY <1>3, <1>8, <1>10, <1>11, <1>12

\* ReturnObject after the header is cleared keeps the heap good, up to slab i,
\* which may now have no allocated object.
LEMMA ReturnGood ==
    ASSUME NEW S, NEW A, NEW H, Good(S, A, H), NoneIdle(S, {}),
           NEW i \in SlabIndexes, NEW c \in Classes, NEW a, NEW H2, Removed(H, H2, a, i, c),
           NEW h, Pair(h, S, A), NEW g, g = ReturnObject(h, i, c, a)
    PROVE  /\ Good(g.slabs, g.heads, H2) /\ NoneIdleBut(g.slabs, i)
           /\ i \in Members(g.slabs)[c] /\ Pair(g, g.slabs, g.heads)
<1>1. /\ S \in [SlabIndexes -> SlabSet] /\ A \in [Classes -> Links]
      /\ DOMAIN H \subseteq Nat /\ \A b \in DOMAIN H : H[b] \in HeaderSet
      /\ Listed(S, A, Members(S)) /\ Accounted(S, H)
  BY DEF Good, Types
<1>2. SmallOf(S, i, c)
  <2>1. a \in DOMAIN H /\ H[a].slab = i /\ H[a].class = c
    BY DEF Removed
  <2>2. GoodHeader(S, a, H[a])
    BY <1>1, <2>1 DEF Accounted
  <2> QED
    BY <2>1, <2>2, HeapAssumption DEF GoodHeader, SmallOf, Classes, LARGE_CLASS_SENTINEL
<1>3. Apart(Members(S))
  BY MembersApart
<1>4. CASE S[i].FreeObjects = 0
  <2>1. PICK l : l = LinkSlabIntoClassList(h, i, c)
    OBVIOUS
  <2>2. g = Put(l, i, a)
    BY <1>1, <1>4, <2>1, ReturnEffect
  <2>3. \A d \in Classes : i \notin Members(S)[d]
    BY <1>4 DEF Members
  <2>4. PICK K : K = l.slabs
    OBVIOUS
  <2>5. PICK B : B = l.heads
    OBVIOUS
  <2>6. /\ Relinked(S, K) /\ B \in [Classes -> Links] /\ Pair(l, K, B)
        /\ Listed(K, B, Joined(Members(S), c, i))
    BY <1>1, <1>3, <2>1, <2>3, <2>4, <2>5, ListedLink
  <2>7. Members(K) = Members(S) /\ Accounted(K, H) /\ NoneIdle(K, {})
    BY <1>1, <2>6, RelinkedAccounted
  <2>8. K \in [SlabIndexes -> SlabSet] /\ SmallOf(K, i, c)
    BY <1>2, <2>6 DEF Relinked, SameData, SmallOf
  <2>9. Apart(Joined(Members(S), c, i))
    BY <1>3, <2>3 DEF Apart, Joined
  <2>10. Listed(K, B, Joined(Members(K), c, i)) /\ Apart(Joined(Members(K), c, i))
    BY <2>6, <2>7, <2>9
  <2> QED
    BY <1>1, <2>2, <2>6, <2>7, <2>8, <2>10, PutGood
<1>5. CASE S[i].FreeObjects # 0
  <2>1. g = Put(h, i, a)
    BY <1>1, <1>5, ReturnEffect
  <2>2. i \in Members(S)[c]
    BY <1>1, <1>2, <1>5 DEF Members, SmallOf, SlabSet
  <2>3. Joined(Members(S), c, i) = Members(S)
    BY <2>2, JoinedSame
  <2>4. Listed(S, A, Joined(Members(S), c, i)) /\ Apart(Joined(Members(S), c, i))
    BY <1>1, <1>3, <2>3
  <2> QED
    BY <1>1, <1>2, <2>1, <2>4, PutGood
<1> QED
  BY <1>4, <1>5

-----------------------------------------------------------------------------
(* Slabs that go back to the pool or leave it                              *)

\* A free slab is unlinked.
LEMMA FreeSlabFields ==
    /\ FreeSlab \in SlabSet
    /\ FreeSlab.State = "Free"
    /\ FreeSlab.PrevAvailable = INVALID_LIST_INDEX /\ FreeSlab.NextAvailable = INVALID_LIST_INDEX
  BY NoLink DEF FreeSlab, SlabSet, LARGE_CLASS_SENTINEL, Links

\* The slabs R are new in T, and have no links.
Renewed(S, T, R) ==
    /\ T \in [SlabIndexes -> SlabSet]
    /\ \A j \in SlabIndexes \ R : T[j] = S[j]
    /\ \A j \in R : T[j].PrevAvailable = INVALID_LIST_INDEX /\ T[j].NextAvailable = INVALID_LIST_INDEX

\* Rewriting unlinked slabs that are in no list keeps the lists.
LEMMA RenewedLists ==
    ASSUME NEW S \in [SlabIndexes -> SlabSet], NEW A, NEW M, Listed(S, A, M), Apart(M),
           NEW R \in SUBSET SlabIndexes, \A j \in R : \A c \in Classes : j \notin M[c],
           NEW T, Renewed(S, T, R)
    PROVE  Listed(T, A, M)
<1>1. ASSUME NEW j \in SlabIndexes
      PROVE  T[j].PrevAvailable = S[j].PrevAvailable /\ T[j].NextAvailable = S[j].NextAvailable
  <2>1. CASE j \in R
    BY <2>1 DEF Listed, Renewed
  <2>2. CASE j \notin R
    BY <2>2 DEF Renewed
  <2> QED
    BY <2>1, <2>2
<1> QED
  BY <1>1, ListedFrame

\* A slab none of whose objects is allocated has no header.
LEMMA EmptySlab ==
    ASSUME NEW S \in [SlabIndexes -> SlabSet], NEW H, Accounted(S, H),
           NEW i \in SlabIndexes, NEW c \in Classes, SmallOf(S, i, c),
           S[i].FreeObjects = S[i].TotalObjects, NEW b \in DOMAIN H
    PROVE  H[b].slab # i
<1>1. PICK q \in Seq(Nat) : q = S[i].FreeList
  BY DEF SlabSet
<1>2. GoodSmall(S[i], i, H)
  BY DEF Accounted, GoodSlab, SmallOf
<1>3. Len(q) = ObjectsPerSlab(c) /\ IsInjective(q) /\ Range(q) \subseteq Objects(i, c)
  BY <1>1, <1>2 DEF GoodSmall, SmallOf
<1>4. Range(q) = Objects(i, c)
  BY <1>3, Missing
<1>5. GoodHeader(S, b, H[b])
  BY DEF Accounted
<1> QED
  BY <1>1, <1>4, <1>5 DEF GoodHeader, SmallOf

\* An empty slab is released: no header was in it.
LEMMA EmptyReleased ==
    ASSUME NEW S \in [SlabIndexes -> SlabSet], NEW H, Accounted(S, H),
           \A b \in DOMAIN H : H[b] \in HeaderSet,
           NEW i \in SlabIndexes, NEW c \in Classes, SmallOf(S, i, c),
           S[i].FreeObjects = S[i].TotalObjects, NoneIdleBut(S, i),
           NEW T, T = ReleaseSlabRun(S, i, 1)
    PROVE  /\ Renewed(S, T, {i}) /\ Accounted(T, H) /\ NoneIdle(T, {})
           /\ Members(T) = Left(Members(S), c, i)
<1>1. i \in Nat
  BY BaseType
<1>2. \A j \in SlabIndexes : T[j] = IF j = i THEN FreeSlab ELSE S[j]
  BY <1>1, BaseType DEF ReleaseSlabRun
<1>3. T \in [SlabIndexes -> SlabSet]
  BY <1>2, FreeSlabFields DEF ReleaseSlabRun
<1>4. T[i].State = "Free"
  BY <1>2, FreeSlabFields
<1>5. Renewed(S, T, {i})
  BY <1>2, <1>3, FreeSlabFields DEF Renewed
<1>6. NoneIdle(T, {})
  BY <1>2, <1>4 DEF NoneIdle, NoneIdleBut
<1>7. ASSUME NEW d \in Classes
      PROVE  {j \in SlabIndexes : T[j].State = "Small" /\ T[j].ClassIndex = d /\ T[j].FreeObjects > 0}
               = IF d = c THEN Members(S)[c] \ {i} ELSE Members(S)[d]
  BY <1>2, <1>4 DEF Members, SmallOf
<1>8. Members(T) = Left(Members(S), c, i)
  BY <1>7 DEF Members, Left
<1>9. Accounted(T, H)
  <2> DEFINE R == {i}
  <2>1. R \subseteq SlabIndexes /\ SameOutside(H, H, R)
    BY DEF SameOutside
  <2>2. \A j \in SlabIndexes \ R : SameData(S[j], T[j])
    BY <1>2 DEF SameData
  <2>3. \A j \in SlabIndexes \ R : S[j].State = "LargeTail" => S[j].OwnerOrSpan \notin R
    BY DEF Accounted, GoodSlab, GoodTail, SmallOf
  <2>4. \A t \in R : S[t].State # "LargeTail"
    BY DEF SmallOf
  <2>5. \A j \in R : GoodSlab(T, j, H)
    BY <1>4 DEF GoodSlab
  <2>6. \A b \in DOMAIN H : H[b].slab \notin R
    BY EmptySlab
  <2> HIDE DEF R
  <2> QED
    BY <2>1, <2>2, <2>3, <2>4, <2>5, <2>6, AccountedFrame
<1> QED
  BY <1>5, <1>6, <1>8, <1>9

\* ReleaseIfEmpty leaves no slab idle.
LEMMA ReleaseGood ==
    ASSUME NEW S, NEW A, NEW H, Good(S, A, H), NEW c \in Classes, NEW i \in Members(S)[c],
           NoneIdleBut(S, i), NEW h, Pair(h, S, A), NEW g, g = ReleaseIfEmpty(h, i, c)
    PROVE  Good(g.slabs, g.heads, H) /\ NoneIdle(g.slabs, {})
<1>1. /\ S \in [SlabIndexes -> SlabSet] /\ A \in [Classes -> Links]
      /\ DOMAIN H \subseteq Nat /\ \A b \in DOMAIN H : H[b] \in HeaderSet
      /\ Listed(S, A, Members(S)) /\ Accounted(S, H)
  BY DEF Good, Types
<1>2. i \in SlabIndexes /\ SmallOf(S, i, c)
  BY DEF Members, SmallOf
<1>3. h.slabs[i] = S[i] /\ h.slabs = S /\ h.heads = A
  BY DEF Pair
<1>4. CASE S[i].FreeObjects # S[i].TotalObjects
  <2>1. g = h
    BY <1>3, <1>4 DEF ReleaseIfEmpty
  <2>2. NoneIdle(S, {})
    <3>1. S[i].FreeObjects < S[i].TotalObjects
      BY <1>1, <1>2, <1>4, FreeBound
    <3> QED
      BY <3>1 DEF NoneIdle, NoneIdleBut
  <2> QED
    BY <1>3, <2>1, <2>2
<1>5. CASE S[i].FreeObjects = S[i].TotalObjects
  <2>1. PICK u : u = UnlinkSlabFromClassList(h, i, c)
    OBVIOUS
  <2>2. PICK K : K = u.slabs
    OBVIOUS
  <2>3. PICK B : B = u.heads
    OBVIOUS
  <2>4. Apart(Members(S))
    BY MembersApart
  <2>5. /\ Relinked(S, K) /\ B \in [Classes -> Links] /\ Pair(u, K, B)
        /\ Listed(K, B, Left(Members(S), c, i))
    BY <1>1, <2>1, <2>2, <2>3, <2>4, ListedUnlink
  <2>6. Members(K) = Members(S) /\ Accounted(K, H) /\ NoneIdleBut(K, i)
    BY <1>1, <2>5, RelinkedAccounted DEF NoneIdleBut
  <2>7. K \in [SlabIndexes -> SlabSet] /\ SmallOf(K, i, c) /\ K[i].FreeObjects = K[i].TotalObjects
    BY <1>2, <1>5, <2>5 DEF Relinked, SameData, SmallOf
  <2>8. PICK T : T = ReleaseSlabRun(K, i, 1)
    OBVIOUS
  <2>9. /\ Renewed(K, T, {i}) /\ Accounted(T, H) /\ NoneIdle(T, {})
        /\ Members(T) = Left(Members(K), c, i)
    BY ZenonT(30), <1>1, <1>2, <2>6, <2>7, <2>8, EmptyReleased
  <2>10. Listed(T, B, Members(T))
    <3>1. PICK M : M = Left(Members(S), c, i)
      OBVIOUS
    <3>2. Apart(M) /\ \A d \in Classes : i \notin M[d]
      BY <2>4, <3>1 DEF Apart, Left
    <3>3. PICK R \in SUBSET SlabIndexes : R = {i}
      BY <1>2
    <3>4. Listed(T, B, M)
      BY <2>5, <2>7, <2>9, <3>1, <3>2, <3>3, RenewedLists
    <3> QED
      BY <2>6, <2>9, <3>1, <3>4
  <2>11. Good(T, B, H)
    BY <1>1, <2>5, <2>9, <2>10 DEF Good, Types, Renewed
  <2>12. g.slabs = T /\ g.heads = B
    <3>1. g = [u EXCEPT !.slabs = ReleaseSlabRun(@, i, 1)]
      BY <1>3, <1>5, <2>1 DEF ReleaseIfEmpty
    <3> QED
      BY <2>5, <2>8, <3>1 DEF Pair
  <2> QED
    BY <2>9, <2>11, <2>12
<1> QED
  BY <1>4, <1>5

-----------------------------------------------------------------------------
(* A slab with a free object                                               *)

\* The descriptor of a slab that InitializeSmallSlab cuts into objects.
Fresh(i, c) ==
    [State |-> "Small", ClassIndex |-> c, OwnerOrSpan |-> 1,
     TotalObjects |-> ObjectsPerSlab(c), FreeObjects |-> ObjectsPerSlab(c),
     FreeList |-> ObjectAddresses(i, c),
     PrevAvailable |-> INVALID_LIST_INDEX, NextAvailable |-> INVALID_LIST_INDEX]

\* The fields of a slab that InitializeSmallSlab has cut.
LEMMA FreshFields ==
    ASSUME NEW i \in SlabIndexes, NEW c \in Classes, NEW t, t = Fresh(i, c)
    PROVE  /\ t \in SlabSet
           /\ t.State = "Small" /\ t.ClassIndex = c
           /\ t.TotalObjects = ObjectsPerSlab(c) /\ t.FreeObjects = ObjectsPerSlab(c)
           /\ t.FreeList = ObjectAddresses(i, c)
           /\ t.PrevAvailable = INVALID_LIST_INDEX /\ t.NextAvailable = INVALID_LIST_INDEX
<1>1. ObjectsPerSlab(c) \in Nat /\ ObjectAddresses(i, c) \in Seq(Nat)
  BY ClassFits, FreshObjects
<1> QED
  BY <1>1, NoLink DEF Fresh, SlabSet, Links

\* A free slab belongs to no list, no run and no header.
LEMMA FreeSlabIdle ==
    ASSUME NEW S, NEW H, Accounted(S, H), NEW i \in SlabIndexes, S[i].State = "Free"
    PROVE  /\ \A d \in Classes : i \notin Members(S)[d]
           /\ \A j \in SlabIndexes : S[j].State = "LargeTail" => S[j].OwnerOrSpan # i
           /\ \A b \in DOMAIN H : H[b].slab # i
<1>1. \A d \in Classes : i \notin Members(S)[d]
  BY DEF Members
<1>2. \A j \in SlabIndexes : S[j].State = "LargeTail" => S[j].OwnerOrSpan # i
  BY DEF Accounted, GoodSlab, GoodTail
<1>3. \A b \in DOMAIN H : H[b].slab # i
  BY DEF Accounted, GoodHeader
<1> QED
  BY <1>1, <1>2, <1>3

\* Slab i cut into objects of class c, none of them allocated.
LEMMA FreshAccounted ==
    ASSUME NEW S \in [SlabIndexes -> SlabSet], NEW H, Accounted(S, H),
           \A b \in DOMAIN H : H[b] \in HeaderSet,
           NEW i \in SlabIndexes, NEW c \in Classes, S[i].State = "Free", NoneIdle(S, {}),
           NEW t, t = Fresh(i, c), NEW T, T = [S EXCEPT ![i] = t]
    PROVE  /\ Renewed(S, T, {i}) /\ Accounted(T, H) /\ NoneIdleBut(T, i)
           /\ Members(T) = Joined(Members(S), c, i)
<1>1. /\ t \in SlabSet
      /\ t.State = "Small" /\ t.ClassIndex = c
      /\ t.TotalObjects = ObjectsPerSlab(c) /\ t.FreeObjects = ObjectsPerSlab(c)
      /\ t.FreeList = ObjectAddresses(i, c)
      /\ t.PrevAvailable = INVALID_LIST_INDEX /\ t.NextAvailable = INVALID_LIST_INDEX
  BY FreshFields
<1>2. T[i] = t /\ T \in [SlabIndexes -> SlabSet] /\ \A j \in SlabIndexes \ {i} : T[j] = S[j]
  BY <1>1
<1>3. Renewed(S, T, {i})
  BY <1>1, <1>2 DEF Renewed
<1>4. NoneIdleBut(T, i)
  BY <1>2 DEF NoneIdle, NoneIdleBut
<1>5. ObjectsPerSlab(c) > 0
  BY ClassFits
<1>6. ASSUME NEW d \in Classes
      PROVE  {j \in SlabIndexes : T[j].State = "Small" /\ T[j].ClassIndex = d /\ T[j].FreeObjects > 0}
               = IF d = c THEN Members(S)[c] \cup {i} ELSE Members(S)[d]
  BY <1>1, <1>2, <1>5 DEF Members
<1>7. Members(T) = Joined(Members(S), c, i)
  BY <1>6 DEF Members, Joined
<1>8. GoodSlab(T, i, H)
  <2>1. /\ Len(t.FreeList) = ObjectsPerSlab(c) /\ IsInjective(t.FreeList)
        /\ Range(t.FreeList) = Objects(i, c)
    BY <1>1, FreshObjects
  <2>2. GoodSmall(t, i, H)
    BY <1>1, <2>1 DEF GoodSmall
  <2> QED
    BY <1>1, <1>2, <2>2 DEF GoodSlab
<1>9. Accounted(T, H)
  <2> DEFINE R == {i}
  <2>1. R \subseteq SlabIndexes /\ SameOutside(H, H, R)
    BY DEF SameOutside
  <2>2. \A j \in SlabIndexes \ R : SameData(S[j], T[j])
    BY <1>2 DEF SameData
  <2>3. \A j \in SlabIndexes \ R : S[j].State = "LargeTail" => S[j].OwnerOrSpan \notin R
    BY FreeSlabIdle
  <2>4. \A j \in R : S[j].State # "LargeTail"
    OBVIOUS
  <2>5. \A j \in R : GoodSlab(T, j, H)
    BY <1>8
  <2>6. \A b \in DOMAIN H : H[b].slab \notin R
    BY FreeSlabIdle
  <2> HIDE DEF R
  <2> QED
    BY ZenonT(30), <2>1, <2>2, <2>3, <2>4, <2>5, <2>6, AccountedFrame
<1> QED
  BY <1>3, <1>4, <1>7, <1>9

\* InitializeSmallSlab keeps the heap good and puts slab i at the head of its
\* class.
LEMMA InitializeGood ==
    ASSUME NEW S, NEW A, NEW H, Good(S, A, H), NoneIdle(S, {}), NEW c \in Classes,
           NEW i \in SlabIndexes, S[i].State = "Free",
           NEW h, Pair(h, S, A), NEW g, g = InitializeSmallSlab(h, i, c)
    PROVE  /\ Good(g.slabs, g.heads, H) /\ NoneIdleBut(g.slabs, i)
           /\ g.heads[c] = i /\ i \in Members(g.slabs)[c] /\ Pair(g, g.slabs, g.heads)
<1>1. /\ S \in [SlabIndexes -> SlabSet] /\ A \in [Classes -> Links]
      /\ DOMAIN H \subseteq Nat /\ \A b \in DOMAIN H : H[b] \in HeaderSet
      /\ Listed(S, A, Members(S)) /\ Accounted(S, H)
  BY DEF Good, Types
<1>2. PICK t : t = Fresh(i, c)
  OBVIOUS
<1>3. PICK T : T = [S EXCEPT ![i] = t]
  OBVIOUS
<1>4. /\ Renewed(S, T, {i}) /\ Accounted(T, H) /\ NoneIdleBut(T, i)
      /\ Members(T) = Joined(Members(S), c, i)
  BY <1>1, <1>2, <1>3, FreshAccounted
<1>5. T \in [SlabIndexes -> SlabSet]
  BY <1>4 DEF Renewed
<1>6. PICK M : M = Members(S)
  OBVIOUS
<1>7. Apart(M)
  BY <1>6, MembersApart
<1>8. \A d \in Classes : i \notin M[d]
  BY <1>1, <1>6, FreeSlabIdle
<1>9. Listed(T, A, M)
  <2>1. PICK R \in SUBSET SlabIndexes : R = {i}
    OBVIOUS
  <2> QED
    BY <1>1, <1>4, <1>6, <1>7, <1>8, <2>1, RenewedLists
<1>10. PICK k : k = [h EXCEPT !.slabs[i] = t]
  OBVIOUS
<1>11. Pair(k, T, A)
  BY <1>3, <1>10 DEF Pair
<1>12. g = LinkSlabIntoClassList(k, i, c)
  BY <1>2, <1>10 DEF InitializeSmallSlab, Fresh
<1>13. PICK K : K = g.slabs
  OBVIOUS
<1>14. PICK B : B = g.heads
  OBVIOUS
<1>15. /\ Relinked(T, K) /\ B \in [Classes -> Links] /\ B[c] = i /\ Pair(g, K, B)
       /\ Listed(K, B, Joined(M, c, i))
  BY <1>1, <1>5, <1>7, <1>8, <1>9, <1>11, <1>12, <1>13, <1>14, ListedLink
<1>16. Members(K) = Members(T) /\ Accounted(K, H) /\ NoneIdleBut(K, i)
  BY <1>1, <1>4, <1>5, <1>15, RelinkedAccounted DEF NoneIdleBut
<1>17. Listed(K, B, Members(K))
  BY <1>4, <1>6, <1>15, <1>16
<1>18. Good(K, B, H)
  BY <1>1, <1>15, <1>16, <1>17 DEF Good, Types, Relinked
<1>19. i \in Members(K)[c]
  BY <1>4, <1>16 DEF Joined
<1> QED
  BY <1>13, <1>14, <1>15, <1>16, <1>18, <1>19

\* FindFreeSlabRun finds a run of free slabs.
LEMMA RunFound ==
    ASSUME NEW S, NEW span, Runs(S, span) # {}, NEW i, i = Min(Runs(S, span))
    PROVE  i \in Runs(S, span) /\ i \in SlabIndexes
<1>1. Runs(S, span) \subseteq Nat
  BY HeapAssumption DEF Runs, SlabIndexes
<1>2. PICK R : R = Runs(S, span)
  OBVIOUS
<1>3. Min(R) \in R
  BY <1>1, <1>2, MinIsSmallest
<1> QED
  BY <1>2, <1>3 DEF Runs

\* WithAvailableSlab leaves a slab with a free object at the head of the
\* class.
LEMMA AvailableGood ==
    ASSUME NEW S, NEW A, NEW H, Good(S, A, H), NoneIdle(S, {}), NEW c \in Classes,
           A[c] = INVALID_LIST_INDEX => Runs(S, 1) # {},
           NEW h, Pair(h, S, A), NEW g, g = WithAvailableSlab(h, c),
           NEW i, i = g.heads[c]
    PROVE  /\ Good(g.slabs, g.heads, H) /\ NoneIdleBut(g.slabs, i)
           /\ i \in Members(g.slabs)[c] /\ Pair(g, g.slabs, g.heads)
<1>1. Listed(S, A, Members(S))
  BY DEF Good
<1>2. h.slabs = S /\ h.heads = A
  BY DEF Pair
<1>3. CASE A[c] = INVALID_LIST_INDEX
  <2>1. PICK j : j = Min(Runs(S, 1))
    OBVIOUS
  <2>2. j \in Runs(S, 1) /\ j \in SlabIndexes
    BY <1>3, <2>1, RunFound
  <2>3. S[j].State = "Free"
    BY <2>2, BaseType DEF Runs
  <2>4. g = InitializeSmallSlab(h, j, c)
    BY <1>2, <1>3, <2>1 DEF WithAvailableSlab
  <2>5. /\ Good(g.slabs, g.heads, H) /\ NoneIdleBut(g.slabs, j)
        /\ g.heads[c] = j /\ j \in Members(g.slabs)[c] /\ Pair(g, g.slabs, g.heads)
    BY <2>2, <2>3, <2>4, InitializeGood
  <2> QED
    BY <2>5
<1>4. CASE A[c] # INVALID_LIST_INDEX
  <2>1. g = h
    BY <1>2, <1>4 DEF WithAvailableSlab
  <2>2. A[c] \in Members(S)[c]
    BY <1>1, <1>4, HeadIsMember
  <2>3. NoneIdleBut(S, i)
    BY DEF NoneIdle, NoneIdleBut
  <2> QED
    BY <1>2, <2>1, <2>2, <2>3
<1> QED
  BY <1>3, <1>4

-----------------------------------------------------------------------------
(* Runs of slabs                                                           *)

\* The slabs of a run.
RunOf(i, span) == i .. i + span - 1

\* The slabs of a run are slabs of the heap.
LEMMA RunInHeap ==
    ASSUME NEW i \in SlabIndexes, NEW span \in Nat, span >= 1, i + span <= SlabCount
    PROVE  /\ RunOf(i, span) \in SUBSET SlabIndexes /\ i \in RunOf(i, span) /\ i \in Nat
           /\ \A j \in i + 1 .. i + span - 1 : j \in RunOf(i, span) /\ j # i
           /\ \A j \in RunOf(i, span) : j \in Nat /\ i <= j /\ j < i + span
  BY HeapAssumption DEF RunOf, SlabIndexes

\* The fields of the head and of the tails of a run.
LEMMA LargeSlabFields ==
    ASSUME NEW i \in SlabIndexes, NEW span \in Nat, NEW j \in SlabIndexes,
           NEW t, t = LargeSlab(i, span, j)
    PROVE  /\ t \in SlabSet
           /\ t.State = IF j = i THEN "LargeHead" ELSE "LargeTail"
           /\ t.OwnerOrSpan = IF j = i THEN span ELSE i
           /\ t.PrevAvailable = INVALID_LIST_INDEX /\ t.NextAvailable = INVALID_LIST_INDEX
<1>1. i \in Nat
  BY BaseType
<1>2. t = [State |-> IF j = i THEN "LargeHead" ELSE "LargeTail", ClassIndex |-> 0,
           OwnerOrSpan |-> IF j = i THEN span ELSE i,
           TotalObjects |-> IF j = i THEN 1 ELSE 0, FreeObjects |-> 0, FreeList |-> <<>>,
           PrevAvailable |-> INVALID_LIST_INDEX, NextAvailable |-> INVALID_LIST_INDEX]
  BY DEF LargeSlab, FreeSlab
<1>3. CASE j = i
  BY <1>1, <1>2, <1>3, NoLink DEF SlabSet, LARGE_CLASS_SENTINEL, Links
<1>4. CASE j # i
  BY <1>1, <1>2, <1>4, NoLink DEF SlabSet, LARGE_CLASS_SENTINEL, Links
<1> QED
  BY <1>3, <1>4

\* Slabs that are not small before and after do not change the lists.
LEMMA RenewedMembers ==
    ASSUME NEW S, NEW T, NEW R \in SUBSET SlabIndexes, Renewed(S, T, R),
           \A j \in R : S[j].State # "Small" /\ T[j].State # "Small"
    PROVE  /\ Members(T) = Members(S)
           /\ NoneIdle(S, {}) => NoneIdle(T, {})
           /\ \A j \in R : \A c \in Classes : j \notin Members(S)[c]
<1>1. \A j \in SlabIndexes \ R : T[j] = S[j]
  BY DEF Renewed
<1>2. ASSUME NEW c \in Classes
      PROVE  {j \in SlabIndexes : S[j].State = "Small" /\ S[j].ClassIndex = c /\ S[j].FreeObjects > 0}
               = {j \in SlabIndexes : T[j].State = "Small" /\ T[j].ClassIndex = c /\ T[j].FreeObjects > 0}
  BY <1>1
<1>3. Members(T) = Members(S)
  BY <1>2 DEF Members
<1>4. NoneIdle(S, {}) => NoneIdle(T, {})
  BY <1>1 DEF NoneIdle
<1>5. \A j \in R : \A c \in Classes : j \notin Members(S)[c]
  BY DEF Members
<1> QED
  BY <1>3, <1>4, <1>5

\* The heap stays good when slabs outside of all lists are rewritten and the
\* accounts match.
LEMMA RenewedGood ==
    ASSUME NEW S, NEW A, NEW H, Good(S, A, H), NoneIdle(S, {}), NEW T,
           NEW R \in SUBSET SlabIndexes, Renewed(S, T, R),
           \A j \in R : S[j].State # "Small" /\ T[j].State # "Small",
           NEW H2, Accounted(T, H2), DOMAIN H2 \subseteq Nat, \A b \in DOMAIN H2 : H2[b] \in HeaderSet
    PROVE  Good(T, A, H2) /\ NoneIdle(T, {})
<1>1. /\ S \in [SlabIndexes -> SlabSet] /\ A \in [Classes -> Links]
      /\ Listed(S, A, Members(S))
  BY DEF Good, Types
<1>2. /\ Members(T) = Members(S) /\ NoneIdle(T, {})
      /\ \A j \in R : \A c \in Classes : j \notin Members(S)[c]
  BY RenewedMembers
<1>3. Apart(Members(S))
  BY MembersApart
<1>4. Listed(T, A, Members(S))
  BY <1>1, <1>2, <1>3, RenewedLists
<1> QED
  BY <1>1, <1>2, <1>4 DEF Good, Types, Renewed

\* The header of a run of span slabs that starts with slab i.
LargeHeader(e, i, span) ==
    /\ e \in HeaderSet /\ e.slab = i /\ e.class = LARGE_CLASS_SENTINEL
    /\ e.units <= span * SLAB_PAGE_SIZE

\* A free run becomes a large allocation.
LEMMA LargeAllocated ==
    ASSUME NEW S, NEW A, NEW H, Good(S, A, H), NoneIdle(S, {}),
           NEW span \in Nat, span >= 1, NEW i \in SlabIndexes, i \in Runs(S, span),
           NEW T, T = [j \in SlabIndexes |->
                         IF j \in i .. i + span - 1 THEN LargeSlab(i, span, j) ELSE S[j]],
           NEW e, LargeHeader(e, i, span),
           NEW H2, Placed(H, H2, GetSlabBaseAddress(i), e)
    PROVE  Good(T, A, H2) /\ NoneIdle(T, {})
<1>1. /\ S \in [SlabIndexes -> SlabSet] /\ DOMAIN H \subseteq Nat
      /\ Accounted(S, H) /\ \A b \in DOMAIN H : H[b] \in HeaderSet
  BY DEF Good, Types
<1>2. PICK a \in Nat : a = GetSlabBaseAddress(i)
  BY BaseType
<1>3. i + span <= SlabCount
  BY DEF Runs
<1>4. PICK R \in SUBSET SlabIndexes : R = RunOf(i, span)
  BY <1>3, RunInHeap
<1>5. /\ i \in R /\ i \in Nat
      /\ \A j \in i + 1 .. i + span - 1 : j \in R /\ j # i
      /\ \A j \in R : j \in Nat /\ i <= j /\ j < i + span
  BY <1>3, <1>4, RunInHeap
<1>6. \A j \in R : S[j].State = "Free"
  BY <1>4 DEF Runs, RunOf
<1>7. \A j \in SlabIndexes : T[j] = IF j \in R THEN LargeSlab(i, span, j) ELSE S[j]
  BY <1>4 DEF RunOf
<1>8. ASSUME NEW j \in R
      PROVE  /\ T[j] \in SlabSet
             /\ T[j].State = IF j = i THEN "LargeHead" ELSE "LargeTail"
             /\ T[j].OwnerOrSpan = IF j = i THEN span ELSE i
             /\ T[j].PrevAvailable = INVALID_LIST_INDEX /\ T[j].NextAvailable = INVALID_LIST_INDEX
  <2>1. PICK t : t = LargeSlab(i, span, j)
    OBVIOUS
  <2>2. T[j] = t
    BY <1>7, <2>1
  <2> QED
    BY <2>1, <2>2, LargeSlabFields
<1>9. Renewed(S, T, R)
  <2>1. \A j \in SlabIndexes \ R : T[j] = S[j] /\ S[j] \in SlabSet
    BY <1>1, <1>7
  <2>2. T \in [SlabIndexes -> SlabSet]
    BY <1>8, <2>1
  <2> QED
    BY <1>8, <2>1, <2>2 DEF Renewed
<1>10. ASSUME NEW b \in DOMAIN H PROVE H[b].slab \notin R
  BY <1>1, <1>6, FreeSlabIdle
<1>11. a \notin DOMAIN H
  <2> SUFFICES ASSUME a \in DOMAIN H PROVE FALSE
    OBVIOUS
  <2>1. GoodHeader(S, a, H[a]) /\ H[a] \in HeaderSet /\ H[a].slab \in SlabIndexes
    BY <1>1 DEF Accounted, HeaderSet
  <2>2. GetSlabBaseAddress(i) <= a /\ a < GetSlabBaseAddress(i) + SLAB_PAGE_SIZE
    BY <1>2, HeapAssumption
  <2>3. H[a].slab = i
    BY <1>2, <2>1, <2>2, HeaderPlace, OneSlab
  <2> QED
    BY <1>5, <1>10, <2>3
<1>12. Placed(H, H2, a, e)
  BY <1>2
<1>13. DOMAIN H2 = DOMAIN H \cup {a} /\ H2[a] = e /\ \A b \in DOMAIN H : H2[b] = H[b]
  BY <1>11, <1>12 DEF Placed
<1>14. /\ e \in HeaderSet /\ e.slab = i /\ e.class = LARGE_CLASS_SENTINEL
       /\ e.units <= span * SLAB_PAGE_SIZE
  BY DEF LargeHeader
<1>15. DOMAIN H2 \subseteq Nat /\ \A b \in DOMAIN H2 : H2[b] \in HeaderSet
  BY <1>1, <1>13, <1>14
<1>16. SameOutside(H, H2, R)
  BY <1>5, <1>13, <1>14 DEF SameOutside
<1>17. GoodSlab(T, i, H2)
  <2>1. \A j \in i + 1 .. i + span - 1 : T[j].State = "LargeTail" /\ T[j].OwnerOrSpan = i
    BY <1>5, <1>8
  <2>2. T[i].State = "LargeHead" /\ T[i].OwnerOrSpan = span
    BY <1>5, <1>8
  <2>3. a \in DOMAIN H2 /\ H2[a].slab = i /\ H2[a].class = LARGE_CLASS_SENTINEL
    BY <1>13, <1>14
  <2>4. GoodHead(T, i, H2)
    BY <1>2, <1>3, <2>1, <2>2, <2>3 DEF GoodHead
  <2> QED
    BY <2>2, <2>4 DEF GoodSlab
<1>18. ASSUME NEW j \in R, j # i PROVE GoodSlab(T, j, H2)
  <2>1. T[j].State = "LargeTail" /\ T[j].OwnerOrSpan = i
    BY <1>8, <1>18
  <2>2. T[i].State = "LargeHead" /\ T[i].OwnerOrSpan = span
    BY <1>5, <1>8
  <2>3. i < j /\ j < i + span
    BY <1>5, <1>18
  <2> QED
    BY <2>1, <2>2, <2>3 DEF GoodSlab, GoodTail
<1>19. ASSUME NEW b \in DOMAIN H2, H2[b].slab \in R PROVE GoodHeader(T, b, H2[b])
  <2>1. b = a
    BY <1>10, <1>13, <1>19
  <2>2. T[i].State = "LargeHead" /\ T[i].OwnerOrSpan = span
    BY <1>5, <1>8
  <2> QED
    BY <1>2, <1>13, <1>14, <2>1, <2>2 DEF GoodHeader
<1>20. Accounted(T, H2)
  <2>1. \A j \in SlabIndexes \ R : SameData(S[j], T[j])
    BY <1>7 DEF SameData
  <2>2. \A j \in SlabIndexes \ R : S[j].State = "LargeTail" => S[j].OwnerOrSpan \notin R
    BY <1>1, <1>6, FreeSlabIdle
  <2>3. \A j \in R : S[j].State = "LargeTail" => S[j].OwnerOrSpan \in R
    BY <1>6
  <2>4. \A j \in R : GoodSlab(T, j, H2)
    BY <1>17, <1>18
  <2> QED
    BY <1>1, <1>15, <1>16, <1>19, <2>1, <2>2, <2>3, <2>4, AccountedFrame
<1>21. \A j \in R : S[j].State # "Small" /\ T[j].State # "Small"
  BY <1>6, <1>8
<1> QED
  BY <1>9, <1>15, <1>20, <1>21, RenewedGood

\* The run of a freed header becomes free.
LEMMA LargeFreed ==
    ASSUME NEW S, NEW A, NEW H, Good(S, A, H), NoneIdle(S, {}),
           NEW i \in SlabIndexes, S[i].State = "LargeHead",
           NEW T, T = ReleaseSlabRun(S, i, S[i].OwnerOrSpan),
           NEW H2, Removed(H, H2, GetSlabBaseAddress(i), i, LARGE_CLASS_SENTINEL)
    PROVE  Good(T, A, H2) /\ NoneIdle(T, {})
<1>1. /\ S \in [SlabIndexes -> SlabSet] /\ DOMAIN H \subseteq Nat
      /\ Accounted(S, H) /\ \A b \in DOMAIN H : H[b] \in HeaderSet
  BY DEF Good, Types
<1>2. PICK a \in Nat : a = GetSlabBaseAddress(i)
  BY BaseType
<1>3. PICK span \in Nat : span = S[i].OwnerOrSpan
  BY <1>1 DEF SlabSet
<1>4. GoodHead(S, i, H)
  BY <1>1 DEF Accounted, GoodSlab
<1>5. /\ span >= 1 /\ i + span <= SlabCount
      /\ \A j \in i + 1 .. i + span - 1 : S[j].State = "LargeTail" /\ S[j].OwnerOrSpan = i
  BY <1>3, <1>4 DEF GoodHead
<1>6. PICK R \in SUBSET SlabIndexes : R = RunOf(i, span)
  BY <1>5, RunInHeap
<1>7. /\ i \in R /\ i \in Nat
      /\ \A j \in R : j \in Nat /\ i <= j /\ j < i + span
  BY <1>5, <1>6, RunInHeap
<1>8. \A j \in R \ {i} : S[j].State = "LargeTail" /\ S[j].OwnerOrSpan = i
  <2> SUFFICES ASSUME NEW j \in R \ {i} PROVE j \in i + 1 .. i + span - 1
    BY <1>5
  <2> QED
    BY <1>7
<1>9. \A j \in SlabIndexes : T[j] = IF j \in R THEN FreeSlab ELSE S[j]
  BY <1>3, <1>6 DEF RunOf, ReleaseSlabRun
<1>10. Renewed(S, T, R)
  <2>1. \A j \in SlabIndexes \ R : T[j] = S[j] /\ S[j] \in SlabSet
    BY <1>1, <1>9
  <2>2. \A j \in R : T[j] = FreeSlab
    BY <1>9
  <2>3. T \in [SlabIndexes -> SlabSet]
    BY <2>1, <2>2, FreeSlabFields DEF ReleaseSlabRun
  <2> QED
    BY <2>1, <2>2, <2>3, FreeSlabFields DEF Renewed
<1>11. \A j \in R : T[j].State = "Free"
  BY <1>9, FreeSlabFields
<1>12. /\ a \in DOMAIN H /\ H[a].slab = i
       /\ DOMAIN H2 = DOMAIN H \ {a} /\ \A b \in DOMAIN H2 : H2[b] = H[b]
  BY <1>2 DEF Removed
<1>13. DOMAIN H2 \subseteq Nat /\ \A b \in DOMAIN H2 : H2[b] \in HeaderSet
  BY <1>1, <1>12
<1>14. SameOutside(H, H2, R)
  BY <1>7, <1>12 DEF SameOutside
<1>15. ASSUME NEW b \in DOMAIN H2 PROVE H2[b].slab \notin R
  <2> SUFFICES ASSUME H2[b].slab \in R PROVE FALSE
    OBVIOUS
  <2>1. b \in DOMAIN H /\ H2[b] = H[b] /\ b # a /\ GoodHeader(S, b, H[b])
    BY <1>1, <1>12 DEF Accounted
  <2>2. CASE H[b].slab = i
    BY <1>2, <2>1, <2>2 DEF GoodHeader
  <2>3. CASE H[b].slab # i
    <3>1. S[H[b].slab].State = "LargeTail"
      BY <1>8, <2>1, <2>3
    <3> QED
      BY <2>1, <3>1 DEF GoodHeader
  <2> QED
    BY <2>2, <2>3
<1>16. ASSUME NEW j \in SlabIndexes \ R, S[j].State = "LargeTail" PROVE S[j].OwnerOrSpan \notin R
  <2> SUFFICES ASSUME S[j].OwnerOrSpan \in R PROVE FALSE
    OBVIOUS
  <2>1. GoodTail(S, j)
    BY <1>1, <1>16 DEF Accounted, GoodSlab
  <2>2. PICK o \in R : o = S[j].OwnerOrSpan
    OBVIOUS
  <2>3. S[o].State = "LargeHead" /\ o < j /\ j < o + S[o].OwnerOrSpan
    BY <2>1, <2>2 DEF GoodTail
  <2>4. o = i
    BY <1>8, <2>3
  <2>5. i < j /\ j < i + span
    BY <1>3, <2>3, <2>4
  <2>6. j \in Nat
    BY HeapAssumption DEF SlabIndexes
  <2>7. j \in RunOf(i, span)
    BY <1>7, <2>5, <2>6 DEF RunOf
  <2> QED
    BY <1>6, <2>7
<1>17. Accounted(T, H2)
  <2>1. \A j \in SlabIndexes \ R : SameData(S[j], T[j])
    BY <1>9 DEF SameData
  <2>2. \A j \in R : S[j].State = "LargeTail" => S[j].OwnerOrSpan \in R
    BY <1>7, <1>8
  <2>3. \A j \in R : GoodSlab(T, j, H2)
    BY <1>11 DEF GoodSlab
  <2> QED
    BY <1>1, <1>13, <1>14, <1>15, <1>16, <2>1, <2>2, <2>3, AccountedFrame
<1>18. \A j \in R : S[j].State # "Small" /\ T[j].State # "Small"
  BY <1>8, <1>11
<1> QED
  BY <1>10, <1>13, <1>17, <1>18, RenewedGood

-----------------------------------------------------------------------------
(* The steps                                                               *)

\* What SelectClassIndex finds is a class whose objects are large enough.
LEMMA ClassSelected ==
    ASSUME NEW size \in Nat, NEW c, c = SelectClassIndex(size)
    PROVE  /\ c \in Classes \cup {LARGE_CLASS_SENTINEL}
           /\ c # LARGE_CLASS_SENTINEL => c \in Classes /\ size + 1 <= SLAB_CLASS_SIZES[c]
<1>1. PICK F : F = {d \in Classes : SLAB_CLASS_SIZES[d] >= size + 1}
  OBVIOUS
<1>2. c = IF F = {} THEN LARGE_CLASS_SENTINEL ELSE Min(F)
  BY <1>1 DEF SelectClassIndex
<1>3. F \subseteq Nat
  BY <1>1, HeapAssumption DEF Classes
<1>4. F # {} => Min(F) \in F
  BY <1>3, MinIsSmallest
<1>5. \A d \in F : d \in Classes /\ SLAB_CLASS_SIZES[d] >= size + 1 /\ d # LARGE_CLASS_SENTINEL
  BY <1>1, HeapAssumption DEF Classes, LARGE_CLASS_SENTINEL
<1>6. \A d \in F : SLAB_CLASS_SIZES[d] \in Nat
  BY <1>5, ClassFits
<1> QED
  BY <1>2, <1>4, <1>5, <1>6

\* Remember places one header.
LEMMA RememberedHeader ==
    ASSUME NEW a, NEW i, NEW c, NEW size, NEW H, H = Remember(a, i, c, size)
    PROVE  Placed(Headers, H, a, [slab |-> i, class |-> c, units |-> size + 1])
  BY DEF Placed, Remember

\* kmalloc of an object of a class preserves the invariant.
LEMMA KmallocSmallStep ==
    ASSUME HeapInv, NEW size \in Requests, KmallocSmall(size)
    PROVE  HeapInv'
<1>1. PICK c : c = SelectClassIndex(size)
  OBVIOUS
<1>2. PICK h0 : Pair(h0, Slabs, ClassAvailableHead)
  BY DEF Pair
<1>3. PICK h : h = WithAvailableSlab(h0, c)
  OBVIOUS
<1>4. PICK i : i = h.heads[c]
  OBVIOUS
<1>5. PICK g : g = TakeObject(h, i, c)
  OBVIOUS
<1>6. PICK a : a = Head(h.slabs[i].FreeList)
  OBVIOUS
<1>7. PICK e : e = [slab |-> i, class |-> c, units |-> size + 1]
  OBVIOUS
<1>8. /\ c # LARGE_CLASS_SENTINEL
      /\ ClassAvailableHead[c] = INVALID_LIST_INDEX => Runs(Slabs, 1) # {}
      /\ Slabs' = g.slabs /\ ClassAvailableHead' = g.heads
      /\ Headers' = Remember(a, i, c, size)
  BY <1>1, <1>2, <1>3, <1>4, <1>5, <1>6, <1>7 DEF KmallocSmall, Pair
<1>9. size \in Nat /\ size + 1 \in Nat \ {0}
  BY HeapAssumption
<1>10. c \in Classes /\ size + 1 <= SLAB_CLASS_SIZES[c]
  BY <1>1, <1>8, <1>9, ClassSelected
<1>11. Good(Slabs, ClassAvailableHead, Headers) /\ NoneIdle(Slabs, {})
  BY DEF HeapInv
<1>12. /\ Good(h.slabs, h.heads, Headers) /\ NoneIdleBut(h.slabs, i)
       /\ i \in Members(h.slabs)[c] /\ Pair(h, h.slabs, h.heads)
  BY <1>2, <1>3, <1>4, <1>8, <1>10, <1>11, AvailableGood
<1>13. i \in SlabIndexes
  BY <1>10, <1>12 DEF Members
<1>14. HeaderFor(e, i, c)
  BY <1>7, <1>9, <1>10, <1>13 DEF HeaderFor, HeaderSet
<1>15. Placed(Headers, Headers', Head(h.slabs[i].FreeList), e)
  BY <1>6, <1>7, <1>8, RememberedHeader
<1>16. Good(g.slabs, g.heads, Headers') /\ NoneIdle(g.slabs, {})
  BY <1>5, <1>10, <1>12, <1>14, <1>15, TakeGood
<1> QED
  BY <1>8, <1>16 DEF HeapInv

\* kmalloc of a run of slabs preserves the invariant.
LEMMA KmallocLargeStep ==
    ASSUME HeapInv, NEW size \in Requests, KmallocLarge(size)
    PROVE  HeapInv'
<1>1. size \in Nat /\ size >= 1 /\ SLAB_PAGE_SIZE \in Nat \ {0}
  BY HeapAssumption
<1>2. PICK p \in Nat : p = size + 1 + SLAB_PAGE_SIZE - 1
  BY <1>1
<1>3. PICK span : span = p \div SLAB_PAGE_SIZE
  OBVIOUS
<1>4. span \in Nat /\ p < span * SLAB_PAGE_SIZE + SLAB_PAGE_SIZE /\ span >= 1
  BY <1>1, <1>2, <1>3, DivisionBounds
<1>5. size + 1 <= span * SLAB_PAGE_SIZE
  BY <1>1, <1>2, <1>4
<1>6. PICK i : i = Min(Runs(Slabs, span))
  OBVIOUS
<1>7. PICK e : e = [slab |-> i, class |-> LARGE_CLASS_SENTINEL, units |-> size + 1]
  OBVIOUS
<1>8. /\ Runs(Slabs, span) # {}
      /\ Slabs' = [j \in SlabIndexes |->
                     IF j \in i .. i + span - 1 THEN LargeSlab(i, span, j) ELSE Slabs[j]]
      /\ Headers' = Remember(GetSlabBaseAddress(i), i, LARGE_CLASS_SENTINEL, size)
      /\ ClassAvailableHead' = ClassAvailableHead
  BY <1>2, <1>3, <1>6, <1>7 DEF KmallocLarge
<1>9. i \in Runs(Slabs, span) /\ i \in SlabIndexes
  BY <1>6, <1>8, RunFound
<1>10. LargeHeader(e, i, span)
  BY <1>1, <1>5, <1>7, <1>9 DEF LargeHeader, HeaderSet
<1>11. Placed(Headers, Headers', GetSlabBaseAddress(i), e)
  BY <1>7, <1>8, RememberedHeader
<1>12. Good(Slabs, ClassAvailableHead, Headers) /\ NoneIdle(Slabs, {})
  BY DEF HeapInv
<1>13. Good(Slabs', ClassAvailableHead, Headers') /\ NoneIdle(Slabs', {})
  BY <1>4, <1>8, <1>9, <1>10, <1>11, <1>12, LargeAllocated
<1> QED
  BY <1>8, <1>13 DEF HeapInv

\* kfree of a run of slabs preserves the invariant.
LEMMA KfreeLargeStep ==
    ASSUME HeapInv, NEW a \in DOMAIN Headers, KfreeLarge(a)
    PROVE  HeapInv'
<1>1. PICK i : i = Headers[a].slab
  OBVIOUS
<1>2. Good(Slabs, ClassAvailableHead, Headers) /\ NoneIdle(Slabs, {})
  BY DEF HeapInv
<1>3. i \in SlabIndexes
  BY <1>1, <1>2 DEF Good, Types, HeaderSet
<1>4. /\ Headers[a].class = LARGE_CLASS_SENTINEL
      /\ Slabs[i].State = "LargeHead" /\ a = GetSlabBaseAddress(i)
      /\ Slabs' = ReleaseSlabRun(Slabs, i, Slabs[i].OwnerOrSpan)
      /\ Headers' = Forget(a) /\ ClassAvailableHead' = ClassAvailableHead
  BY <1>1 DEF KfreeLarge
<1>5. Removed(Headers, Headers', GetSlabBaseAddress(i), i, LARGE_CLASS_SENTINEL)
  BY <1>1, <1>4 DEF Removed, Forget
<1>6. Good(Slabs', ClassAvailableHead, Headers') /\ NoneIdle(Slabs', {})
  BY <1>2, <1>3, <1>4, <1>5, LargeFreed
<1> QED
  BY <1>4, <1>6 DEF HeapInv

\* kfree of an object of a class preserves the invariant.
LEMMA KfreeSmallStep ==
    ASSUME HeapInv, NEW a \in DOMAIN Headers, KfreeSmall(a)
    PROVE  HeapInv'
<1>1. PICK i : i = Headers[a].slab
  OBVIOUS
<1>2. PICK c : c = Headers[a].class
  OBVIOUS
<1>3. PICK h : Pair(h, Slabs, ClassAvailableHead)
  BY DEF Pair
<1>4. PICK g : g = ReturnObject(h, i, c, a)
  OBVIOUS
<1>5. PICK f : f = ReleaseIfEmpty(g, i, c)
  OBVIOUS
<1>6. Good(Slabs, ClassAvailableHead, Headers) /\ NoneIdle(Slabs, {})
  BY DEF HeapInv
<1>7. i \in SlabIndexes
  BY <1>1, <1>6 DEF Good, Types, HeaderSet
<1>8. /\ c \in Classes
      /\ Slabs' = f.slabs /\ ClassAvailableHead' = f.heads /\ Headers' = Forget(a)
  BY <1>1, <1>2, <1>3, <1>4, <1>5 DEF KfreeSmall, Pair
<1>9. Removed(Headers, Headers', a, i, c)
  BY <1>1, <1>2, <1>8 DEF Removed, Forget
<1>10. /\ Good(g.slabs, g.heads, Headers') /\ NoneIdleBut(g.slabs, i)
       /\ i \in Members(g.slabs)[c] /\ Pair(g, g.slabs, g.heads)
  BY <1>3, <1>4, <1>6, <1>7, <1>8, <1>9, ReturnGood
<1>11. Good(f.slabs, f.heads, Headers') /\ NoneIdle(f.slabs, {})
  BY <1>5, <1>8, <1>10, ReleaseGood
<1> QED
  BY <1>8, <1>11 DEF HeapInv

\* The empty heap satisfies the invariant.
LEMMA HeapInit == Init => HeapInv
<1> SUFFICES ASSUME Init PROVE HeapInv
  OBVIOUS
<1>1. \A i \in SlabIndexes : Slabs[i] = FreeSlab
  BY DEF Init
<1>2. \A c \in Classes : ClassAvailableHead[c] = INVALID_LIST_INDEX
  BY DEF Init
<1>3. Headers = <<>> /\ DOMAIN Headers = {}
  BY DEF Init
<1>4. Slabs \in [SlabIndexes -> SlabSet]
  BY FreeSlabFields DEF Init
<1>5. ClassAvailableHead \in [Classes -> Links]
  BY NoLink DEF Init
<1>6. \A i \in SlabIndexes : Slabs[i].State = "Free"
  BY <1>1, FreeSlabFields
<1>7. ASSUME NEW c \in Classes PROVE Members(Slabs)[c] = {}
  BY <1>6 DEF Members
<1>8. PICK q \in Seq(SlabIndexes) : q = <<>>
  <2>1. <<>> \in Seq(SlabIndexes)
    OBVIOUS
  <2> QED
    BY <2>1
<1>9. IsInjective(q) /\ Range(q) = {} /\ Len(q) = 0
  BY <1>8 DEF IsInjective, Range
<1>10. Spells(q, Slabs, INVALID_LIST_INDEX)
  BY <1>8, <1>9 DEF Spells
<1>11. ASSUME NEW c \in Classes
       PROVE  IsInjective(q) /\ Range(q) = Members(Slabs)[c] /\ Spells(q, Slabs, ClassAvailableHead[c])
  BY <1>2, <1>7, <1>9, <1>10
<1>12. Listed(Slabs, ClassAvailableHead, Members(Slabs))
  BY <1>1, <1>11, FreeSlabFields DEF Listed
<1>13. Accounted(Slabs, Headers)
  BY <1>3, <1>6 DEF Accounted, GoodSlab
<1>14. NoneIdle(Slabs, {})
  BY <1>6 DEF NoneIdle
<1> QED
  BY <1>3, <1>4, <1>5, <1>12, <1>13, <1>14 DEF HeapInv, Good, Types

\* The lists, slabs and headers of the heap fit together after every kmalloc and
\* kfree: each step of Next preserves the invariant.
LEMMA HeapNext == HeapInv /\ [Next]_vars => HeapInv'
<1> SUFFICES ASSUME HeapInv, [Next]_vars PROVE HeapInv'
  OBVIOUS
<1>1. ASSUME NEW size \in Requests, KmallocSmall(size) PROVE HeapInv'
  BY <1>1, KmallocSmallStep
<1>2. ASSUME NEW size \in Requests, KmallocLarge(size) PROVE HeapInv'
  BY <1>2, KmallocLargeStep
<1>3. ASSUME NEW a \in DOMAIN Headers, KfreeLarge(a) PROVE HeapInv'
  BY <1>3, KfreeLargeStep
<1>4. ASSUME NEW a \in DOMAIN Headers, KfreeSmall(a) PROVE HeapInv'
  BY <1>4, KfreeSmallStep
<1>5. ASSUME UNCHANGED vars PROVE HeapInv'
  BY <1>5 DEF vars, HeapInv
<1> QED
  BY <1>1, <1>2, <1>3, <1>4, <1>5 DEF Next

\* The invariant of the heap: the class lists spell exactly the slabs with a free
\* object, every object is free or has a header, and runs and headers match.
THEOREM HeapStaysGood == Spec => []HeapInv
<1>1. Init => HeapInv
  BY HeapInit
<1>2. HeapInv /\ [Next]_vars => HeapInv'
  BY HeapNext
<1> QED
  BY <1>1, <1>2, PTL DEF Spec

-----------------------------------------------------------------------------
(* The properties                                                          *)

\* The slab after the last of those that a header's memory lies in: the slabs
\* between have no header.
LEMMA Extent ==
    ASSUME NEW S \in [SlabIndexes -> SlabSet], NEW H, Accounted(S, H),
           \A b \in DOMAIN H : H[b] \in HeaderSet,
           NEW a \in DOMAIN H, NEW i, i = H[a].slab
    PROVE  \E n \in Nat : /\ i < n /\ n <= SlabCount
                          /\ a + H[a].units <= GetSlabBaseAddress(n)
                          /\ \A j \in SlabIndexes : i < j /\ j < n => S[j].State = "LargeTail"
<1>1. GoodHeader(S, a, H[a]) /\ H[a] \in HeaderSet
  BY DEF Accounted
<1>2. i \in SlabIndexes /\ i \in Nat /\ H[a].units \in Nat /\ i < SlabCount
  BY <1>1, HeapAssumption DEF HeaderSet, SlabIndexes
<1>3. SLAB_PAGE_SIZE \in Nat /\ GetSlabBaseAddress(i) \in Nat
  BY <1>2, BaseType, HeapAssumption
<1>4. CASE H[a].class \in Classes /\ a \in Objects(i, H[a].class)
           /\ H[a].units <= SLAB_CLASS_SIZES[H[a].class]
  <2>1. PICK c \in Classes : c = H[a].class
    BY <1>4
  <2>2. /\ a \in Nat /\ SLAB_CLASS_SIZES[c] \in Nat
        /\ a + SLAB_CLASS_SIZES[c] <= GetSlabBaseAddress(i) + SLAB_PAGE_SIZE
    BY <1>2, <1>4, <2>1, ObjectPlaces, ClassFits
  <2>3. GetSlabBaseAddress(i + 1) = GetSlabBaseAddress(i) + SLAB_PAGE_SIZE
    BY <1>2, SlabBase
  <2>4. a + H[a].units <= GetSlabBaseAddress(i + 1)
    BY <1>2, <1>3, <1>4, <2>1, <2>2, <2>3
  <2>5. /\ i + 1 \in Nat /\ i < i + 1 /\ i + 1 <= SlabCount
        /\ \A j \in SlabIndexes : ~(i < j /\ j < i + 1)
    BY <1>2, HeapAssumption DEF SlabIndexes
  <2> QED
    BY <2>4, <2>5
<1>5. CASE S[i].State = "LargeHead" /\ a = GetSlabBaseAddress(i)
           /\ H[a].units <= S[i].OwnerOrSpan * SLAB_PAGE_SIZE
  <2>1. PICK span \in Nat : span = S[i].OwnerOrSpan
    BY <1>2 DEF SlabSet
  <2>2. GoodHead(S, i, H)
    BY <1>2, <1>5 DEF Accounted, GoodSlab
  <2>3. /\ span >= 1 /\ i + span <= SlabCount
        /\ \A j \in i + 1 .. i + span - 1 : S[j].State = "LargeTail"
    BY <2>1, <2>2 DEF GoodHead
  <2>4. GetSlabBaseAddress(i + span) = GetSlabBaseAddress(i) + span * SLAB_PAGE_SIZE
    <3>1. i + span \in Nat /\ i <= i + span /\ (i + span) - i = span
      BY <1>2, <2>1
    <3> QED
      BY <1>2, <3>1, SlabBase
  <2>5. span * SLAB_PAGE_SIZE \in Nat /\ H[a].units <= span * SLAB_PAGE_SIZE
    <3>1. span * SLAB_PAGE_SIZE \in Nat
      BY <1>3, TimesMonotonic
    <3> QED
      BY <1>5, <2>1, <3>1
  <2>6. a + H[a].units <= GetSlabBaseAddress(i + span)
    BY <1>2, <1>3, <1>5, <2>4, <2>5
  <2>7. \A j \in SlabIndexes : i < j /\ j < i + span => j \in i + 1 .. i + span - 1
    BY <1>2, <2>1, HeapAssumption DEF SlabIndexes
  <2>8. PICK n \in Nat : n = i + span
    BY <1>2, <2>1
  <2>9. i < n /\ n <= SlabCount /\ a + H[a].units <= GetSlabBaseAddress(n)
    BY <1>2, <2>1, <2>3, <2>6, <2>8
  <2>10. \A j \in SlabIndexes : i < j /\ j < n => S[j].State = "LargeTail"
    BY <2>3, <2>7, <2>8
  <2> QED
    BY <2>9, <2>10
<1> QED
  BY <1>1, <1>4, <1>5 DEF GoodHeader

\* Two headers of the same slab are those of objects that do not overlap.
LEMMA SameSlab ==
    ASSUME NEW S, NEW H, Accounted(S, H), \A b \in DOMAIN H : H[b] \in HeaderSet,
           NEW a \in DOMAIN H, NEW b \in DOMAIN H, H[a].slab = H[b].slab, a < b
    PROVE  a + H[a].units <= b
<1>1. PICK i \in SlabIndexes : i = H[a].slab
  BY DEF HeaderSet
<1>2. GoodHeader(S, a, H[a]) /\ GoodHeader(S, b, H[b])
  BY DEF Accounted
<1>3. CASE H[a].class \in Classes
  <2>1. PICK c \in Classes : c = H[a].class
    BY <1>3
  <2>2. c # LARGE_CLASS_SENTINEL
    BY HeapAssumption DEF Classes, LARGE_CLASS_SENTINEL
  <2>3. S[i].State = "Small" /\ S[i].ClassIndex = c
        /\ a \in Objects(i, c) /\ H[a].units <= SLAB_CLASS_SIZES[c]
    BY <1>1, <1>2, <2>1, <2>2 DEF GoodHeader
  <2>4. b \in Objects(i, c)
    BY <1>1, <1>2, <2>3 DEF GoodHeader
  <2>5. a \in Nat /\ b \in Nat /\ a + SLAB_CLASS_SIZES[c] <= b /\ SLAB_CLASS_SIZES[c] \in Nat
    BY <2>3, <2>4, ObjectPlaces, ClassFits
  <2>6. H[a].units \in Nat
    BY DEF HeaderSet
  <2> QED
    BY <2>3, <2>5, <2>6
<1>4. CASE H[a].class \notin Classes
  <2>1. S[i].State = "LargeHead" /\ a = GetSlabBaseAddress(i)
    BY <1>1, <1>2, <1>4 DEF GoodHeader
  <2>2. b = GetSlabBaseAddress(i)
    BY <1>1, <1>2, <2>1 DEF GoodHeader
  <2>3. a \in Nat
    BY <2>1, BaseType
  <2> QED
    BY <2>1, <2>2, <2>3
<1> QED
  BY <1>3, <1>4

\* The invariant implies that no two allocations share a unit.
LEMMA GoodDisjoint == HeapInv => AllocationsDisjoint
<1> SUFFICES ASSUME HeapInv, NEW a \in DOMAIN Headers
             PROVE  /\ a + Headers[a].units <= SlabCount * SLAB_PAGE_SIZE
                    /\ \A b \in DOMAIN Headers : b > a => a + Headers[a].units <= b
  BY DEF AllocationsDisjoint
<1>1. /\ Slabs \in [SlabIndexes -> SlabSet] /\ Accounted(Slabs, Headers)
      /\ DOMAIN Headers \subseteq Nat /\ \A b \in DOMAIN Headers : Headers[b] \in HeaderSet
  BY DEF HeapInv, Good, Types
<1>2. PICK i : i = Headers[a].slab
  OBVIOUS
<1>3. PICK u \in Nat : u = Headers[a].units
  BY <1>1 DEF HeaderSet
<1>4. PICK n \in Nat : /\ i < n /\ n <= SlabCount
                       /\ a + u <= GetSlabBaseAddress(n)
                       /\ \A j \in SlabIndexes : i < j /\ j < n => Slabs[j].State = "LargeTail"
  BY <1>1, <1>2, <1>3, Extent
<1>5. i \in SlabIndexes /\ i \in Nat /\ a \in Nat /\ SlabCount \in Nat
  BY <1>1, <1>2, HeapAssumption DEF HeaderSet, SlabIndexes
<1>6. a + u <= SlabCount * SLAB_PAGE_SIZE
  <2>1. GetSlabBaseAddress(n) <= GetSlabBaseAddress(SlabCount)
        /\ GetSlabBaseAddress(n) \in Nat /\ GetSlabBaseAddress(SlabCount) \in Nat
    BY <1>4, <1>5, SlabBase
  <2>2. a + u <= GetSlabBaseAddress(SlabCount)
    BY <1>4, <1>5, <2>1
  <2> QED
    BY <2>2 DEF GetSlabBaseAddress
<1>7. ASSUME NEW b \in DOMAIN Headers, b > a PROVE a + u <= b
  <2>1. PICK j : j = Headers[b].slab
    OBVIOUS
  <2>2. j \in SlabIndexes /\ j \in Nat /\ b \in Nat
    BY <1>1, <2>1, HeapAssumption DEF HeaderSet, SlabIndexes
  <2>3. GetSlabBaseAddress(j) <= b /\ b < GetSlabBaseAddress(j) + SLAB_PAGE_SIZE
    BY <1>1, <2>1, HeaderPlace DEF Accounted
  <2>4. GetSlabBaseAddress(i) <= a
    BY <1>1, <1>2, HeaderPlace DEF Accounted
  <2>5. CASE j = i
    BY <1>1, <1>2, <1>3, <1>5, <1>7, <2>1, <2>2, <2>5, SameSlab
  <2>6. CASE j < i
    <3>1. /\ GetSlabBaseAddress(j + 1) <= GetSlabBaseAddress(i)
          /\ GetSlabBaseAddress(j + 1) = GetSlabBaseAddress(j) + SLAB_PAGE_SIZE
          /\ GetSlabBaseAddress(j) \in Nat /\ GetSlabBaseAddress(i) \in Nat
          /\ SLAB_PAGE_SIZE \in Nat
      BY <1>5, <2>2, <2>6, SlabBase, HeapAssumption
    <3> QED
      BY <1>5, <1>7, <2>2, <2>3, <2>4, <3>1
  <2>7. CASE i < j
    <3>1. GoodHeader(Slabs, b, Headers[b])
      BY <1>1 DEF Accounted
    <3>2. Slabs[j].State # "LargeTail"
      BY <2>1, <3>1 DEF GoodHeader
    <3>3. n <= j
      BY <1>4, <1>5, <2>2, <2>7, <3>2
    <3>4. /\ GetSlabBaseAddress(n) <= GetSlabBaseAddress(j)
          /\ GetSlabBaseAddress(n) \in Nat /\ GetSlabBaseAddress(j) \in Nat
      BY <2>2, <3>3, SlabBase
    <3> QED
      BY <1>4, <1>5, <2>2, <2>3, <3>4
  <2> QED
    BY <1>5, <2>2, <2>5, <2>6, <2>7
<1> QED
  BY <1>3, <1>6, <1>7

\* The headers of a small slab are those of its objects that are not free.
LEMMA LiveObjects ==
    ASSUME NEW S \in [SlabIndexes -> SlabSet], NEW H, Accounted(S, H),
           NEW i \in SlabIndexes, NEW c \in Classes, SmallOf(S, i, c)
    PROVE  {a \in DOMAIN H : H[a].slab = i} = Objects(i, c) \ Range(S[i].FreeList)
<1>1. GoodSmall(S[i], i, H)
  BY DEF Accounted, GoodSlab, SmallOf
<1>2. \A a \in Objects(i, c) \ Range(S[i].FreeList) : a \in DOMAIN H /\ H[a].slab = i
  BY <1>1 DEF GoodSmall, SmallOf
<1>3. ASSUME NEW a \in DOMAIN H, H[a].slab = i
      PROVE  a \in Objects(i, c) \ Range(S[i].FreeList)
  <2>1. GoodHeader(S, a, H[a])
    BY DEF Accounted
  <2> QED
    BY <1>3, <2>1 DEF GoodHeader, SmallOf
<1> QED
  BY <1>2, <1>3

\* The invariant implies the counts of slabs and objects.
LEMMA GoodAccounted == HeapInv => SlabsAccounted
<1> SUFFICES ASSUME HeapInv, NEW i \in SlabIndexes
             PROVE  LET s == Slabs[i]
                        live == {a \in DOMAIN Headers : Headers[a].slab = i}
                    IN /\ s.State = "Small" =>
                            /\ live # {}
                            /\ Len(s.FreeList) = s.FreeObjects
                            /\ live \cup Range(s.FreeList) = Range(ObjectAddresses(i, s.ClassIndex))
                            /\ Cardinality(live) + s.FreeObjects = s.TotalObjects
                       /\ s.State = "LargeHead" <=>
                            \E a \in live : Headers[a].class = LARGE_CLASS_SENTINEL
                       /\ s.State = "LargeTail" => Slabs[s.OwnerOrSpan].State = "LargeHead"
  BY DEF SlabsAccounted
<1>1. /\ Slabs \in [SlabIndexes -> SlabSet] /\ Accounted(Slabs, Headers) /\ NoneIdle(Slabs, {})
      /\ \A b \in DOMAIN Headers : Headers[b] \in HeaderSet
  BY DEF HeapInv, Good, Types
<1>2. PICK live : live = {a \in DOMAIN Headers : Headers[a].slab = i}
  OBVIOUS
<1>3. ASSUME Slabs[i].State = "Small"
      PROVE  /\ live # {}
             /\ Len(Slabs[i].FreeList) = Slabs[i].FreeObjects
             /\ live \cup Range(Slabs[i].FreeList) = Range(ObjectAddresses(i, Slabs[i].ClassIndex))
             /\ Cardinality(live) + Slabs[i].FreeObjects = Slabs[i].TotalObjects
  <2>1. GoodSmall(Slabs[i], i, Headers)
    BY <1>1, <1>3 DEF Accounted, GoodSlab
  <2>2. PICK c \in Classes : c = Slabs[i].ClassIndex
    BY <2>1 DEF GoodSmall
  <2>3. PICK q \in Seq(Nat) : q = Slabs[i].FreeList
    BY <1>1 DEF SlabSet
  <2>4. /\ Slabs[i].TotalObjects = ObjectsPerSlab(c) /\ Len(q) = Slabs[i].FreeObjects
        /\ IsInjective(q) /\ Range(q) \subseteq Objects(i, c)
    BY <2>1, <2>2, <2>3 DEF GoodSmall
  <2>5. live = Objects(i, c) \ Range(q)
    BY <1>1, <1>2, <1>3, <2>2, <2>3, LiveObjects DEF SmallOf
  <2>6. Len(q) < ObjectsPerSlab(c)
    BY <1>1, <1>3, <2>4 DEF NoneIdle
  <2>7. Objects(i, c) \ Range(q) # {}
    BY <2>4, <2>6, Missing
  <2>8. Cardinality(Objects(i, c) \ Range(q)) + Len(q) = ObjectsPerSlab(c)
    BY <2>4, Missing
  <2>9. Range(ObjectAddresses(i, c)) = Objects(i, c)
    BY FreshObjects
  <2>10. Cardinality(live) + Len(q) = ObjectsPerSlab(c)
    BY <2>5, <2>8
  <2> QED
    BY <2>2, <2>3, <2>4, <2>5, <2>7, <2>9, <2>10
<1>4. Slabs[i].State = "LargeHead" <=> \E a \in live : Headers[a].class = LARGE_CLASS_SENTINEL
  <2>1. ASSUME Slabs[i].State = "LargeHead"
        PROVE  \E a \in live : Headers[a].class = LARGE_CLASS_SENTINEL
    <3>1. GoodHead(Slabs, i, Headers)
      BY <1>1, <2>1 DEF Accounted, GoodSlab
    <3> QED
      BY <1>2, <3>1 DEF GoodHead
  <2>2. ASSUME NEW a \in live, Headers[a].class = LARGE_CLASS_SENTINEL
        PROVE  Slabs[i].State = "LargeHead"
    <3>1. GoodHeader(Slabs, a, Headers[a]) /\ Headers[a].slab = i
      BY <1>1, <1>2 DEF Accounted
    <3>2. LARGE_CLASS_SENTINEL \notin Classes
      BY HeapAssumption DEF Classes, LARGE_CLASS_SENTINEL
    <3> QED
      BY <2>2, <3>1, <3>2 DEF GoodHeader
  <2> QED
    BY <2>1, <2>2
<1>5. Slabs[i].State = "LargeTail" => Slabs[Slabs[i].OwnerOrSpan].State = "LargeHead"
  BY <1>1 DEF Accounted, GoodSlab, GoodTail
<1> QED
  BY <1>2, <1>3, <1>4, <1>5

\* f is a walk along the list of class c.
Walks(f, c) ==
    f = [n \in 0 .. SlabCount |->
           IF n = 0 THEN ClassAvailableHead[c]
           ELSE IF f[n - 1] = INVALID_LIST_INDEX THEN INVALID_LIST_INDEX
                ELSE Slabs[f[n - 1]].NextAvailable]

\* The walk along a list exists, as soon as some function satisfies its
\* equation.
LEMMA WalkExists ==
    ASSUME NEW c, NEW g, Walks(g, c)
    PROVE  Walks(Available(c), c)
  BY Zenon DEF Available, Walks

\* The equation of the walk, one step.
LEMMA WalkEquation ==
    ASSUME NEW c, NEW f, Walks(f, c), NEW n \in 0 .. SlabCount
    PROVE  f[n] = IF n = 0 THEN ClassAvailableHead[c]
                  ELSE IF f[n - 1] = INVALID_LIST_INDEX THEN INVALID_LIST_INDEX
                       ELSE Slabs[f[n - 1]].NextAvailable
  BY Zenon DEF Walks

\* A walk along the list that q spells meets the slabs of q, in that order.
LEMMA WalkSpells ==
    ASSUME NEW c, NEW q \in Seq(SlabIndexes), Spells(q, Slabs, ClassAvailableHead[c]),
           NEW n \in 0 .. SlabCount
    PROVE  Available(c)[n] = IF n < Len(q) THEN q[n + 1] ELSE INVALID_LIST_INDEX
<1> DEFINE L == Len(q)
           g == [k \in 0 .. SlabCount |-> IF k < L THEN q[k + 1] ELSE INVALID_LIST_INDEX]
           f == Available(c)
<1>1. L \in Nat /\ SlabCount \in Nat /\ \A k \in 1 .. L : q[k] \in SlabIndexes
  BY HeapAssumption
<1>2. ClassAvailableHead[c] = IF L = 0 THEN INVALID_LIST_INDEX ELSE q[1]
  BY <1>1 DEF Spells
<1>3. \A k \in 1 .. L : /\ q[k] # INVALID_LIST_INDEX
                        /\ Slabs[q[k]].NextAvailable = IF k < L THEN q[k + 1] ELSE INVALID_LIST_INDEX
  BY <1>1, NoLink DEF Spells
<1>4. ASSUME NEW k \in 0 .. SlabCount
      PROVE  g[k] = IF k = 0 THEN ClassAvailableHead[c]
                    ELSE IF g[k - 1] = INVALID_LIST_INDEX THEN INVALID_LIST_INDEX
                         ELSE Slabs[g[k - 1]].NextAvailable
  <2>1. CASE k = 0
    BY <1>1, <1>2, <2>1
  <2>2. CASE k # 0
    <3>1. k - 1 \in 0 .. SlabCount /\ (k - 1) + 1 = k /\ k \in Nat
      BY <1>1, <2>2
    <3>2. g[k - 1] = IF k - 1 < L THEN q[k] ELSE INVALID_LIST_INDEX
      BY <3>1
    <3>3. g[k] = IF k < L THEN q[k + 1] ELSE INVALID_LIST_INDEX
      OBVIOUS
    <3> HIDE DEF g
    <3>4. CASE k - 1 < L
      <4>1. k \in 1 .. L
        BY <1>1, <2>2, <3>1, <3>4
      <4> QED
        BY <1>3, <2>2, <3>2, <3>3, <3>4, <4>1
    <3>5. CASE ~(k - 1 < L)
      BY <1>1, <2>2, <3>1, <3>2, <3>3, <3>5
    <3> QED
      BY <3>4, <3>5
  <2> QED
    BY <2>1, <2>2
<1>5. Walks(g, c)
  <2>1. DOMAIN g = 0 .. SlabCount /\ g = [k \in 0 .. SlabCount |-> g[k]]
    OBVIOUS
  <2> HIDE DEF g
  <2> QED
    BY <1>4, <2>1, Zenon DEF Walks
<1>6. Walks(f, c)
  BY <1>5, WalkExists
<1> DEFINE T == {k \in Nat : k <= SlabCount => f[k] = g[k]}
<1> HIDE DEF f, g
<1>7. 0 \in T
  <2>1. 0 \in 0 .. SlabCount
    BY <1>1
  <2>2. f[0] = ClassAvailableHead[c] /\ g[0] = ClassAvailableHead[c]
    BY <1>4, <1>6, <2>1, WalkEquation
  <2> QED
    BY <2>2
<1>8. ASSUME NEW k \in Nat, k \in T PROVE k + 1 \in T
  <2> SUFFICES ASSUME k + 1 <= SlabCount PROVE f[k + 1] = g[k + 1]
    OBVIOUS
  <2>1. PICK m \in 0 .. SlabCount : m = k + 1
    BY <1>1
  <2>2. m # 0 /\ m - 1 = k
    BY <2>1
  <2>3. f[m] = IF f[m - 1] = INVALID_LIST_INDEX THEN INVALID_LIST_INDEX
               ELSE Slabs[f[m - 1]].NextAvailable
    BY <1>6, <2>2, WalkEquation
  <2>4. g[m] = IF g[m - 1] = INVALID_LIST_INDEX THEN INVALID_LIST_INDEX
               ELSE Slabs[g[m - 1]].NextAvailable
    BY <1>4, <2>2
  <2>5. f[m - 1] = g[m - 1]
    BY <1>1, <1>8, <2>2
  <2> QED
    BY <2>1, <2>3, <2>4, <2>5
<1>9. Nat \subseteq T
  BY <1>7, <1>8, InductionOverNat
<1>10. f[n] = g[n]
  <2>1. n \in Nat /\ n <= SlabCount
    BY <1>1
  <2> QED
    BY <1>9, <2>1
<1> QED
  BY <1>10 DEF f, g

\* The invariant implies that the walk from the head of a class meets its
\* slabs with free objects, each once.
LEMMA GoodLists == HeapInv => AvailableListsExact
<1> SUFFICES ASSUME HeapInv, NEW c \in Classes
             PROVE  LET walk == Available(c)
                        members == {i \in SlabIndexes : /\ Slabs[i].State = "Small"
                                                        /\ Slabs[i].ClassIndex = c
                                                        /\ Slabs[i].FreeObjects > 0}
                    IN /\ {walk[n] : n \in 0 .. SlabCount} \ {INVALID_LIST_INDEX} = members
                       /\ walk[SlabCount] = INVALID_LIST_INDEX
                       /\ \A i \in members :
                            LET prev == Slabs[i].PrevAvailable
                            IN IF prev = INVALID_LIST_INDEX THEN ClassAvailableHead[c] = i
                               ELSE Slabs[prev].NextAvailable = i
  BY DEF AvailableListsExact
<1>1. Listed(Slabs, ClassAvailableHead, Members(Slabs))
  BY DEF HeapInv, Good
<1>2. PICK members : members = {i \in SlabIndexes : /\ Slabs[i].State = "Small"
                                                    /\ Slabs[i].ClassIndex = c
                                                    /\ Slabs[i].FreeObjects > 0}
  OBVIOUS
<1>3. Members(Slabs)[c] = members
  BY <1>2 DEF Members
<1>4. PICK q \in Seq(SlabIndexes) :
        IsInjective(q) /\ Range(q) = Members(Slabs)[c] /\ Spells(q, Slabs, ClassAvailableHead[c])
  BY <1>1 DEF Listed
<1> DEFINE L == Len(q)
<1>5. PICK walk : walk = Available(c)
  OBVIOUS
<1>6. \A n \in 0 .. SlabCount : walk[n] = IF n < L THEN q[n + 1] ELSE INVALID_LIST_INDEX
  BY <1>4, <1>5, WalkSpells
<1>7. /\ L \in Nat /\ SlabCount \in Nat /\ DOMAIN q = 1 .. L
      /\ \A k \in 1 .. L : q[k] \in SlabIndexes /\ q[k] \in Range(q)
  BY HeapAssumption DEF Range
<1>8. L <= SlabCount
  <2>1. IsFiniteSet(SlabIndexes) /\ Cardinality(SlabIndexes) = SlabCount
    BY <1>7, FS_Interval, HeapAssumption DEF SlabIndexes
  <2>2. Range(q) \in SUBSET SlabIndexes
    BY <1>7 DEF Range
  <2>3. Cardinality(Range(q)) <= Cardinality(SlabIndexes)
    BY <2>1, <2>2, FS_Subset
  <2>4. Cardinality(Range(q)) = L
    BY <1>4, InjectiveCardinality
  <2> QED
    BY <2>1, <2>3, <2>4
<1>9. walk[SlabCount] = INVALID_LIST_INDEX
  BY <1>6, <1>7, <1>8
<1>10. ASSUME NEW n \in 0 .. SlabCount, walk[n] # INVALID_LIST_INDEX
       PROVE  walk[n] \in members
  <2>1. n < L /\ walk[n] = q[n + 1]
    BY <1>6, <1>10
  <2>2. n + 1 \in 1 .. L
    BY <1>7, <2>1
  <2> QED
    BY <1>3, <1>4, <1>7, <2>1, <2>2
<1>11. ASSUME NEW i \in members
       PROVE  \E k \in 1 .. L : q[k] = i
  BY <1>3, <1>4, <1>7 DEF Range
<1>12. ASSUME NEW i \in members
       PROVE  i # INVALID_LIST_INDEX /\ \E n \in 0 .. SlabCount : walk[n] = i
  <2>1. PICK k \in 1 .. L : q[k] = i
    BY <1>11
  <2>2. k - 1 \in 0 .. SlabCount /\ k - 1 < L /\ (k - 1) + 1 = k
    BY <1>7, <1>8
  <2>3. walk[k - 1] = q[k]
    BY <1>6, <2>2
  <2>4. i # INVALID_LIST_INDEX
    BY <1>7, <2>1, NoLink
  <2> QED
    BY <2>1, <2>2, <2>3, <2>4
<1>13. {walk[n] : n \in 0 .. SlabCount} \ {INVALID_LIST_INDEX} = members
  BY <1>10, <1>12
<1>14. ASSUME NEW i \in members
       PROVE  IF Slabs[i].PrevAvailable = INVALID_LIST_INDEX THEN ClassAvailableHead[c] = i
              ELSE Slabs[Slabs[i].PrevAvailable].NextAvailable = i
  <2>1. PICK k \in 1 .. L : q[k] = i
    BY <1>11
  <2>2. Slabs[i].PrevAvailable = IF 1 < k THEN q[k - 1] ELSE INVALID_LIST_INDEX
    BY <1>4, <2>1 DEF Spells
  <2>3. CASE k = 1
    BY <1>4, <1>7, <2>1, <2>2, <2>3 DEF Spells
  <2>4. CASE 1 < k
    <3>1. k - 1 \in 1 .. L /\ k - 1 < L /\ (k - 1) + 1 = k
      BY <1>7, <2>4
    <3>2. Slabs[q[k - 1]].NextAvailable = q[k]
      BY <1>4, <3>1 DEF Spells
    <3>3. q[k - 1] # INVALID_LIST_INDEX
      BY <1>7, <3>1, NoLink
    <3> QED
      BY <2>1, <2>2, <2>4, <3>2, <3>3
  <2> QED
    BY <1>7, <2>3, <2>4
<1> QED
  BY <1>2, <1>5, <1>9, <1>13, <1>14

\* kmalloc never hands out memory that overlaps another allocation or leaves the
\* heap, whether the allocation is an object of a class or a run of slabs.
THEOREM MemoryDisjoint == Spec => []AllocationsDisjoint
  BY HeapStaysGood, GoodDisjoint, PTL

\* Every object of a small slab is allocated or free, not both, and is counted; a
\* slab without an allocated object went back to the pool; runs have one head.
THEOREM SlabsStayAccounted == Spec => []SlabsAccounted
  BY HeapStaysGood, GoodAccounted, PTL

\* The list of a class holds exactly its slabs with a free object, each once, and
\* is linked the same way in both directions, whatever kmalloc and kfree did.
THEOREM ListsStayExact == Spec => []AvailableListsExact
  BY HeapStaysGood, GoodLists, PTL
=============================================================================
