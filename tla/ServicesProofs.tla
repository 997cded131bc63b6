--------------------------- MODULE ServicesProofs ---------------------------
(***************************************************************************)
(* Proofs about the services without threads of their own: the books of    *)
(* MemoryAccounting, the searches of PatternScan, the operations of        *)
(* FileOperations.  They hold for any clients, addresses, sizes, tags,     *)
(* images, sections, patterns, files and folders.                          *)
(***************************************************************************)
EXTENDS MemoryAccounting, PatternScan, FileOperations, FiniteSetTheorems, TLAPS

-----------------------------------------------------------------------------
(* The bytes of a set of allocations *)

BytesIn(records, set) == UNION {{a} \X (1..records[a].size) : a \in set}

LEMMA BytesFinite ==
    ASSUME NEW records, NEW set, IsFiniteSet(set), \A a \in set : records[a].size \in Nat
    PROVE  IsFiniteSet(BytesIn(records, set)) /\ Cardinality(BytesIn(records, set)) \in Nat
<1> DEFINE part  == [a \in set |-> {a} \X (1..records[a].size)]
           Parts == {part[a] : a \in set}
<1>1. part \in Surjection(set, Parts)
  BY DEF Surjection
<1>2. IsFiniteSet(Parts)
  BY <1>1, FS_Surjection
<1>3. ASSUME NEW a \in set PROVE IsFiniteSet({a} \X (1..records[a].size))
  <2>1. IsFiniteSet(1..records[a].size)
    BY FS_Interval
  <2> QED
    BY <2>1, FS_Singleton, FS_Product
<1>4. \A p \in Parts : IsFiniteSet(p)
  BY <1>3
<1>5. BytesIn(records, set) = UNION Parts
  BY DEF BytesIn
<1> QED
  BY <1>2, <1>4, <1>5, FS_UNION, FS_CardinalityType

\* An allocation more.
LEMMA BytesAdd ==
    ASSUME NEW records, NEW set, IsFiniteSet(set), \A a \in set : records[a].size \in Nat,
           NEW x, x \notin set, records[x].size \in Nat
    PROVE  Cardinality(BytesIn(records, set \cup {x}))
             = Cardinality(BytesIn(records, set)) + records[x].size
<1> DEFINE bytes == {x} \X (1..records[x].size)
<1>1. BytesIn(records, set \cup {x}) = BytesIn(records, set) \cup bytes
  BY DEF BytesIn
<1>2. IsFiniteSet(bytes) /\ Cardinality(bytes) = records[x].size
  <2>1. IsFiniteSet({x}) /\ Cardinality({x}) = 1
    BY FS_Singleton
  <2> DEFINE n == records[x].size
  <2>2. IsFiniteSet(1..n) /\ Cardinality(1..n) = n
    <3> HIDE DEF n
    <3>1. n \in Nat
      BY DEF n
    <3>2. IsFiniteSet(1..n) /\ Cardinality(1..n) = IF 1 > n THEN 0 ELSE n - 1 + 1
      BY <3>1, FS_Interval
    <3> QED
      BY <3>1, <3>2
  <2> HIDE DEF n
  <2>3. IsFiniteSet({x} \X (1..n)) /\ Cardinality({x} \X (1..n)) = 1 * n
    <3>1. /\ IsFiniteSet({x} \X (1..n))
          /\ Cardinality({x} \X (1..n)) = Cardinality({x}) * Cardinality(1..n)
      BY <2>1, <2>2, FS_Product, Zenon
    <3> QED
      BY <2>1, <2>2, <3>1
  <2>4. n \in Nat
    BY DEF n
  <2> QED
    BY <2>3, <2>4 DEF n
<1>3. BytesIn(records, set) \cap bytes = {}
  BY DEF BytesIn
<1>4. IsFiniteSet(BytesIn(records, set)) /\ Cardinality(BytesIn(records, set)) \in Nat
  BY BytesFinite
<1> HIDE DEF bytes
<1>5. Cardinality(BytesIn(records, set) \cup bytes)
        = Cardinality(BytesIn(records, set)) + Cardinality(bytes)
            - Cardinality(BytesIn(records, set) \cap bytes)
  BY <1>2, <1>4, FS_Union
<1>6. Cardinality(bytes) = records[x].size
      /\ Cardinality(BytesIn(records, set) \cap bytes) = 0
  BY <1>2, <1>3, FS_EmptySet
<1>7. Cardinality(BytesIn(records, set \cup {x})) = Cardinality(BytesIn(records, set) \cup bytes)
  BY <1>1
<1> QED
  BY <1>4, <1>5, <1>6, <1>7

LEMMA BytesMonotone ==
    ASSUME NEW records, NEW set, IsFiniteSet(set), \A a \in set : records[a].size \in Nat,
           NEW part \in SUBSET set
    PROVE  Cardinality(BytesIn(records, part)) <= Cardinality(BytesIn(records, set))
<1>1. BytesIn(records, part) \subseteq BytesIn(records, set)
  BY DEF BytesIn
<1> QED
  BY <1>1, BytesFinite, FS_Subset

LEMMA NoBytes == \A records : BytesIn(records, {}) = {}
BY DEF BytesIn

\* What an allocation adds to the bytes of a set.
Share(records, set, x) == IF x \in set THEN records[x].size ELSE 0

\* A set with an allocation and without it.
LEMMA BytesSplit ==
    ASSUME NEW records, NEW set, IsFiniteSet(set), \A a \in set : records[a].size \in Nat, NEW x
    PROVE  Cardinality(BytesIn(records, set))
             = Cardinality(BytesIn(records, set \ {x})) + Share(records, set, x)
<1>1. CASE x \in set
  <2>1. set = (set \ {x}) \cup {x}
    BY <1>1
  <2>2. IsFiniteSet(set \ {x})
    BY FS_Subset
  <2>3. Cardinality(BytesIn(records, (set \ {x}) \cup {x}))
          = Cardinality(BytesIn(records, set \ {x})) + records[x].size
    BY <1>1, <2>2, BytesAdd
  <2> QED
    BY <1>1, <2>1, <2>3 DEF Share
<1>2. CASE x \notin set
  <2>1. set \ {x} = set
    BY <1>2
  <2>2. Cardinality(BytesIn(records, set)) \in Nat
    BY BytesFinite
  <2>3. Cardinality(BytesIn(records, set \ {x})) = Cardinality(BytesIn(records, set))
    BY <2>1
  <2> QED
    BY <1>2, <2>2, <2>3 DEF Share
<1> QED
  BY <1>1, <1>2

-----------------------------------------------------------------------------
(* MemoryAccounting *)

Records == [address : Addresses \cup {"none"}, size : Nat, tag : Tags \cup {"none"}, id : Nat]
Statistics == [allocations : Nat, deallocations : Nat, inUse : Nat, peak : Nat, bytes : Nat]
Counters == [active : Int, allocations : Nat, deallocations : Nat, inUse : Int, peak : Nat, bytes : Nat]
OfTag(t) == {a \in Active : m_allocations[a].tag = t}

MemoryTypeOK ==
    /\ m_trackingEnabled \in BOOLEAN
    /\ m_allocations \in [Addresses -> Records]
    /\ m_tagStatistics \in [Tags -> Statistics]
    /\ m_counters \in Counters
    /\ m_nextAllocationId \in Nat
    /\ clientAt \in [Clients -> {"idle", "allocation", "deallocation"}]
    /\ registering \in [Clients -> Records]

\* A record is under its own address and has a tag; so has what a client is about to
\* register.
RecordInv ==
    /\ IsFiniteSet(Active)
    /\ \A a \in Active : m_allocations[a].address = a /\ m_allocations[a].tag \in Tags
    /\ \A c \in Clients :
        /\ clientAt[c] # "idle" => registering[c].address \in Addresses
        /\ clientAt[c] = "allocation" => registering[c].size # 0 /\ registering[c].tag \in Tags

MemoryInv == MemoryTypeOK /\ RecordInv /\ CountersAgree

\* Books without a record, and nothing counted.
EmptyRecords == [a \in Addresses |-> NoRecord]

LEMMA EmptyBytes ==
    /\ {a \in Addresses : EmptyRecords[a].size # 0} = {}
    /\ \A t : {a \in {} : EmptyRecords[a].tag = t} = {}
    /\ Cardinality(UNION {{a} \X (1..EmptyRecords[a].size) : a \in {}}) = 0
    /\ Cardinality({}) = 0
<1>1. {a \in Addresses : EmptyRecords[a].size # 0} = {}
  BY DEF EmptyRecords, NoRecord, Record
<1>2. UNION {{a} \X (1..EmptyRecords[a].size) : a \in {}} = {}
  OBVIOUS
<1> QED
  BY <1>1, <1>2, FS_EmptySet

LEMMA MemoryInitInv == MemoryInit => MemoryInv
<1> SUFFICES ASSUME MemoryInit PROVE MemoryInv
  OBVIOUS
<1>1. MemoryTypeOK
  BY DEF MemoryInit, MemoryTypeOK, Records, Statistics, Counters, NoRecord, Record,
         NoStatistics, NoCounters
<1>2. CountersAgree /\ Active = {}
  <2>1. Active = {} /\ m_allocations = EmptyRecords
    BY EmptyBytes DEF MemoryInit, Active, EmptyRecords
  <2>2. BytesOf(Active) = 0 /\ \A t \in Tags : BytesOf({a \in Active : m_allocations[a].tag = t}) = 0
    BY <2>1, EmptyBytes DEF BytesOf
  <2> QED
    BY <2>1, <2>2, EmptyBytes DEF MemoryInit, CountersAgree, NoCounters, NoStatistics
<1>3. RecordInv
  BY <1>2, FS_EmptySet DEF MemoryInit, RecordInv
<1> QED
  BY <1>1, <1>2, <1>3 DEF MemoryInv

\* The books stay.
LEMMA BooksStay ==
    ASSUME MemoryInv, UNCHANGED bookVars
    PROVE  /\ CountersAgree' /\ Active' = Active /\ IsFiniteSet(Active')
           /\ \A a \in Active' : m_allocations'[a].address = a /\ m_allocations'[a].tag \in Tags
BY DEF bookVars, MemoryInv, RecordInv, CountersAgree, Active, BytesOf

LEMMA BeginKeeps ==
    ASSUME MemoryInv, NEW c \in Clients, NEW place \in {"allocation", "deallocation"},
           NEW record \in Records, record.address \in Addresses,
           place = "allocation" => record.size # 0 /\ record.tag \in Tags,
           Begin(c, place, record), m_nextAllocationId' \in Nat
    PROVE  MemoryInv'
<1>1. MemoryTypeOK'
  BY DEF MemoryInv, MemoryTypeOK, Begin, bookVars
<1>2. /\ clientAt' = [clientAt EXCEPT ![c] = place]
      /\ registering' = [registering EXCEPT ![c] = record]
      /\ UNCHANGED bookVars
  BY DEF Begin
<1>3. RecordInv'
  BY <1>2, BooksStay DEF MemoryInv, MemoryTypeOK, RecordInv
<1> QED
  BY <1>1, <1>2, <1>3, BooksStay DEF MemoryInv

\* The client is idle again.
LEMMA ReturnKeeps ==
    ASSUME MemoryInv, NEW c \in Clients, Return(c),
           m_allocations' \in [Addresses -> Records],
           m_tagStatistics' \in [Tags -> Statistics],
           m_counters' \in Counters,
           IsFiniteSet(Active'), CountersAgree',
           \A a \in Active' : m_allocations'[a].address = a /\ m_allocations'[a].tag \in Tags
    PROVE  MemoryInv'
<1>1. NoRecord \in Records
  BY DEF NoRecord, Record, Records
<1>2. MemoryTypeOK'
  BY <1>1 DEF MemoryInv, MemoryTypeOK, Return
<1>3. RecordInv'
  BY DEF MemoryInv, MemoryTypeOK, RecordInv, Return
<1> QED
  BY <1>2, <1>3 DEF MemoryInv

\* The books without the record of one address.
LEMMA Without ==
    ASSUME MemoryInv, NEW x \in Addresses
    PROVE  LET old == m_allocations[x]
               b == Cardinality(BytesIn(m_allocations, Active \ {x})) IN
           /\ b \in Nat /\ IsFiniteSet(Active \ {x})
           /\ m_counters.inUse = b + old.size
           /\ Cardinality(Active) = Cardinality(Active \ {x}) + IF old.size = 0 THEN 0 ELSE 1
           /\ \A t \in Tags :
                /\ Cardinality(BytesIn(m_allocations, OfTag(t) \ {x})) \in 0..b
                /\ IsFiniteSet(OfTag(t))
                /\ m_tagStatistics[t].inUse
                     = Cardinality(BytesIn(m_allocations, OfTag(t) \ {x}))
                         + IF old.size # 0 /\ old.tag = t THEN old.size ELSE 0
<1> DEFINE old == m_allocations[x]
           Sum(set) == Cardinality(BytesIn(m_allocations, set))
<1>1. IsFiniteSet(Active) /\ \A a \in Active : m_allocations[a].size \in Nat
  BY DEF MemoryInv, MemoryTypeOK, RecordInv, Records, Active
<1>2. old.size \in Nat /\ (x \in Active <=> old.size # 0)
  BY DEF MemoryInv, MemoryTypeOK, Records, Active
<1>3. IsFiniteSet(Active \ {x}) /\ Sum(Active \ {x}) \in Nat
  BY <1>1, FS_Subset, BytesFinite
<1>4. m_counters.inUse = Sum(Active) /\ m_counters.active = Cardinality(Active)
  BY DEF MemoryInv, CountersAgree, BytesOf, BytesIn
<1>5. Sum(Active) = Sum(Active \ {x}) + Share(m_allocations, Active, x)
  BY <1>1, BytesSplit, Zenon
<1>6. Cardinality(Active) = Cardinality(Active \ {x}) + IF old.size = 0 THEN 0 ELSE 1
  <2>1. Cardinality(Active \ {x}) = IF x \in Active THEN Cardinality(Active) - 1 ELSE Cardinality(Active)
    BY <1>1, FS_RemoveElement
  <2>2. Cardinality(Active) \in Nat
    BY <1>1, FS_CardinalityType
  <2> QED
    BY <1>2, <2>1, <2>2
<1>7. ASSUME NEW t \in Tags
      PROVE  /\ Sum(OfTag(t) \ {x}) \in 0..Sum(Active \ {x})
             /\ IsFiniteSet(OfTag(t))
             /\ m_tagStatistics[t].inUse
                  = Sum(OfTag(t) \ {x}) + IF old.size # 0 /\ old.tag = t THEN old.size ELSE 0
  <2>1. OfTag(t) \subseteq Active /\ (x \in OfTag(t) <=> old.size # 0 /\ old.tag = t)
    BY <1>2 DEF OfTag
  <2>2. IsFiniteSet(OfTag(t)) /\ \A a \in OfTag(t) : m_allocations[a].size \in Nat
    BY <1>1, <2>1, FS_Subset
  <2>3. m_tagStatistics[t].inUse = Sum(OfTag(t))
    BY DEF MemoryInv, CountersAgree, BytesOf, BytesIn, OfTag
  <2>4. Sum(OfTag(t)) = Sum(OfTag(t) \ {x}) + Share(m_allocations, OfTag(t), x)
    BY <2>2, BytesSplit, Zenon
  <2>5. Sum(OfTag(t) \ {x}) <= Sum(Active \ {x})
    <3>1. OfTag(t) \ {x} \in SUBSET (Active \ {x})
      BY <2>1
    <3>2. \A a \in Active \ {x} : m_allocations[a].size \in Nat
      BY <1>1
    <3> QED
      BY <1>3, <3>1, <3>2, BytesMonotone
  <2>6. Sum(OfTag(t) \ {x}) \in Nat
    <3>1. IsFiniteSet(OfTag(t) \ {x})
      BY <2>2, FS_Subset
    <3> QED
      BY <2>2, <3>1, BytesFinite
  <2> QED
    BY <1>3, <2>1, <2>2, <2>3, <2>4, <2>5, <2>6 DEF Share
<1> QED
  BY <1>2, <1>3, <1>4, <1>5, <1>6, <1>7 DEF Share

\* The books with another record of that address, or none.
LEMMA Replaced ==
    ASSUME MemoryInv, NEW x \in Addresses, NEW new \in Records,
           new.size # 0 => new.address = x /\ new.tag \in Tags,
           m_allocations' = [m_allocations EXCEPT ![x] = new]
    PROVE  /\ IsFiniteSet(Active')
           /\ \A a \in Active' : m_allocations'[a].address = a /\ m_allocations'[a].tag \in Tags
           /\ Cardinality(Active') = Cardinality(Active \ {x}) + IF new.size = 0 THEN 0 ELSE 1
           /\ BytesOf(Active)' = Cardinality(BytesIn(m_allocations, Active \ {x})) + new.size
           /\ \A t \in Tags :
                BytesOf({a \in Active : m_allocations[a].tag = t})'
                  = Cardinality(BytesIn(m_allocations, OfTag(t) \ {x}))
                      + IF new.size # 0 /\ new.tag = t THEN new.size ELSE 0
<1>1. IsFiniteSet(Active) /\ m_allocations \in [Addresses -> Records]
  BY DEF MemoryInv, MemoryTypeOK, RecordInv
<1>2. /\ m_allocations'[x] = new /\ new.size \in Nat
      /\ \A a \in Addresses \ {x} : m_allocations'[a] = m_allocations[a]
      /\ \A a \in Addresses : m_allocations'[a].size \in Nat
  BY <1>1 DEF Records
<1>3. Active' \subseteq Active \cup {x} /\ Active' \ {x} = Active \ {x} /\ (x \in Active' <=> new.size # 0)
  BY <1>2 DEF Active
<1>4. IsFiniteSet(Active')
  BY <1>1, <1>3, FS_AddElement, FS_Subset
<1>5. \A a \in Active' : m_allocations'[a].address = a /\ m_allocations'[a].tag \in Tags
  <2>1. \A a \in Active : m_allocations[a].address = a /\ m_allocations[a].tag \in Tags
    BY DEF MemoryInv, RecordInv
  <2> QED
    BY <1>2, <1>3, <2>1
<1>6. Cardinality(Active') = Cardinality(Active \ {x}) + IF new.size = 0 THEN 0 ELSE 1
  <2>1. Cardinality(Active' \ {x})
          = IF x \in Active' THEN Cardinality(Active') - 1 ELSE Cardinality(Active')
    BY <1>4, FS_RemoveElement
  <2>2. Cardinality(Active') \in Nat
    BY <1>4, FS_CardinalityType
  <2>3. Cardinality(Active' \ {x}) = Cardinality(Active \ {x})
    BY <1>3
  <2>4. CASE new.size = 0
    BY <1>3, <2>1, <2>2, <2>3, <2>4
  <2>5. CASE new.size # 0
    <3>1. Cardinality(Active \ {x}) = Cardinality(Active') - 1
      BY <1>3, <2>1, <2>3, <2>5
    <3> QED
      BY <2>2, <2>5, <3>1
  <2> QED
    BY <2>4, <2>5
<1>7. BytesOf(Active)' = Cardinality(BytesIn(m_allocations, Active \ {x})) + new.size
  <2>1. Active' \subseteq Addresses /\ Active \subseteq Addresses
    BY DEF Active
  <2>2. \A a \in Active' : m_allocations'[a].size \in Nat
    BY <1>2, <2>1
  <2>3. Cardinality(BytesIn(m_allocations', Active'))
          = Cardinality(BytesIn(m_allocations', Active' \ {x})) + Share(m_allocations', Active', x)
    BY <1>4, <2>2, BytesSplit, Zenon
  <2>4. BytesIn(m_allocations', Active' \ {x}) = BytesIn(m_allocations, Active \ {x})
    <3>1. \A a \in Active \ {x} : m_allocations'[a].size = m_allocations[a].size
      BY <1>2, <2>1
    <3>2. BytesIn(m_allocations', Active \ {x}) = BytesIn(m_allocations, Active \ {x})
      BY <3>1 DEF BytesIn
    <3> QED
      BY <1>3, <3>2
  <2>5. Share(m_allocations', Active', x) = new.size
    BY <1>2, <1>3 DEF Share
  <2>6. BytesOf(Active)' = Cardinality(BytesIn(m_allocations', Active'))
    BY DEF BytesOf, BytesIn
  <2> QED
    BY <2>3, <2>4, <2>5, <2>6
<1>8. ASSUME NEW t \in Tags
      PROVE  BytesOf({a \in Active : m_allocations[a].tag = t})'
               = Cardinality(BytesIn(m_allocations, OfTag(t) \ {x}))
                   + IF new.size # 0 /\ new.tag = t THEN new.size ELSE 0
  <2> DEFINE set == {a \in Active' : m_allocations'[a].tag = t}
  <2>1. /\ set \subseteq Active' /\ Active' \subseteq Addresses
        /\ OfTag(t) \subseteq Addresses
        /\ set \ {x} = OfTag(t) \ {x}
        /\ x \in set <=> new.size # 0 /\ new.tag = t
    <3>1. Active' \subseteq Addresses /\ Active \subseteq Addresses
      BY DEF Active
    <3> QED
      BY <1>2, <1>3, <3>1 DEF OfTag
  <2>2. IsFiniteSet(set) /\ \A a \in set : m_allocations'[a].size \in Nat
    BY <1>2, <1>4, <2>1, FS_Subset
  <2>3. BytesOf({a \in Active : m_allocations[a].tag = t})' = Cardinality(BytesIn(m_allocations', set))
    BY DEF BytesOf, BytesIn
  <2> HIDE DEF set
  <2>4. Cardinality(BytesIn(m_allocations', set))
          = Cardinality(BytesIn(m_allocations', set \ {x})) + Share(m_allocations', set, x)
    BY <2>2, BytesSplit, Zenon
  <2>5. BytesIn(m_allocations', set \ {x}) = BytesIn(m_allocations, OfTag(t) \ {x})
    <3>1. \A a \in OfTag(t) \ {x} : m_allocations'[a].size = m_allocations[a].size
      BY <1>2, <2>1
    <3>2. BytesIn(m_allocations', OfTag(t) \ {x}) = BytesIn(m_allocations, OfTag(t) \ {x})
      BY <3>1 DEF BytesIn
    <3> QED
      BY <2>1, <3>2
  <2>6. Share(m_allocations', set, x) = IF new.size # 0 /\ new.tag = t THEN new.size ELSE 0
    BY <1>2, <2>1 DEF Share
  <2> QED
    BY <2>3, <2>4, <2>5, <2>6
<1> QED
  BY <1>4, <1>5, <1>6, <1>7, <1>8

LEMMA StatisticsStep ==
    ASSUME NEW s \in Statistics, NEW n \in Nat
    PROVE  Allocated(s, n) \in Statistics /\ Freed(s, n) \in Statistics
<1>1. /\ s.allocations \in Nat /\ s.deallocations \in Nat /\ s.inUse \in Nat
      /\ s.peak \in Nat /\ s.bytes \in Nat
  BY DEF Statistics
<1>2. Larger(s.peak, s.inUse + n) \in Nat /\ Less(s.inUse, n) \in Nat
  BY <1>1 DEF Larger, Less
<1> QED
  BY <1>1, <1>2 DEF Allocated, Freed, Statistics

LEMMA RegisterAllocationKeeps ==
    ASSUME MemoryInv, NEW c \in Clients, RegisterAllocation(c) PROVE MemoryInv'
<1> DEFINE new   == registering[c]
           x     == new.address
           old   == m_allocations[x]
           stats == WithoutReplaced(old)
           b     == Cardinality(BytesIn(m_allocations, Active \ {x}))
           Rest(t) == Cardinality(BytesIn(m_allocations, OfTag(t) \ {x}))
           inUse == m_counters.inUse - old.size + new.size
<1>1. new \in Records /\ x \in Addresses /\ new.size # 0 /\ new.tag \in Tags
  BY DEF MemoryInv, MemoryTypeOK, RecordInv, RegisterAllocation
<1>2. /\ m_allocations \in [Addresses -> Records] /\ m_tagStatistics \in [Tags -> Statistics]
      /\ m_counters \in Counters
  BY DEF MemoryInv, MemoryTypeOK
<1>3. old \in Records /\ old.size \in Nat /\ new.size \in Nat
  BY <1>1, <1>2 DEF Records
<1>4. old.size # 0 => old.tag \in Tags
  BY <1>1 DEF MemoryInv, RecordInv, Active
<1>5. /\ m_allocations' = [m_allocations EXCEPT ![x] = new]
      /\ m_counters' = [m_counters EXCEPT
              !.active = IF old.size = 0 THEN @ + 1 ELSE @,
              !.allocations = @ + 1,
              !.inUse = inUse,
              !.peak = Larger(@, inUse),
              !.bytes = @ + new.size]
      /\ m_tagStatistics' = [stats EXCEPT ![new.tag] = Allocated(stats[new.tag], new.size)]
      /\ Return(c)
  BY DEF RegisterAllocation
<1>6. /\ b \in Nat /\ m_counters.inUse = b + old.size
      /\ Cardinality(Active) = Cardinality(Active \ {x}) + IF old.size = 0 THEN 0 ELSE 1
      /\ \A t \in Tags :
          /\ Rest(t) \in 0..b
          /\ m_tagStatistics[t].inUse = Rest(t) + IF old.size # 0 /\ old.tag = t THEN old.size ELSE 0
  BY <1>1, Without
<1>7. /\ IsFiniteSet(Active')
      /\ \A a \in Active' : m_allocations'[a].address = a /\ m_allocations'[a].tag \in Tags
      /\ Cardinality(Active') = Cardinality(Active \ {x}) + IF new.size = 0 THEN 0 ELSE 1
      /\ BytesOf(Active)' = b + new.size
      /\ \A t \in Tags :
           BytesOf({a \in Active : m_allocations[a].tag = t})'
             = Rest(t) + IF new.size # 0 /\ new.tag = t THEN new.size ELSE 0
  BY <1>1, <1>5, Replaced
<1>8. Cardinality(Active \ {x}) \in Nat
  BY Without, <1>1, FS_CardinalityType
<1>9. /\ m_counters.active = Cardinality(Active) /\ m_counters.peak >= m_counters.inUse
      /\ m_counters.allocations >= m_counters.active + m_counters.deallocations
      /\ \A t \in Tags : /\ m_tagStatistics[t].peak >= m_tagStatistics[t].inUse
                        /\ m_tagStatistics[t].peak <= m_counters.peak
  BY DEF MemoryInv, CountersAgree
\* The tag of the record that is replaced loses exactly its bytes.
<1>10. /\ stats \in [Tags -> Statistics]
       /\ \A t \in Tags : stats[t].inUse = Rest(t) /\ stats[t].peak = m_tagStatistics[t].peak
  <2>1. CASE old.size = 0
    BY <1>2, <1>6, <2>1 DEF WithoutReplaced, Statistics
  <2>2. CASE old.size # 0
    <3>1. stats = [m_tagStatistics EXCEPT ![old.tag].inUse = Less(@, old.size)]
      BY <2>2 DEF WithoutReplaced
    <3>2. Less(m_tagStatistics[old.tag].inUse, old.size) = Rest(old.tag) /\ Rest(old.tag) \in Nat
      BY <1>3, <1>4, <1>6, <2>2 DEF Less
    <3>3. stats = [m_tagStatistics EXCEPT ![old.tag].inUse = Rest(old.tag)]
      BY <3>1, <3>2
    <3> HIDE DEF stats, Rest, old
    <3> QED
      BY <1>2, <1>4, <1>6, <2>2, <3>2, <3>3 DEF Statistics
  <2> QED
    BY <2>1, <2>2
<1> HIDE DEF new, x, old, stats, b, Rest
<1>11. inUse = b + new.size
  BY <1>3, <1>6
<1>12. /\ m_counters' \in Counters
       /\ m_counters'.active = Cardinality(Active') /\ m_counters'.inUse = b + new.size
       /\ m_counters'.peak >= m_counters'.inUse
       /\ m_counters'.peak >= m_counters.peak
       /\ m_counters'.allocations >= m_counters'.active + m_counters'.deallocations
  <2>1. /\ m_counters.active \in Int /\ m_counters.allocations \in Nat
        /\ m_counters.deallocations \in Nat /\ m_counters.peak \in Nat /\ m_counters.bytes \in Nat
    BY <1>2 DEF Counters
  <2>2. m_counters' = [active        |-> IF old.size = 0 THEN m_counters.active + 1 ELSE m_counters.active,
                       allocations   |-> m_counters.allocations + 1,
                       deallocations |-> m_counters.deallocations,
                       inUse         |-> b + new.size,
                       peak          |-> Larger(m_counters.peak, b + new.size),
                       bytes         |-> m_counters.bytes + new.size]
    BY <1>2, <1>5, <1>11 DEF Counters
  <2>3. Larger(m_counters.peak, b + new.size) \in Nat
    BY <1>3, <1>6, <2>1 DEF Larger
  <2>4. m_counters' \in Counters
    BY <1>3, <1>6, <2>1, <2>2, <2>3 DEF Counters
  <2>5. m_counters'.active = Cardinality(Active')
    BY <1>1, <1>6, <1>7, <1>8, <1>9, <2>2
  <2>6. m_counters'.peak >= m_counters'.inUse /\ m_counters'.peak >= m_counters.peak
    BY <1>3, <1>6, <2>1, <2>2 DEF Larger
  <2>7. m_counters'.allocations >= m_counters'.active + m_counters'.deallocations
    BY <1>9, <2>1, <2>2
  <2> QED
    BY <2>2, <2>4, <2>5, <2>6, <2>7
<1>13. /\ m_tagStatistics' \in [Tags -> Statistics]
       /\ \A t \in Tags :
           /\ m_tagStatistics'[t].inUse = Rest(t) + IF new.tag = t THEN new.size ELSE 0
           /\ m_tagStatistics'[t].peak = IF new.tag = t THEN Larger(stats[t].peak, Rest(t) + new.size)
                                         ELSE stats[t].peak
  <2>1. ASSUME NEW t \in Tags
        PROVE  /\ stats[t].allocations \in Nat /\ stats[t].deallocations \in Nat
               /\ stats[t].inUse = Rest(t) /\ Rest(t) \in Nat
               /\ stats[t].peak \in Nat /\ stats[t].bytes \in Nat
    BY <1>6, <1>10 DEF Statistics
  <2> DEFINE changed == Allocated(stats[new.tag], new.size)
  <2>2. m_tagStatistics' = [stats EXCEPT ![new.tag] = changed]
    BY <1>5
  <2>3. changed \in Statistics
    BY <1>1, <1>3, <1>10, StatisticsStep
  <2>4. /\ changed.inUse = Rest(new.tag) + new.size
        /\ changed.peak = Larger(stats[new.tag].peak, Rest(new.tag) + new.size)
    BY <1>1, <2>1 DEF Allocated
  <2> HIDE DEF changed
  <2>5. /\ m_tagStatistics' \in [Tags -> Statistics]
        /\ \A t \in Tags : m_tagStatistics'[t] = IF new.tag = t THEN changed ELSE stats[t]
    BY <1>1, <1>10, <2>2, <2>3
  <2>6. ASSUME NEW t \in Tags
        PROVE  /\ m_tagStatistics'[t].inUse = Rest(t) + IF new.tag = t THEN new.size ELSE 0
               /\ m_tagStatistics'[t].peak = IF new.tag = t THEN Larger(stats[t].peak, Rest(t) + new.size)
                                             ELSE stats[t].peak
    <3>1. CASE new.tag = t
      BY <2>4, <2>5, <3>1
    <3>2. CASE new.tag # t
      BY <2>1, <2>5, <3>2
    <3> QED
      BY <3>1, <3>2
  <2> QED
    BY <2>5, <2>6
<1>14. \A t \in Tags : /\ m_tagStatistics'[t].peak >= m_tagStatistics'[t].inUse
                      /\ m_tagStatistics'[t].peak <= m_counters'.peak
  <2> SUFFICES ASSUME NEW t \in Tags
               PROVE  /\ m_tagStatistics'[t].peak >= m_tagStatistics'[t].inUse
                      /\ m_tagStatistics'[t].peak <= m_counters'.peak
    OBVIOUS
  <2>1. /\ m_tagStatistics[t].peak \in Nat /\ m_counters.peak \in Nat /\ m_counters'.peak \in Nat
        /\ Rest(t) \in 0..b
    BY <1>2, <1>6, <1>12 DEF Statistics, Counters
  <2>2. /\ stats[t].peak = m_tagStatistics[t].peak
        /\ Rest(t) <= m_tagStatistics[t].peak
        /\ m_tagStatistics[t].peak <= m_counters.peak
    BY <1>3, <1>6, <1>9, <1>10, <2>1
  <2> QED
    BY <1>3, <1>6, <1>12, <1>13, <2>1, <2>2 DEF Larger
<1>15. m_allocations' \in [Addresses -> Records]
  BY <1>1, <1>2, <1>5
<1>16. CountersAgree'
  BY <1>1, <1>7, <1>12, <1>13, <1>14 DEF CountersAgree
<1> QED
  BY <1>5, <1>7, <1>12, <1>13, <1>15, <1>16, ReturnKeeps

LEMMA RegisterDeallocationKeeps ==
    ASSUME MemoryInv, NEW c \in Clients, RegisterDeallocation(c) PROVE MemoryInv'
<1> DEFINE x   == registering[c].address
           old == m_allocations[x]
           b   == Cardinality(BytesIn(m_allocations, Active \ {x}))
           Rest(t) == Cardinality(BytesIn(m_allocations, OfTag(t) \ {x}))
<1>1. x \in Addresses /\ Return(c)
  BY DEF MemoryInv, RecordInv, RegisterDeallocation
<1>2. /\ m_allocations \in [Addresses -> Records] /\ m_tagStatistics \in [Tags -> Statistics]
      /\ m_counters \in Counters
  BY DEF MemoryInv, MemoryTypeOK
<1>3. old.size \in Nat
  BY <1>1, <1>2 DEF Records
<1>4. CASE old.size = 0
  <2>1. UNCHANGED bookVars
    BY <1>4 DEF RegisterDeallocation
  <2> QED
    BY <1>1, <1>2, <2>1, BooksStay, ReturnKeeps DEF bookVars
<1>5. CASE old.size # 0
  <2>1. old.address = x /\ old.tag \in Tags
    BY <1>1, <1>5 DEF MemoryInv, RecordInv, Active
  <2>2. /\ m_allocations' = [m_allocations EXCEPT ![x] = NoRecord]
        /\ m_counters' = [m_counters EXCEPT
                !.active = @ - 1, !.deallocations = @ + 1, !.inUse = @ - old.size]
        /\ m_tagStatistics' = [m_tagStatistics EXCEPT ![old.tag] = Freed(m_tagStatistics[old.tag], old.size)]
    BY <1>5, <2>1 DEF RegisterDeallocation
  <2>3. NoRecord \in Records /\ NoRecord.size = 0
    BY DEF NoRecord, Record, Records
  <2>4. /\ b \in Nat /\ m_counters.inUse = b + old.size
        /\ Cardinality(Active) = Cardinality(Active \ {x}) + 1
        /\ Cardinality(Active \ {x}) \in Nat
        /\ \A t \in Tags :
            /\ Rest(t) \in 0..b
            /\ m_tagStatistics[t].inUse = Rest(t) + IF old.tag = t THEN old.size ELSE 0
    BY <1>1, <1>5, Without, FS_CardinalityType
  <2>5. /\ IsFiniteSet(Active')
        /\ \A a \in Active' : m_allocations'[a].address = a /\ m_allocations'[a].tag \in Tags
        /\ Cardinality(Active') = Cardinality(Active \ {x})
        /\ BytesOf(Active)' = b
        /\ \A t \in Tags : BytesOf({a \in Active : m_allocations[a].tag = t})' = Rest(t)
    <3>1. /\ IsFiniteSet(Active')
          /\ \A a \in Active' : m_allocations'[a].address = a /\ m_allocations'[a].tag \in Tags
          /\ Cardinality(Active') = Cardinality(Active \ {x}) + 0
          /\ BytesOf(Active)' = b + 0
          /\ \A t \in Tags : BytesOf({a \in Active : m_allocations[a].tag = t})' = Rest(t) + 0
      BY <1>1, <2>2, <2>3, Replaced
    <3> QED
      BY <2>4, <3>1
  <2> HIDE DEF x, old, b, Rest
  <2>6. /\ m_counters' \in Counters
        /\ m_counters'.active = Cardinality(Active') /\ m_counters'.inUse = b
        /\ m_counters'.peak = m_counters.peak /\ m_counters.peak >= b
        /\ m_counters'.allocations >= m_counters'.active + m_counters'.deallocations
    <3>1. /\ m_counters.active \in Int /\ m_counters.allocations \in Nat
          /\ m_counters.deallocations \in Nat /\ m_counters.peak \in Nat /\ m_counters.bytes \in Nat
      BY <1>2 DEF Counters
    <3>2. m_counters.inUse - old.size = b
      BY <1>3, <2>4
    <3>3. m_counters' = [active        |-> m_counters.active - 1,
                         allocations   |-> m_counters.allocations,
                         deallocations |-> m_counters.deallocations + 1,
                         inUse         |-> b,
                         peak          |-> m_counters.peak,
                         bytes         |-> m_counters.bytes]
      BY <1>2, <2>2, <3>2 DEF Counters
    <3>4. /\ m_counters.active = Cardinality(Active) /\ m_counters.peak >= m_counters.inUse
          /\ m_counters.allocations >= m_counters.active + m_counters.deallocations
      BY DEF MemoryInv, CountersAgree
    <3>5. m_counters' \in Counters
      BY <2>4, <3>1, <3>3 DEF Counters
    <3> QED
      BY <1>3, <2>4, <2>5, <3>1, <3>3, <3>4, <3>5
  <2>7. /\ m_tagStatistics' \in [Tags -> Statistics]
        /\ \A t \in Tags : /\ m_tagStatistics'[t].inUse = Rest(t)
                          /\ m_tagStatistics'[t].peak = m_tagStatistics[t].peak
    <3> DEFINE changed == Freed(m_tagStatistics[old.tag], old.size)
    <3>1. Less(m_tagStatistics[old.tag].inUse, old.size) = Rest(old.tag)
      BY <1>3, <2>1, <2>4 DEF Less
    <3>2. m_tagStatistics' = [m_tagStatistics EXCEPT ![old.tag] = changed]
      BY <2>2
    <3>3. changed \in Statistics
      BY <1>2, <1>3, <2>1, StatisticsStep
    <3>6. changed.inUse = Rest(old.tag) /\ changed.peak = m_tagStatistics[old.tag].peak
      BY <3>1 DEF Freed
    <3> HIDE DEF changed
    <3>4. /\ m_tagStatistics' \in [Tags -> Statistics]
          /\ \A t \in Tags : m_tagStatistics'[t] = IF old.tag = t THEN changed ELSE m_tagStatistics[t]
      BY <1>2, <2>1, <3>2, <3>3
    <3>5. \A t \in Tags : old.tag # t => m_tagStatistics[t].inUse = Rest(t)
      BY <2>4
    <3> QED
      BY <2>1, <3>4, <3>5, <3>6
  <2>8. \A t \in Tags : /\ m_tagStatistics[t].peak >= Rest(t)
                       /\ m_tagStatistics[t].peak <= m_counters.peak
    <3> TAKE t \in Tags
    <3>1. /\ m_tagStatistics[t].peak >= m_tagStatistics[t].inUse
          /\ m_tagStatistics[t].peak <= m_counters.peak
      BY DEF MemoryInv, CountersAgree
    <3>2. m_tagStatistics[t].peak \in Nat
      BY <1>2 DEF Statistics
    <3> QED
      BY <1>3, <2>4, <3>1, <3>2
  <2>9. CountersAgree'
    BY <2>5, <2>6, <2>7, <2>8 DEF CountersAgree
  <2>10. m_allocations' \in [Addresses -> Records]
    BY <1>2, <2>2, <2>3
  <2> QED
    BY <1>1, <2>5, <2>6, <2>7, <2>9, <2>10, ReturnKeeps
<1> QED
  BY <1>4, <1>5

LEMMA MemoryInvStep == MemoryInv /\ [MemoryNext]_memoryVars => MemoryInv'
<1> SUFFICES ASSUME MemoryInv, [MemoryNext]_memoryVars PROVE MemoryInv'
  OBVIOUS
<1>1. ASSUME ResetStatistics PROVE MemoryInv'
  <2>1. CountersAgree' /\ Active' = {}
    <3>1. Active' = {} /\ m_allocations' = EmptyRecords
      BY <1>1, EmptyBytes DEF ResetStatistics, EmptyBooks, Active, EmptyRecords
    <3>2. BytesOf(Active)' = 0 /\ \A t \in Tags : BytesOf({a \in Active : m_allocations[a].tag = t})' = 0
      BY <3>1, EmptyBytes DEF BytesOf
    <3> QED
      BY <1>1, <3>1, <3>2, EmptyBytes
         DEF ResetStatistics, EmptyBooks, CountersAgree, NoCounters, NoStatistics
  <2>2. MemoryTypeOK'
    BY <1>1 DEF MemoryInv, MemoryTypeOK, ResetStatistics, EmptyBooks, Records, Statistics, Counters,
               NoRecord, Record, NoStatistics, NoCounters
  <2>3. RecordInv'
    BY <1>1, <2>1, FS_EmptySet DEF MemoryInv, RecordInv, ResetStatistics
  <2> QED
    BY <2>1, <2>2, <2>3 DEF MemoryInv
<1>2. ASSUME SetTrackingEnabled PROVE MemoryInv'
  <2>1. UNCHANGED bookVars
    BY <1>2 DEF SetTrackingEnabled
  <2>2. MemoryTypeOK' /\ RecordInv'
    BY <1>2, <2>1, BooksStay DEF MemoryInv, MemoryTypeOK, RecordInv, SetTrackingEnabled, bookVars
  <2> QED
    BY <2>1, <2>2, BooksStay DEF MemoryInv
<1>3. ASSUME NEW c \in Clients, NEW a \in Addresses, NEW s \in Sizes, NEW t \in Tags,
             BeginAllocation(c, a, s, t)
      PROVE  MemoryInv'
  <2> DEFINE record == Record(a, s, t, m_nextAllocationId + 1)
  <2>1. m_nextAllocationId \in Nat /\ m_nextAllocationId' = m_nextAllocationId + 1
    BY <1>3 DEF BeginAllocation, MemoryInv, MemoryTypeOK
  <2>2. record \in Records /\ record.address = a /\ record.size # 0 /\ record.tag = t
    BY <2>1, SizesAssumption DEF Record, Records
  <2>3. Begin(c, "allocation", record)
    BY <1>3 DEF BeginAllocation
  <2> HIDE DEF record
  <2> QED
    BY <2>1, <2>2, <2>3, BeginKeeps
<1>4. ASSUME NEW c \in Clients, NEW a \in Addresses, BeginDeallocation(c, a) PROVE MemoryInv'
  <2> DEFINE record == Record(a, 0, "none", 0)
  <2>1. m_nextAllocationId' \in Nat
    BY <1>4 DEF BeginDeallocation, MemoryInv, MemoryTypeOK
  <2>2. record \in Records /\ record.address = a
    BY DEF Record, Records
  <2>3. Begin(c, "deallocation", record)
    BY <1>4 DEF BeginDeallocation
  <2> HIDE DEF record
  <2> QED
    BY <2>1, <2>2, <2>3, BeginKeeps
<1>5. CASE UNCHANGED memoryVars
  <2>1. UNCHANGED bookVars
    BY <1>5 DEF memoryVars, bookVars
  <2>2. MemoryTypeOK' /\ RecordInv'
    BY <1>5, <2>1, BooksStay DEF MemoryInv, MemoryTypeOK, RecordInv, memoryVars
  <2> QED
    BY <2>1, <2>2, BooksStay DEF MemoryInv
<1> QED
  BY <1>1, <1>2, <1>3, <1>4, <1>5, RegisterAllocationKeeps, RegisterDeallocationKeeps DEF MemoryNext

\* The counters of Memory_Manager agree with its records at every moment nobody holds
\* the lock (CountersAgree), for any clients, addresses, sizes and tags: a registration
\* that replaces a record, an Initialize between a client's check of the tracking switch
\* and its lock, and deallocations nobody registered keep both sides in step.
THEOREM CountersAgreeCorrect == MemorySpec => []CountersAgree
<1>1. MemoryInv => CountersAgree
  BY DEF MemoryInv
<1> QED
  BY <1>1, MemoryInitInv, MemoryInvStep, PTL DEF MemorySpec

-----------------------------------------------------------------------------
(* PatternScan *)

Tokens == Bytes \cup {Wildcard, Malformed}
Section == [address : Nat, virtual : Nat, raw : Nat]
Asked == [tokens : Seq(Tokens), section : Section, limit : Nat,
          foreign : BOOLEAN, unreadable : {"none", "first", "second"}]

ScanTypeOK ==
    /\ stage \in {"idle", "compile", "anchor", "read", "scan", "done", "failed"}
    /\ request \in Asked
    /\ run \in [index : Nat, start : Nat, length : Nat]
    /\ anchor \in [offset : Nat, length : Nat]
    /\ copied \in Nat
    /\ offset \in Nat
    /\ matches \in Seq(Nat)

OnlyBytes(start, length) ==
    \A i \in start..start + length - 1 : i < Len(request.tokens) /\ request.tokens[i + 1] # Wildcard

\* The run at hand ends at the token at hand.
RunInv ==
    stage = "anchor" =>
        /\ ~request.foreign /\ run.index <= Len(request.tokens)
        /\ run.length # 0 => run.start + run.length = run.index
        /\ OnlyBytes(run.start, run.length)
AnchorInv == OnlyBytes(anchor.offset, anchor.length)

\* What was copied was readable.
CopyInv ==
    /\ stage = "read" => /\ request.foreign /\ copied \in {0, ImageSize \div 2}
                         /\ copied # 0 => request.unreadable # "first"
    /\ stage \in {"scan", "done"} /\ request.foreign => copied = ImageSize /\ request.unreadable = "none"

\* Nothing is left of an earlier request.
FreshInv ==
    /\ stage \in {"idle", "compile"} => run = NoRun /\ anchor = NoAnchor /\ copied = 0
    /\ stage \in {"idle", "compile", "anchor", "read"} => offset = 0 /\ matches = << >>

\* The places before the next candidate are found, in their order.
FoundInv ==
    /\ \A i \in 1..Len(matches) : matches[i] \in Before(offset)
    /\ \A place \in Before(offset) : \E i \in 1..Len(matches) : matches[i] = place
    /\ \A i \in 2..Len(matches) : matches[i - 1] < matches[i]
    /\ Len(matches) = Cardinality(Before(offset))
    /\ request.limit # 0 => Len(matches) <= request.limit

DoneInv ==
    stage = "done" => /\ Scope.size # 0 /\ Len(request.tokens) <= Scope.size
                      /\ offset > Scope.size - Len(request.tokens) \/ Full

ScanInv == ScanTypeOK /\ RunInv /\ AnchorInv /\ CopyInv /\ FreshInv /\ FoundInv /\ DoneInv

LEMMA IdleAsked == Idle \in Asked
BY DEF Idle, Asked, NoSection, Section

LEMMA RequestsAsked == Requests \subseteq Asked
<1> SUFFICES ASSUME NEW r \in Requests PROVE r \in Asked
  OBVIOUS
<1>1. /\ r.tokens \in Patterns /\ r.section \in Sections \cup {NoSection} /\ r.limit \in 0..MaxMatches
      /\ r.foreign \in BOOLEAN /\ r.unreadable \in {"none", "first", "second"}
      /\ r = [tokens |-> r.tokens, section |-> r.section, limit |-> r.limit,
              foreign |-> r.foreign, unreadable |-> r.unreadable]
  BY DEF Requests
<1>2. r.tokens \in Seq(Tokens)
  <2>1. PICK n \in 0..MaxTokens : r.tokens \in [1..n -> Tokens]
    BY <1>1 DEF Patterns, Tokens
  <2> QED
    BY <2>1
<1>3. r.section \in Section
  BY <1>1, SectionsAssumption DEF Section, NoSection
<1>4. r.limit \in Nat
  BY <1>1, ImageAssumption
<1> QED
  BY <1>1, <1>2, <1>3, <1>4 DEF Asked

LEMMA ScopeBounds ==
    ASSUME request \in Asked
    PROVE  /\ Scope.begin \in Nat /\ Scope.size \in Nat
           /\ Scope.size # 0 => Scope.begin + Scope.size <= ImageSize
<1>1. request.foreign \in BOOLEAN /\ request.section \in Section
  BY DEF Asked
<1>2. CASE request.foreign
  BY <1>2, ImageAssumption DEF Scope
<1>3. CASE ~request.foreign
  <2> DEFINE section == request.section
  <2>1. section.address \in Nat /\ section.virtual \in Nat /\ section.raw \in Nat
    BY <1>1 DEF Section
  <2>2. Scope = SectionRange(section)
    BY <1>3 DEF Scope
  <2> HIDE DEF section
  <2>3. Scope.begin = section.address
    BY <2>2 DEF SectionRange
  <2>4. Scope.size = IF section.address >= ImageSize THEN 0
                     ELSE Least(Greatest(section.virtual, section.raw), ImageSize - section.address)
    BY <2>2 DEF SectionRange
  <2> QED
    BY <2>1, <2>3, <2>4, ImageAssumption DEF Least, Greatest
<1> QED
  BY <1>1, <1>2, <1>3

\* Places of a request and an image that stay.
LEMMA PlacesStay ==
    ASSUME UNCHANGED <<image, request>>
    PROVE  Places' = Places /\ Scope' = Scope /\ \A at : Before(at)' = Before(at)
BY DEF Places, Scope, ByteAt, Before

LEMMA BeforeFinite ==
    ASSUME NEW at \in Nat
    PROVE  IsFiniteSet(Before(at)) /\ Cardinality(Before(at)) \in Nat
<1>1. Before(at) \subseteq 0..at
  BY DEF Before, Places
<1>2. IsFiniteSet(0..at)
  BY FS_Interval
<1> QED
  BY <1>1, <1>2, FS_Subset, FS_CardinalityType

LEMMA NoPlaceBefore == Before(0) = {} /\ Cardinality(Before(0)) = 0
<1>1. Before(0) = {}
  BY DEF Before, Places
<1> QED
  BY <1>1, FS_EmptySet

\* Fewer places are before a place than before what is behind it.
LEMMA BeforeGrows ==
    ASSUME NEW p \in Nat, NEW q \in Nat, p <= q
    PROVE  /\ Cardinality(Before(p)) <= Cardinality(Before(q))
           /\ p \in Before(q) => Cardinality(Before(p)) < Cardinality(Before(q))
<1>1. Before(p) \subseteq Before(q) /\ p \notin Before(p)
  BY DEF Before, Places
<1>2. IsFiniteSet(Before(q))
  BY BeforeFinite
<1>3. Cardinality(Before(p)) \in Nat /\ Cardinality(Before(q)) \in Nat
  BY BeforeFinite
<1>4. /\ Cardinality(Before(p)) <= Cardinality(Before(q))
      /\ Cardinality(Before(p)) = Cardinality(Before(q)) => Before(p) = Before(q)
  BY <1>1, <1>2, FS_Subset, Zenon
<1> QED
  BY <1>1, <1>3, <1>4

\* An anchor without a wildcard rules out no place.
LEMMA HitsPlaces ==
    ASSUME ScanTypeOK, AnchorInv, NEW at \in 0..Scope.size - Len(request.tokens)
    PROVE  Hits(at) <=> at \in Places
<1> DEFINE n == Len(request.tokens)
           is(i) == request.tokens[i + 1] = ByteAt(at + i)
<1>1. n \in Nat /\ at \in Nat
  BY ScopeBounds DEF ScanTypeOK, Asked
<1>2. Hits(at) <=> /\ \A i \in anchor.offset..anchor.offset + anchor.length - 1 : is(i)
                   /\ \A i \in 0..n - 1 : request.tokens[i + 1] = Wildcard \/ is(i)
  BY DEF Hits
<1>3. at \in Places <=> \A i \in 1..n : request.tokens[i] \in {Wildcard, ByteAt(at + i - 1)}
  BY DEF Places
<1>4. (\A i \in 1..n : request.tokens[i] \in {Wildcard, ByteAt(at + i - 1)})
        <=> \A i \in 0..n - 1 : request.tokens[i + 1] = Wildcard \/ is(i)
  <2>1. ASSUME \A i \in 1..n : request.tokens[i] \in {Wildcard, ByteAt(at + i - 1)}, NEW i \in 0..n - 1
        PROVE  request.tokens[i + 1] = Wildcard \/ is(i)
    <3>1. i + 1 \in 1..n /\ at + (i + 1) - 1 = at + i
      BY <1>1
    <3>2. request.tokens[i + 1] \in {Wildcard, ByteAt(at + (i + 1) - 1)}
      BY <2>1, <3>1
    <3> QED
      BY <3>1, <3>2
  <2>2. ASSUME \A i \in 0..n - 1 : request.tokens[i + 1] = Wildcard \/ is(i), NEW i \in 1..n
        PROVE  request.tokens[i] \in {Wildcard, ByteAt(at + i - 1)}
    <3>1. i - 1 \in 0..n - 1 /\ (i - 1) + 1 = i /\ at + (i - 1) = at + i - 1
      BY <1>1
    <3>2. request.tokens[(i - 1) + 1] = Wildcard \/ is(i - 1)
      BY <2>2, <3>1
    <3> QED
      BY <3>1, <3>2
  <2> QED
    BY <2>1, <2>2
<1>5. ASSUME \A i \in 0..n - 1 : request.tokens[i + 1] = Wildcard \/ is(i),
             NEW i \in anchor.offset..anchor.offset + anchor.length - 1
      PROVE  is(i)
  <2>1. i \in 0..n - 1 /\ request.tokens[i + 1] # Wildcard
    BY <1>1 DEF AnchorInv, OnlyBytes, ScanTypeOK
  <2> QED
    BY <1>5, <2>1
<1> QED
  BY <1>2, <1>3, <1>4, <1>5

LEMMA ScanInitInv == ScanInit => ScanInv
<1> SUFFICES ASSUME ScanInit PROVE ScanInv
  OBVIOUS
<1>1. ScanTypeOK
  BY IdleAsked DEF ScanInit, ScanTypeOK, NoRun, NoAnchor
<1>2. FoundInv
  BY NoPlaceBefore DEF ScanInit, FoundInv, Idle
<1>3. RunInv /\ AnchorInv /\ CopyInv /\ FreshInv /\ DoneInv
  BY DEF ScanInit, RunInv, AnchorInv, OnlyBytes, CopyInv, FreshInv, DoneInv, NoAnchor
<1> QED
  BY <1>1, <1>2, <1>3 DEF ScanInv

\* What is found stays found.
LEMMA FoundStays ==
    ASSUME FoundInv, UNCHANGED <<image, request, offset, matches>>
    PROVE  FoundInv'
BY PlacesStay DEF FoundInv

\* A request begins and ends with nothing found.
LEMMA NothingFound ==
    ASSUME offset' = 0, matches' = << >>, request' \in Asked
    PROVE  FoundInv'
<1>1. Before(0)' = {}
  BY DEF Before, Places
<1>2. Cardinality(Before(offset)') = 0
  BY <1>1, FS_EmptySet
<1>3. request'.limit \in Nat
  BY DEF Asked
<1> QED
  BY <1>1, <1>2, <1>3 DEF FoundInv

LEMMA AskKeeps == ScanInv /\ Ask => ScanInv'
<1> SUFFICES ASSUME ScanInv, Ask PROVE ScanInv'
  OBVIOUS
<1>1. /\ stage = "idle" /\ stage' = "compile" /\ request' \in Asked
      /\ UNCHANGED <<image, run, anchor, copied, offset, matches>>
  BY RequestsAsked DEF Ask
<1>2. run = NoRun /\ anchor = NoAnchor /\ copied = 0 /\ offset = 0 /\ matches = << >>
  BY <1>1 DEF ScanInv, FreshInv
<1>3. ScanTypeOK'
  BY <1>1 DEF ScanInv, ScanTypeOK
<1>4. FoundInv'
  BY <1>1, <1>2, NothingFound
<1>5. RunInv' /\ AnchorInv' /\ CopyInv' /\ FreshInv' /\ DoneInv'
  BY <1>1, <1>2 DEF RunInv, AnchorInv, OnlyBytes, CopyInv, FreshInv, DoneInv, NoAnchor
<1> QED
  BY <1>3, <1>4, <1>5 DEF ScanInv

LEMMA AnswerKeeps == ScanInv /\ Answer => ScanInv'
<1> SUFFICES ASSUME ScanInv, Answer PROVE ScanInv'
  OBVIOUS
<1>1. ScanTypeOK'
  BY IdleAsked DEF ScanTypeOK, Answer, NoRun, NoAnchor
<1>2. FoundInv'
  BY IdleAsked, NothingFound DEF Answer
<1>3. RunInv' /\ AnchorInv' /\ CopyInv' /\ FreshInv' /\ DoneInv'
  BY DEF Answer, RunInv, AnchorInv, OnlyBytes, CopyInv, FreshInv, DoneInv, NoAnchor
<1> QED
  BY <1>1, <1>2, <1>3 DEF ScanInv

LEMMA CompileKeeps == ScanInv /\ Compile => ScanInv'
<1> SUFFICES ASSUME ScanInv, Compile PROVE ScanInv'
  OBVIOUS
<1>1. /\ stage = "compile"
      /\ \/ stage' = "failed"
         \/ stage' = "read" /\ request.foreign
         \/ stage' = "anchor" /\ ~request.foreign
      /\ UNCHANGED <<image, request, run, anchor, copied, offset, matches>>
  BY DEF Compile
<1>2. run = NoRun /\ anchor = NoAnchor /\ copied = 0 /\ offset = 0 /\ matches = << >>
  BY <1>1 DEF ScanInv, FreshInv
<1>3. ScanTypeOK'
  BY <1>1 DEF ScanInv, ScanTypeOK
<1>4. FoundInv'
  BY <1>1, FoundStays DEF ScanInv
<1>5. Len(request.tokens) \in Nat
  BY DEF ScanInv, ScanTypeOK, Asked
<1>6. RunInv' /\ AnchorInv'
  BY <1>1, <1>2, <1>5 DEF RunInv, AnchorInv, OnlyBytes, NoRun, NoAnchor
<1>7. CopyInv' /\ FreshInv' /\ DoneInv'
  BY <1>1, <1>2 DEF CopyInv, FreshInv, DoneInv
<1> QED
  BY <1>3, <1>4, <1>6, <1>7 DEF ScanInv

LEMMA SeekAnchorKeeps == ScanInv /\ SeekAnchor => ScanInv'
<1> SUFFICES ASSUME ScanInv, SeekAnchor PROVE ScanInv'
  OBVIOUS
<1> DEFINE n == Len(request.tokens)
<1>1. /\ stage = "anchor" /\ stage' \in {"anchor", "scan"}
      /\ UNCHANGED <<image, request, copied, offset, matches>>
  BY DEF SeekAnchor
<1>2. n \in Nat /\ run \in [index : Nat, start : Nat, length : Nat]
      /\ anchor \in [offset : Nat, length : Nat]
  BY DEF ScanInv, ScanTypeOK, Asked
<1>3. /\ ~request.foreign /\ run.index <= n
      /\ run.length # 0 => run.start + run.length = run.index
      /\ OnlyBytes(run.start, run.length) /\ OnlyBytes(anchor.offset, anchor.length)
  BY <1>1 DEF ScanInv, RunInv, AnchorInv
<1>4. /\ run' \in [index : Nat, start : Nat, length : Nat] /\ anchor' \in [offset : Nat, length : Nat]
      /\ RunInv' /\ AnchorInv'
  <2>1. CASE /\ run.index < n /\ request.tokens[run.index + 1] # Wildcard
             /\ run' = [index  |-> run.index + 1,
                        start  |-> IF run.length = 0 THEN run.index ELSE run.start,
                        length |-> run.length + 1]
             /\ UNCHANGED <<stage, anchor>>
    <3>1. /\ run'.index = run.index + 1 /\ run'.length = run.length + 1
          /\ run'.start = IF run.length = 0 THEN run.index ELSE run.start
      BY <2>1
    <3>2. \A i \in run'.start..run'.start + run'.length - 1 : i < n /\ request.tokens[i + 1] # Wildcard
      <4> TAKE i \in run'.start..run'.start + run'.length - 1
      <4>1. CASE i = run.index
        BY <2>1, <4>1
      <4>2. CASE i # run.index
        <5>1. i \in run.start..run.start + run.length - 1
          BY <1>2, <1>3, <3>1, <4>2
        <5> QED
          BY <1>3, <5>1 DEF OnlyBytes
      <4> QED
        BY <4>1, <4>2
    <3>3. OnlyBytes(run.start, run.length)'
      BY <1>1, <3>2 DEF OnlyBytes
    <3>4. run' \in [index : Nat, start : Nat, length : Nat]
      BY <1>2, <2>1
    <3>5. AnchorInv' /\ anchor' \in [offset : Nat, length : Nat]
      BY <1>1, <1>2, <1>3, <2>1 DEF AnchorInv, OnlyBytes
    <3>6. run'.index <= n /\ run'.start + run'.length = run'.index
      BY <1>2, <1>3, <2>1, <3>1
    <3> QED
      BY <1>1, <1>3, <3>3, <3>4, <3>5, <3>6 DEF RunInv
  <2>2. CASE /\ run' = Break(run)
             /\ anchor' = IF run.length > anchor.length
                          THEN [offset |-> run.start, length |-> run.length] ELSE anchor
             /\ stage' = IF run.index = n THEN "scan" ELSE "anchor"
    <3>1. run' \in [index : Nat, start : Nat, length : Nat] /\ run'.length = 0 /\ run'.index = run.index + 1
      BY <1>2, <2>2 DEF Break
    <3>2. RunInv'
      BY <1>1, <1>2, <1>3, <2>2, <3>1 DEF RunInv, OnlyBytes
    <3>3. AnchorInv' /\ anchor' \in [offset : Nat, length : Nat]
      BY <1>1, <1>2, <1>3, <2>2 DEF AnchorInv, OnlyBytes
    <3> QED
      BY <3>1, <3>2, <3>3
  <2> QED
    BY <2>1, <2>2 DEF SeekAnchor
<1>5. ScanTypeOK'
  BY <1>1, <1>4 DEF ScanInv, ScanTypeOK
<1>6. FoundInv'
  BY <1>1, FoundStays DEF ScanInv
<1>7. CopyInv' /\ FreshInv' /\ DoneInv'
  BY <1>1, <1>3 DEF ScanInv, CopyInv, FreshInv, DoneInv
<1> QED
  BY <1>4, <1>5, <1>6, <1>7 DEF ScanInv

LEMMA ReadRegionKeeps == ScanInv /\ ReadRegion => ScanInv'
<1> SUFFICES ASSUME ScanInv, ReadRegion PROVE ScanInv'
  OBVIOUS
<1>1. stage = "read" /\ UNCHANGED <<image, request, run, anchor, offset, matches>>
  BY DEF ReadRegion
<1>2. ImageSize \div 2 \in Nat \ {0} /\ ImageSize \div 2 < ImageSize /\ ImageSize \in Nat
  BY ImageAssumption, RegionsAssumption
<1>3. /\ request.foreign /\ copied \in {0, ImageSize \div 2}
      /\ copied # 0 => request.unreadable # "first"
      /\ request.unreadable \in {"none", "first", "second"}
  BY <1>1 DEF ScanInv, CopyInv, ScanTypeOK, Asked
<1>4. \/ stage' = "failed" /\ copied' = copied
      \/ /\ copied = 0 /\ request.unreadable # "first" /\ copied' = ImageSize \div 2 /\ stage' = "read"
      \/ /\ copied # 0 /\ request.unreadable # "second" /\ copied' = ImageSize /\ stage' = "scan"
  BY <1>2, <1>3 DEF ReadRegion, RegionEnd
<1>5. ScanTypeOK'
  BY <1>1, <1>2, <1>4 DEF ScanInv, ScanTypeOK
<1>6. FoundInv'
  BY <1>1, FoundStays DEF ScanInv
<1>7. CopyInv'
  BY <1>1, <1>2, <1>3, <1>4 DEF CopyInv
<1>8. RunInv' /\ AnchorInv' /\ FreshInv' /\ DoneInv'
  BY <1>1, <1>4 DEF ScanInv, RunInv, AnchorInv, OnlyBytes, FreshInv, DoneInv
<1> QED
  BY <1>5, <1>6, <1>7, <1>8 DEF ScanInv

\* The next candidate is a place or none.
LEMMA ScanKeeps == ScanInv /\ Scan => ScanInv'
<1> SUFFICES ASSUME ScanInv, Scan PROVE ScanInv'
  OBVIOUS
<1> DEFINE size == Len(request.tokens)
<1>1. stage = "scan" /\ UNCHANGED <<image, request, run, anchor, copied>>
  BY DEF Scan
<1>2. /\ Places' = Places /\ Scope' = Scope /\ \A at : Before(at)' = Before(at)
  BY <1>1, PlacesStay
<1>3. /\ Scope.size \in Nat /\ size \in Nat /\ offset \in Nat /\ matches \in Seq(Nat)
      /\ request.limit \in Nat
  BY ScopeBounds DEF ScanInv, ScanTypeOK, Asked
<1>4. RunInv' /\ AnchorInv' /\ CopyInv' /\ FreshInv'
  <2>1. stage' \in {"scan", "done", "failed"}
    BY <1>1 DEF Scan
  <2> QED
    BY <1>1, <2>1 DEF ScanInv, RunInv, AnchorInv, OnlyBytes, CopyInv, FreshInv
<1>5. CASE stage' = "failed" /\ UNCHANGED <<offset, matches>>
  <2>1. ScanTypeOK'
    BY <1>1, <1>5 DEF ScanInv, ScanTypeOK
  <2>2. FoundInv' /\ DoneInv'
    BY <1>1, <1>5, FoundStays DEF ScanInv, DoneInv
  <2> QED
    BY <1>4, <2>1, <2>2 DEF ScanInv
<1>6. CASE /\ Scope.size # 0 /\ ~(size > Scope.size)
           /\ offset > Scope.size - size \/ Full
           /\ stage' = "done" /\ UNCHANGED <<offset, matches>>
  <2>1. ScanTypeOK'
    BY <1>1, <1>6 DEF ScanInv, ScanTypeOK
  <2>2. FoundInv'
    BY <1>1, <1>6, FoundStays DEF ScanInv
  <2>3. DoneInv'
    <3>1. (Full' <=> Full) /\ Len(request.tokens)' = size
      BY <1>1, <1>6 DEF Full
    <3>2. /\ Scope'.size # 0 /\ Len(request.tokens)' <= Scope'.size
          /\ offset > Scope.size - size => offset' > Scope'.size - Len(request.tokens)'
      BY <1>2, <1>3, <1>6, <3>1
    <3>3. offset' > Scope'.size - Len(request.tokens)' \/ Full'
      BY <1>6, <3>1, <3>2, Zenon
    <3> QED
      BY <3>2, <3>3, Zenon DEF DoneInv
  <2> QED
    BY <1>4, <2>1, <2>2, <2>3 DEF ScanInv
<1>7. CASE /\ ~(size > Scope.size) /\ ~(offset > Scope.size - size) /\ ~Full
           /\ matches' = IF Hits(offset) THEN Append(matches, offset) ELSE matches
           /\ offset' = offset + 1 /\ UNCHANGED stage
  <2>1. ScanTypeOK'
    BY <1>1, <1>3, <1>7 DEF ScanInv, ScanTypeOK
  <2>2. DoneInv'
    BY <1>1, <1>7 DEF DoneInv
  <2>3. Hits(offset) <=> offset \in Places
    <3>1. offset \in 0..Scope.size - size
      BY <1>3, <1>7
    <3> QED
      BY <3>1, HitsPlaces DEF ScanInv
  <2>4. /\ Before(offset + 1) = IF offset \in Places THEN Before(offset) \cup {offset} ELSE Before(offset)
        /\ offset \notin Before(offset) /\ \A p \in Before(offset) : p \in Nat /\ p < offset
    <3>1. Places \subseteq Nat
      BY <1>3 DEF Places
    <3>2. \A p \in Places : p < offset + 1 <=> p < offset \/ p = offset
      BY <1>3, <3>1
    <3>3. Before(offset + 1) = {p \in Places : p < offset \/ p = offset}
      BY <3>2 DEF Before
    <3>4. Before(offset) = {p \in Places : p < offset} /\ ~(offset < offset)
      BY <1>3 DEF Before
    <3> QED
      BY <3>1, <3>3, <3>4
  <2>5. /\ \A i \in 1..Len(matches) : matches[i] \in Before(offset)
        /\ \A place \in Before(offset) : \E i \in 1..Len(matches) : matches[i] = place
        /\ \A i \in 2..Len(matches) : matches[i - 1] < matches[i]
        /\ Len(matches) = Cardinality(Before(offset))
        /\ request.limit # 0 => Len(matches) <= request.limit
    BY DEF ScanInv, FoundInv
  <2>6. CASE offset \in Places
    <3>1. matches' = Append(matches, offset) /\ Before(offset)' = Before(offset) \cup {offset}
      BY <1>2, <1>7, <2>3, <2>4, <2>6
    <3>2. /\ Len(matches') = Len(matches) + 1 /\ matches'[Len(matches) + 1] = offset
          /\ \A i \in 1..Len(matches) : matches'[i] = matches[i]
          /\ Len(matches) \in Nat
      BY <1>3, <3>1
    <3>3. Cardinality(Before(offset)') = Cardinality(Before(offset)) + 1
      BY <1>3, <2>4, <3>1, BeforeFinite, FS_AddElement
    <3>4. request.limit # 0 => Len(matches') <= request.limit
      BY <1>3, <1>7, <3>2 DEF Full
    <3>5. \A i \in 1..Len(matches') : matches'[i] \in Before(offset)'
      BY <2>5, <3>1, <3>2
    <3>6. \A place \in Before(offset)' : \E i \in 1..Len(matches') : matches'[i] = place
      <4> TAKE place \in Before(offset)'
      <4>1. CASE place = offset
        BY <3>2, <4>1
      <4>2. CASE place # offset
        <5>1. PICK i \in 1..Len(matches) : matches[i] = place
          BY <2>5, <3>1, <4>2
        <5> QED
          BY <3>2, <5>1
      <4> QED
        BY <4>1, <4>2
    <3>7. \A i \in 2..Len(matches') : matches'[i - 1] < matches'[i]
      <4> TAKE i \in 2..Len(matches')
      <4>1. CASE i = Len(matches) + 1
        <5>1. i - 1 \in 1..Len(matches) /\ matches[i - 1] \in Before(offset)
          BY <2>5, <3>2, <4>1
        <5> QED
          BY <2>4, <3>2, <4>1, <5>1
      <4>2. CASE i # Len(matches) + 1
        <5>1. i \in 2..Len(matches) /\ i - 1 \in 1..Len(matches) /\ i \in 1..Len(matches)
          BY <3>2, <4>2
        <5> QED
          BY <2>5, <3>2, <5>1
      <4> QED
        BY <4>1, <4>2
    <3>8. FoundInv'
      BY <1>1, <2>5, <3>2, <3>3, <3>4, <3>5, <3>6, <3>7 DEF FoundInv
    <3> QED
      BY <1>4, <2>1, <2>2, <3>8 DEF ScanInv
  <2>7. CASE offset \notin Places
    <3>1. matches' = matches /\ Before(offset)' = Before(offset)
      BY <1>2, <1>7, <2>3, <2>4, <2>7
    <3>2. FoundInv'
      BY <1>1, <2>5, <3>1 DEF FoundInv
    <3> QED
      BY <1>4, <2>1, <2>2, <3>2 DEF ScanInv
  <2> QED
    BY <2>6, <2>7
<1> QED
  BY <1>5, <1>6, <1>7 DEF Scan

LEMMA ScanInvStep == ScanInv /\ [ScanNext]_scanVars => ScanInv'
<1>1. ScanInv /\ UNCHANGED scanVars => ScanInv'
  <2> SUFFICES ASSUME ScanInv, UNCHANGED scanVars PROVE ScanInv'
    OBVIOUS
  <2>1. ScanTypeOK' /\ RunInv' /\ AnchorInv' /\ CopyInv' /\ FreshInv'
    BY DEF ScanInv, scanVars, ScanTypeOK, RunInv, AnchorInv, OnlyBytes, CopyInv, FreshInv
  <2>2. FoundInv' /\ DoneInv'
    BY FoundStays, PlacesStay DEF ScanInv, scanVars, DoneInv, Full
  <2> QED
    BY <2>1, <2>2 DEF ScanInv
<1> QED
  BY <1>1, AskKeeps, AnswerKeeps, CompileKeeps, SeekAnchorKeeps, ReadRegionKeeps, ScanKeeps DEF ScanNext

\* What is found when a scan is done: all the places, or as many as were asked for.
LEMMA DoneScanFound == ScanInv => ScanFindsMatches
<1> SUFFICES ASSUME ScanInv, stage = "done" PROVE ScanFindsMatches!2
  BY DEF ScanFindsMatches
<1> DEFINE size == Len(request.tokens)
<1>1. /\ Scope.size # 0 /\ size <= Scope.size
      /\ offset > Scope.size - size \/ Full
  BY DEF ScanInv, DoneInv
<1>2. /\ Scope.size \in Nat /\ size \in Nat /\ offset \in Nat /\ matches \in Seq(Nat)
      /\ request.limit \in Nat /\ Scope.begin + Scope.size <= ImageSize
  BY <1>1, ScopeBounds DEF ScanInv, ScanTypeOK, Asked
<1>3. /\ \A i \in 1..Len(matches) : matches[i] \in Before(offset)
      /\ \A place \in Before(offset) : \E i \in 1..Len(matches) : matches[i] = place
      /\ \A i \in 2..Len(matches) : matches[i - 1] < matches[i]
      /\ Len(matches) = Cardinality(Before(offset))
      /\ request.limit # 0 => Len(matches) <= request.limit
  BY DEF ScanInv, FoundInv
<1>4. {matches[i] : i \in DOMAIN matches} = Before(offset)
  <2>1. DOMAIN matches = 1..Len(matches)
    BY <1>2
  <2>2. {matches[i] : i \in 1..Len(matches)} = Before(offset)
    BY <1>3, Zenon
  <2> QED
    BY <2>1, <2>2
<1>5. ASSUME NEW at \in Places
      PROVE  at \in Before(offset) <=> request.limit = 0 \/ Cardinality(Before(at)) < request.limit
  <2>1. at \in Nat /\ at <= Scope.size - size /\ (at \in Before(offset) <=> at < offset)
    BY <1>2 DEF Places, Before
  <2>2. Cardinality(Before(at)) \in Nat /\ Cardinality(Before(offset)) \in Nat
    BY <1>2, <2>1, BeforeFinite
  <2>3. CASE at < offset
    <3>1. Cardinality(Before(at)) < Cardinality(Before(offset))
      BY <1>2, <2>1, <2>3, BeforeGrows
    <3> QED
      BY <1>2, <1>3, <2>1, <2>2, <2>3, <3>1
  <2>4. CASE ~(at < offset)
    <3>1. Full
      BY <1>1, <1>2, <2>1, <2>4
    <3>2. request.limit # 0 /\ Cardinality(Before(offset)) >= request.limit
      BY <1>3, <3>1 DEF Full
    <3>3. Cardinality(Before(offset)) <= Cardinality(Before(at))
      BY <1>2, <2>1, <2>4, BeforeGrows
    <3> QED
      BY <1>2, <2>1, <2>2, <2>4, <3>2, <3>3
  <2> QED
    BY <2>3, <2>4
<1>6. Before(offset) = {at \in Places : request.limit = 0 \/ Cardinality(Before(at)) < request.limit}
  <2>1. Before(offset) \subseteq Places
    BY DEF Before
  <2> QED
    BY <1>5, <2>1
<1>7. request.foreign => copied = ImageSize /\ request.unreadable = "none"
  BY DEF ScanInv, CopyInv
<1> QED
  BY <1>2, <1>3, <1>4, <1>6, <1>7

\* A scan that is done has found the first places, in order and as many as were asked
\* for, at which all the pattern's bytes are (ScanFindsMatches), for every image, section,
\* pattern and limit.
THEOREM ScanFindsMatchesCorrect == ScanSpec => []ScanFindsMatches
BY ScanInitInv, ScanInvStep, DoneScanFound, PTL DEF ScanSpec

-----------------------------------------------------------------------------
(* FileOperations *)

Held == Contents \cup {NoFile, Torn}
Operation ==
    [what : {NoFile, "move", "copy", "write", "append"}, from : Paths \cup {NoFile},
     to : Paths \cup {NoFile}, overwrite : BOOLEAN, step : {NoFile, "parent", "first", "rename"}]

FileTypeOK ==
    /\ files \in [Paths -> Held]
    /\ folders \subseteq Paths
    /\ m_folders \in [Names -> Paths \cup {NoFile}]
    /\ operation \in Operation
    /\ result \in {"success", "failure"}
    /\ source \in Held

\* An operation has its paths, and a Move or a Copy what it began with, which is still in
\* the file it came from unless it was a SelfMove.
OperationInv ==
    /\ operation.what # NoFile => operation.to \in Paths
    /\ operation.what \in {"move", "copy"} => operation.from \in Paths
    /\ source # NoFile /\ ~SelfMove => files[operation.from] = source
    /\ operation.what \notin {"move", "copy"} => source = NoFile
    /\ operation.what = NoFile => operation.step = NoFile

FileInv == FileTypeOK /\ OperationInv

LEMMA FileInitInv == FileInit => FileInv
BY DEF FileInit, FileInv, FileTypeOK, OperationInv, NoOperation, Operation, Held, NoFile, Torn

\* An operation goes on or ends.
LEMMA ContinueKeeps ==
    ASSUME FileInv, operation.what # NoFile, NEW step \in {"first", "rename"}, ContinueWith(step),
           files' \in [Paths -> Held], folders' \subseteq Paths, UNCHANGED m_folders,
           operation.what \in {"move", "copy"} /\ ~SelfMove =>
              files'[operation.from] = files[operation.from]
    PROVE  FileInv' /\ operation' # NoOperation
<1>1. operation' = [operation EXCEPT !.step = step] /\ UNCHANGED <<result, source>>
  BY DEF ContinueWith
<1>2. /\ operation' \in Operation /\ operation'.what = operation.what
      /\ operation'.from = operation.from /\ operation'.to = operation.to
      /\ operation'.overwrite = operation.overwrite
  BY <1>1 DEF FileInv, FileTypeOK, Operation
<1>3. operation' # NoOperation
  BY <1>2 DEF NoOperation
<1>4. SelfMove' <=> SelfMove
  BY <1>2 DEF SelfMove
<1> QED
  BY <1>1, <1>2, <1>3, <1>4 DEF FileInv, FileTypeOK, OperationInv

LEMMA FinishKeeps ==
    ASSUME FileInv, NEW outcome \in {"success", "failure"}, FinishWith(outcome),
           files' \in [Paths -> Held], folders' \subseteq Paths, UNCHANGED m_folders
    PROVE  FileInv'
BY DEF FinishWith, FileInv, FileTypeOK, OperationInv, NoOperation, Operation, Held, NoFile, Torn

\* What works on no file of an operation.
LEMMA IdleKeeps ==
    ASSUME FileInv, operation.what = NoFile, files' \in [Paths -> Held], folders' \subseteq Paths,
           m_folders' \in [Names -> Paths \cup {NoFile}], result' \in {"success", "failure"},
           UNCHANGED <<operation, source>>
    PROVE  FileInv'
BY DEF FileInv, FileTypeOK, OperationInv, NoFile

LEMMA StartKeeps ==
    ASSUME FileInv, NEW what \in {"move", "copy", "write", "append"},
           NEW from \in Paths \cup {NoFile}, NEW to \in Paths, NEW overwrite \in BOOLEAN,
           what \in {"move", "copy"} => from \in Paths,
           what \notin {"move", "copy"} => from = NoFile,
           StartOperation(what, from, to, overwrite)
    PROVE  FileInv'
<1>1. operation' \in Operation
  BY DEF StartOperation, Operation, NoFile
<1> QED
  BY <1>1 DEF StartOperation, FileInv, FileTypeOK, OperationInv, NoFile, Held

\* One step of a file operation keeps the invariant; of a Move or a Copy it leaves what it
\* works on in one of its two files.
LEMMA FileStep ==
    ASSUME FileInv, FileNext
    PROVE  /\ FileInv'
           /\ source # NoFile /\ ~SelfMove =>
                 IF operation' = NoOperation /\ result' = "success"
                 THEN files'[operation.to] = source
                 ELSE files'[operation.from] = source
<1> DEFINE Ended == operation' = NoOperation /\ result' = "success"
           Kept  == source # NoFile /\ ~SelfMove =>
                        IF Ended THEN files'[operation.to] = source
                                 ELSE files'[operation.from] = source
<1>1. /\ files \in [Paths -> Held] /\ folders \subseteq Paths /\ operation \in Operation
      /\ m_folders \in [Names -> Paths \cup {NoFile}] /\ result \in {"success", "failure"}
  BY DEF FileInv, FileTypeOK
<1>2. operation.what # NoFile => operation.to \in Paths
  BY DEF FileInv, OperationInv
<1>3. /\ operation.what \in {"move", "copy"} => operation.from \in Paths
      /\ source # NoFile /\ ~SelfMove => files[operation.from] = source
  BY DEF FileInv, OperationInv
<1>4. operation.what \notin {"move", "copy"} => source = NoFile
  BY DEF FileInv, OperationInv
<1>5. files' = files /\ ~Ended => Kept
  BY <1>3, <1>4
<1>6. operation.what \notin {"move", "copy"} => Kept
  BY <1>4
<1>7. ASSUME NEW what, NEW from, NEW to, NEW overwrite, StartOperation(what, from, to, overwrite)
      PROVE  Kept
  BY <1>4, <1>7 DEF StartOperation, NoFile
<1>8. ASSUME NEW from \in Paths, NEW to \in Paths, NEW overwrite \in BOOLEAN,
             \/ StartOperation("move", from, to, overwrite)
             \/ StartOperation("copy", from, to, overwrite)
      PROVE  FileInv' /\ Kept
  BY <1>7, <1>8, StartKeeps
<1>9. ASSUME NEW to \in Paths,
             StartOperation("write", NoFile, to, TRUE) \/ StartOperation("append", NoFile, to, TRUE)
      PROVE  FileInv' /\ Kept
  BY <1>7, <1>9, StartKeeps
<1>10. ASSUME EnsureParent PROVE FileInv' /\ Kept
  <2>1. operation.what # NoFile /\ operation.to \in Paths /\ files' = files /\ m_folders' = m_folders
    BY <1>2, <1>10 DEF EnsureParent, FileInv, OperationInv, NoFile
  <2>2. folders' \subseteq Paths /\ (ContinueWith("first") \/ FinishWith("failure"))
    BY <1>1, <1>10, <2>1 DEF EnsureParent
  <2>3. FileInv' /\ ~Ended
    BY <1>1, <2>1, <2>2, ContinueKeeps, FinishKeeps DEF FinishWith
  <2> QED
    BY <1>5, <2>1, <2>3
<1>11. ASSUME MoveRemove PROVE FileInv' /\ Kept
  <2>1. operation.what = "move" /\ operation.what # NoFile /\ operation.to \in Paths
        /\ UNCHANGED <<folders, m_folders>>
    BY <1>2, <1>11 DEF MoveRemove, NoFile
  <2>2. CASE /\ operation.overwrite
             /\ files' = [files EXCEPT ![operation.to] = NoFile] /\ ContinueWith("rename")
    <3>1. files' \in [Paths -> Held]
      BY <1>1, <2>1, <2>2 DEF Held
    <3>2. ~SelfMove => files'[operation.from] = files[operation.from]
      BY <1>1, <1>3, <2>1, <2>2 DEF SelfMove
    <3>3. FileInv' /\ ~Ended
      BY <1>1, <2>1, <2>2, <3>1, <3>2, ContinueKeeps
    <3> QED
      BY <1>3, <2>1, <3>2, <3>3
  <2>3. CASE files' = files /\ ContinueWith("rename")
    BY <1>1, <1>5, <2>1, <2>3, ContinueKeeps
  <2>4. CASE files' = files /\ FinishWith("failure")
    BY <1>1, <1>5, <2>1, <2>4, FinishKeeps DEF FinishWith
  <2> QED
    BY <1>11, <2>2, <2>3, <2>4 DEF MoveRemove
<1>12. ASSUME MoveRename PROVE FileInv' /\ Kept
  <2>1. operation.what = "move" /\ operation.to \in Paths /\ UNCHANGED <<folders, m_folders>>
    BY <1>2, <1>12 DEF MoveRename, NoFile
  <2>2. CASE /\ files' = [files EXCEPT ![operation.from] = NoFile, ![operation.to] = files[operation.from]]
             /\ FinishWith("success")
    <3>1. files' \in [Paths -> Held] /\ files'[operation.to] = files[operation.from]
      BY <1>1, <1>3, <2>1, <2>2 DEF Held
    <3> QED
      BY <1>1, <1>3, <2>1, <2>2, <3>1, FinishKeeps DEF FinishWith
  <2>3. CASE files' = files /\ FinishWith("failure")
    BY <1>1, <1>5, <2>1, <2>3, FinishKeeps DEF FinishWith
  <2> QED
    BY <1>12, <2>2, <2>3 DEF MoveRename, Rename
<1>13. ASSUME Copy PROVE FileInv' /\ Kept
  <2>1. operation.what = "copy" /\ operation.to \in Paths /\ UNCHANGED <<folders, m_folders>>
    BY <1>2, <1>13 DEF Copy, NoFile
  <2>2. CASE files' = files /\ FinishWith("failure")
    BY <1>1, <1>5, <2>1, <2>2, FinishKeeps DEF FinishWith
  <2>3. CASE /\ operation.from # operation.to
             /\ files' = [files EXCEPT ![operation.to] = files[operation.from]]
             /\ FinishWith("success")
    <3>1. files' \in [Paths -> Held] /\ files'[operation.to] = files[operation.from]
      BY <1>1, <1>3, <2>1, <2>3
    <3> QED
      BY <1>1, <1>3, <2>1, <2>3, <3>1, FinishKeeps DEF FinishWith
  <2>4. CASE /\ operation.from # operation.to
             /\ files' = [files EXCEPT ![operation.to] = Torn]
             /\ FinishWith("failure")
    <3>1. files' \in [Paths -> Held] /\ files'[operation.from] = files[operation.from]
      BY <1>1, <1>3, <2>1, <2>4 DEF Held
    <3> QED
      BY <1>1, <1>3, <2>1, <2>4, <3>1, FinishKeeps DEF FinishWith
  <2> QED
    BY <1>13, <2>2, <2>3, <2>4 DEF Copy, CopyFile
<1>14. ASSUME Write \/ AppendText PROVE FileInv' /\ Kept
  <2>1. /\ operation.what \in {"write", "append"} /\ operation.to \in Paths
        /\ UNCHANGED <<folders, m_folders>>
    BY <1>2, <1>14 DEF Write, AppendText, NoFile
  <2>2. PICK c \in Held : WriteStream(operation.to, c)
    BY <1>14 DEF Write, AppendText, Held
  <2>3. \E outcome \in {"success", "failure"} : FinishWith(outcome)
    BY <2>2 DEF WriteStream
  <2>4. files' \in [Paths -> Held]
    BY <1>1, <2>1, <2>2 DEF WriteStream, Held
  <2>5. FileInv'
    BY <1>1, <2>1, <2>3, <2>4, FinishKeeps
  <2> QED
    BY <1>6, <2>1, <2>5
<1>15. ASSUME NEW path \in Paths, RemoveFile(path) \/ Create(path) PROVE FileInv' /\ Kept
  <2>1. /\ operation.what = NoFile /\ files' \in [Paths -> Held] /\ folders' \subseteq Paths
        /\ m_folders' = m_folders /\ result' \in {"success", "failure"}
        /\ UNCHANGED <<operation, source>>
    BY <1>1, <1>15 DEF RemoveFile, Create, CreateFolder, Held
  <2> QED
    BY <1>1, <1>6, <2>1, IdleKeeps DEF NoFile
<1>16. ASSUME NEW name \in Names, NEW path \in Paths, NEW create \in BOOLEAN,
              RegisterFolder(name, path, create)
       PROVE  FileInv' /\ Kept
  <2>1. /\ operation.what = NoFile /\ files' = files /\ folders' = folders
        /\ m_folders' \in [Names -> Paths \cup {NoFile}] /\ result' \in {"success", "failure"}
        /\ UNCHANGED <<operation, source>>
    BY <1>1, <1>16 DEF RegisterFolder, EnsureFolder
  <2> QED
    BY <1>1, <1>6, <2>1, IdleKeeps DEF NoFile
<1>17. ASSUME EnsureRegisteredFolders PROVE FileInv' /\ Kept
  <2>1. /\ operation.what = NoFile /\ files' = files /\ folders' = folders /\ m_folders' = m_folders
        /\ result' \in {"success", "failure"} /\ UNCHANGED <<operation, source>>
    BY <1>17 DEF EnsureRegisteredFolders
  <2> QED
    BY <1>1, <1>6, <2>1, IdleKeeps DEF NoFile
<1> HIDE DEF Kept
<1>18. FileInv' /\ Kept
  BY <1>8, <1>9, <1>10, <1>11, <1>12, <1>13, <1>14, <1>15, <1>16, <1>17 DEF FileNext
<1> QED
  BY <1>18 DEF Kept

LEMMA FileInvStep == FileInv /\ [FileNext]_fileVars => FileInv'
<1>1. FileInv /\ UNCHANGED fileVars => FileInv'
  BY DEF FileInv, FileTypeOK, OperationInv, SelfMove, fileVars
<1> QED
  BY <1>1, FileStep

\* Whatever call of a Move or a Copy of File_System_Manager fails, and wherever the process
\* dies in one, what it works on stays in the file it came from until the call reports
\* success (MoveKeepsContent), for any files, folders and contents: all calls but an
\* overwriting Move of a file to its own path.
THEOREM MoveKeepsContentCorrect == FileSpec => MoveKeepsContent
<1>1. FileInv /\ [FileNext]_fileVars =>
        [source # NoFile /\ ~SelfMove =>
            IF operation' = NoOperation /\ result' = "success"
            THEN files'[operation.to] = source
            ELSE files'[operation.from] = source]_fileVars
  BY FileStep
<1> QED
  BY <1>1, FileInitInv, FileInvStep, PTL DEF FileSpec, MoveKeepsContent
=============================================================================
