-------------------------- MODULE MemoryAccounting --------------------------
(***************************************************************************)
(* Memory_Manager: the allocations that clients register, and the counters *)
(* kept beside them.                                                       *)
(*                                                                         *)
(* A client looks whether tracking is on, and takes an allocation id,      *)
(* before it has m_mutex; what it does under the lock is one step.         *)
(* Initialize may empty the books between the two.  Memory freed without a *)
(* call is given out and registered again, under another size and tag.     *)
(* The states of the service are left out: nothing reads them but Start,   *)
(* for a Failed that nothing sets.                                         *)
(***************************************************************************)
EXTENDS Integers, FiniteSets

CONSTANTS
    Addresses, Sizes, Tags, Clients,
    MaxAllocations   \* bound on the ids taken between two resets

ASSUME SizesAssumption == Sizes \subseteq Nat \ {0}

VARIABLES
    m_trackingEnabled,
    m_allocations,     \* the record of each address; a size of 0 is none
    m_tagStatistics,
    m_counters,        \* the atomics, which have no lock
    m_nextAllocationId,
    clientAt, registering   \* of each client: where it is, and its record

memoryVars == <<m_trackingEnabled, m_allocations, m_tagStatistics,
                m_counters, m_nextAllocationId, clientAt, registering>>
bookVars == <<m_allocations, m_tagStatistics, m_counters>>

Record(address, size, tag, id) == [address |-> address, size |-> size, tag |-> tag, id |-> id]
NoRecord == Record("none", 0, "none", 0)
NoStatistics == [allocations |-> 0, deallocations |-> 0, inUse |-> 0, peak |-> 0, bytes |-> 0]
NoCounters == [active |-> 0, allocations |-> 0, deallocations |-> 0,
               inUse |-> 0, peak |-> 0, bytes |-> 0]

EmptyBooks ==
    /\ m_allocations' = [a \in Addresses |-> NoRecord]
    /\ m_tagStatistics' = [t \in Tags |-> NoStatistics]
    /\ m_counters' = NoCounters

MemoryInit ==
    /\ m_trackingEnabled = TRUE
    /\ m_allocations = [a \in Addresses |-> NoRecord]
    /\ m_tagStatistics = [t \in Tags |-> NoStatistics]
    /\ m_counters = NoCounters
    /\ m_nextAllocationId = 0
    /\ clientAt = [c \in Clients |-> "idle"]
    /\ registering = [c \in Clients |-> NoRecord]

Larger(a, b) == IF a >= b THEN a ELSE b
Less(a, b)   == IF a >= b THEN a - b ELSE 0

-----------------------------------------------------------------------------
(* The service.                                                            *)

\* Also what Initialize does to the books.
ResetStatistics ==
    /\ EmptyBooks
    /\ m_nextAllocationId' = 0
    /\ UNCHANGED <<m_trackingEnabled, clientAt, registering>>

SetTrackingEnabled ==
    /\ m_trackingEnabled' = ~m_trackingEnabled
    /\ UNCHANGED <<bookVars, m_nextAllocationId, clientAt, registering>>

-----------------------------------------------------------------------------
(* Registration.                                                           *)

Begin(client, place, record) ==
    /\ clientAt[client] = "idle" /\ m_trackingEnabled
    /\ clientAt' = [clientAt EXCEPT ![client] = place]
    /\ registering' = [registering EXCEPT ![client] = record]
    /\ UNCHANGED <<m_trackingEnabled, bookVars>>

BeginAllocation(client, a, size, tag) ==
    /\ m_nextAllocationId < MaxAllocations
    /\ m_nextAllocationId' = m_nextAllocationId + 1
    /\ Begin(client, "allocation", Record(a, size, tag, m_nextAllocationId + 1))

BeginDeallocation(client, a) ==
    /\ Begin(client, "deallocation", Record(a, 0, "none", 0))
    /\ UNCHANGED m_nextAllocationId

Return(client) ==
    /\ clientAt' = [clientAt EXCEPT ![client] = "idle"]
    /\ registering' = [registering EXCEPT ![client] = NoRecord]
    /\ UNCHANGED <<m_trackingEnabled, m_nextAllocationId>>

\* A tag's statistics with one more allocation, and with one allocation freed.
Allocated(s, size) ==
    [allocations |-> s.allocations + 1, deallocations |-> s.deallocations, inUse |-> s.inUse + size,
     peak |-> Larger(s.peak, s.inUse + size), bytes |-> s.bytes + size]
Freed(s, size) ==
    [allocations |-> s.allocations, deallocations |-> s.deallocations + 1,
     inUse |-> Less(s.inUse, size), peak |-> s.peak, bytes |-> s.bytes]

\* Mutant: the tag of the record that is replaced keeps its bytes.
KeepReplaced(old) == m_tagStatistics

\* The statistics without the bytes of the record that is replaced.
WithoutReplaced(old) ==
    IF old.size = 0 THEN m_tagStatistics
    ELSE [m_tagStatistics EXCEPT ![old.tag].inUse = Less(@, old.size)]

RegisterAllocation(client) ==
    LET new   == registering[client]
        old   == m_allocations[new.address]
        stats == WithoutReplaced(old)
        inUse == m_counters.inUse - old.size + new.size
    IN  /\ clientAt[client] = "allocation"
        /\ m_allocations' = [m_allocations EXCEPT ![new.address] = new]
        /\ m_counters' = [m_counters EXCEPT
                !.active = IF old.size = 0 THEN @ + 1 ELSE @,
                !.allocations = @ + 1,
                !.inUse = inUse,
                !.peak = Larger(@, inUse),
                !.bytes = @ + new.size]
        /\ m_tagStatistics' = [stats EXCEPT ![new.tag] = Allocated(@, new.size)]
        /\ Return(client)

\* Of an address that is not registered nothing is written.
RegisterDeallocation(client) ==
    LET old == m_allocations[registering[client].address] IN
    /\ clientAt[client] = "deallocation"
    /\ IF old.size = 0 THEN UNCHANGED bookVars
       ELSE /\ m_allocations' = [m_allocations EXCEPT ![old.address] = NoRecord]
            /\ m_counters' = [m_counters EXCEPT
                    !.active = @ - 1, !.deallocations = @ + 1, !.inUse = @ - old.size]
            /\ m_tagStatistics' = [m_tagStatistics EXCEPT ![old.tag] = Freed(@, old.size)]
    /\ Return(client)

MemoryNext ==
    \/ ResetStatistics \/ SetTrackingEnabled
    \/ \E c \in Clients :
        \/ \E a \in Addresses, s \in Sizes, t \in Tags : BeginAllocation(c, a, s, t)
        \/ \E a \in Addresses : BeginDeallocation(c, a)
        \/ RegisterAllocation(c) \/ RegisterDeallocation(c)

MemorySpec == MemoryInit /\ [][MemoryNext]_memoryVars

-----------------------------------------------------------------------------
\* What FindLeaks would list.
Active == {a \in Addresses : m_allocations[a].size # 0}
BytesOf(addresses) == Cardinality(UNION {{a} \X (1..m_allocations[a].size) : a \in addresses})

\* The counters agree with the records whenever no client holds the lock: the bytes in
\* use, in all and of each tag, are those of the allocations that FindLeaks would list,
\* no peak is below what is in use, and the clamp that keeps a tag's bytes from wrapping
\* never hides a difference.  The calls that overlap an Initialize, that replace a record
\* or come after tracking was off for a while must keep both sides in step.
CountersAgree ==
    /\ m_counters.active = Cardinality(Active)
    /\ m_counters.inUse = BytesOf(Active)
    /\ m_counters.peak >= m_counters.inUse
    /\ m_counters.allocations >= m_counters.active + m_counters.deallocations
    /\ \A t \in Tags :
        LET stats == m_tagStatistics[t] IN
        /\ stats.inUse = BytesOf({a \in Active : m_allocations[a].tag = t})
        /\ stats.peak >= stats.inUse /\ stats.peak <= m_counters.peak

=============================================================================
