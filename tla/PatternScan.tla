---------------------------- MODULE PatternScan -----------------------------
(***************************************************************************)
(* One scan of a module's image for a pattern of bytes and wildcards, by   *)
(* Pattern_Scanner over a section of the own process, or by                *)
(* Process_Pattern_Scanner over a copy of the image.                       *)
(*                                                                         *)
(* Offsets into the image count from 0.  The image is two regions of       *)
(* memory, each readable or not, and has the sections of its headers.      *)
(***************************************************************************)
EXTENDS Integers, Sequences, FiniteSets

CONSTANTS
    Bytes,
    ImageSize,
    MaxTokens,
    MaxMatches,    \* the greatest number of results that a client asks for
    Sections       \* of the image, as its headers give them

ASSUME ImageAssumption == ImageSize \in Nat /\ MaxTokens \in Nat /\ MaxMatches \in Nat
ASSUME RegionsAssumption == ImageSize >= 2
ASSUME SectionsAssumption == Sections \subseteq [address : Nat, virtual : Nat, raw : Nat]

Wildcard == -1
Malformed == -2
Offsets == 0..ImageSize - 1

VARIABLES
    stage,     \* "idle", "compile", "anchor", "read", "scan", "done" or "failed"
    image,     \* the bytes of the module
    request,   \* the scanner, its pattern, its section, the number of results
    run,       \* of bytes, in the loop that looks for the anchor
    anchor,    \* of the compiled pattern
    copied,    \* how many bytes of the image were copied
    offset,    \* the next candidate
    matches

scanVars == <<stage, image, request, run, anchor, copied, offset, matches>>

Patterns == UNION {[1..n -> Bytes \union {Wildcard, Malformed}] : n \in 0..MaxTokens}

NoSection == [address |-> 0, virtual |-> 0, raw |-> 0]

\* A scan of a section; a scan of another process, of which a region may be unreadable.
Requests ==
    LET Of(sections, foreign, regions) ==
            [tokens : Patterns, section : sections, limit : 0..MaxMatches,
             foreign : {foreign}, unreadable : regions]
    IN  Of(Sections, FALSE, {"none"}) \union Of({NoSection}, TRUE, {"none", "first", "second"})

NoRun == [index |-> 0, start |-> 0, length |-> 0]
NoAnchor == [offset |-> 0, length |-> 0]
Idle == [tokens |-> << >>, section |-> NoSection, limit |-> 0,
         foreign |-> FALSE, unreadable |-> "none"]

ScanInit ==
    /\ stage = "idle"
    /\ image \in [Offsets -> Bytes]
    /\ request = Idle
    /\ run = NoRun
    /\ anchor = NoAnchor
    /\ copied = 0
    /\ offset = 0
    /\ matches = << >>

-----------------------------------------------------------------------------
(* Pattern.                                                                *)

\* Pattern::Compile and Process_Pattern::Parse; only the first looks for an anchor.
Compile ==
    LET tokens == request.tokens IN
    /\ stage = "compile"
    /\ stage' = IF tokens = << >> \/ \E i \in DOMAIN tokens : tokens[i] = Malformed THEN "failed"
                ELSE IF request.foreign THEN "read" ELSE "anchor"
    /\ UNCHANGED <<image, request, run, anchor, copied, offset, matches>>

\* Mutant: the length of a run goes on over a wildcard.
GoOn(r) == [r EXCEPT !.index = @ + 1]

\* The run ends before the token at hand.
Break(r) == [index |-> r.index + 1, start |-> r.start, length |-> 0]

\* One round of the loop that looks for the first one of the longest runs of bytes, up to
\* the one behind the last token.
SeekAnchor ==
    /\ stage = "anchor"
    /\ \/ /\ run.index < Len(request.tokens) /\ request.tokens[run.index + 1] # Wildcard
          /\ run' = [index  |-> run.index + 1,
                     start  |-> IF run.length = 0 THEN run.index ELSE run.start,
                     length |-> run.length + 1]
          /\ UNCHANGED <<stage, anchor>>
       \/ /\ run.index < Len(request.tokens) => request.tokens[run.index + 1] = Wildcard
          /\ run' = Break(run)
          /\ anchor' = IF run.length > anchor.length
                       THEN [offset |-> run.start, length |-> run.length] ELSE anchor
          /\ stage' = IF run.index = Len(request.tokens) THEN "scan" ELSE "anchor"
    /\ UNCHANGED <<image, request, copied, offset, matches>>

-----------------------------------------------------------------------------
(* The range to scan, and Process_Memory_Reader.                           *)

Least(a, b) == IF a <= b THEN a ELSE b
Greatest(a, b) == IF a >= b THEN a ELSE b

\* Module_Manager::Inspect bounds a section by the image.
SectionRange(section) ==
    [begin |-> section.address,
     size  |-> IF section.address >= ImageSize THEN 0
               ELSE Least(Greatest(section.virtual, section.raw), ImageSize - section.address)]

Scope == IF request.foreign THEN [begin |-> 0, size |-> ImageSize] ELSE SectionRange(request.section)

RegionEnd(at) == IF at < ImageSize \div 2 THEN ImageSize \div 2 ELSE ImageSize

\* ReadLocalMemory copies as much as the region at hand has.
ReadRegion ==
    LET region == IF copied < ImageSize \div 2 THEN "first" ELSE "second" IN
    /\ stage = "read"
    /\ IF Len(request.tokens) > ImageSize \/ request.unreadable = region
       THEN stage' = "failed" /\ UNCHANGED copied
       ELSE /\ copied' = RegionEnd(copied)
            /\ stage' = IF RegionEnd(copied) = ImageSize THEN "scan" ELSE "read"
    /\ UNCHANGED <<image, request, run, anchor, offset, matches>>

-----------------------------------------------------------------------------
(* The scanners.                                                           *)

ByteAt(i) == image[Scope.begin + i]

\* The bytes of the anchor first, then all of them.
Hits(at) ==
    LET is(i) == request.tokens[i + 1] = ByteAt(at + i) IN
    /\ \A i \in anchor.offset..anchor.offset + anchor.length - 1 : is(i)
    /\ \A i \in 0..Len(request.tokens) - 1 : request.tokens[i + 1] = Wildcard \/ is(i)

\* Own scans take 0 for no limit, those of another process refuse it.
Full == IF request.limit = 0 THEN FALSE ELSE Len(matches) >= request.limit

Scan ==
    LET size == Len(request.tokens) IN
    /\ stage = "scan"
    /\ IF Scope.size = 0 \/ size > Scope.size \/ (request.foreign /\ request.limit = 0)
       THEN stage' = "failed" /\ UNCHANGED <<offset, matches>>
       ELSE IF offset > Scope.size - size \/ Full
       THEN stage' = "done" /\ UNCHANGED <<offset, matches>>
       ELSE /\ matches' = IF Hits(offset) THEN Append(matches, offset) ELSE matches
            /\ offset' = offset + 1
            /\ UNCHANGED stage
    /\ UNCHANGED <<image, request, run, anchor, copied>>

Ask ==
    /\ stage = "idle"
    /\ request' \in Requests
    /\ stage' = "compile"
    /\ UNCHANGED <<image, run, anchor, copied, offset, matches>>

Answer ==
    /\ stage \in {"done", "failed"}
    /\ stage' = "idle" /\ request' = Idle /\ run' = NoRun /\ anchor' = NoAnchor
    /\ copied' = 0 /\ offset' = 0 /\ matches' = << >>
    /\ UNCHANGED image

ScanNext == Ask \/ Compile \/ SeekAnchor \/ ReadRegion \/ Scan \/ Answer

ScanSpec == ScanInit /\ [][ScanNext]_scanVars

-----------------------------------------------------------------------------
\* Where all the pattern's bytes are.
Places ==
    {at \in 0..Scope.size - Len(request.tokens) :
        \A i \in 1..Len(request.tokens) : request.tokens[i] \in {Wildcard, ByteAt(at + i - 1)}}
Before(at) == {place \in Places : place < at}

\* A scan that is done has found the first places, in order and as many as were asked
\* for, at which all the pattern's bytes are and which lie wholly in the section, or in
\* the image that was read as a whole.  The anchor, which is compared first, must not
\* rule out a place; a section whose header goes beyond the image is cut.
ScanFindsMatches ==
    stage = "done" =>
        /\ {matches[i] : i \in DOMAIN matches} =
              {at \in Places : request.limit = 0 \/ Cardinality(Before(at)) < request.limit}
        /\ \A i \in 2..Len(matches) : matches[i - 1] < matches[i]
        /\ Scope.begin + Scope.size <= ImageSize
        /\ request.foreign => copied = ImageSize /\ request.unreadable = "none"
=============================================================================
