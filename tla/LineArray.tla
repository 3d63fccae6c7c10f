------------------------------ MODULE LineArray -----------------------------
(***************************************************************************)
(* The line table of a chunk (src/lineArray.c): one range for every run of *)
(* bytes of one source line, and where it ends.  The compiler writes bytes *)
(* and takes the last ones back (chunk_fallback) as it optimises.          *)
(***************************************************************************)
EXTENDS Integers, SequencesExt

CONSTANTS
  MaxLine,      (* Bound: lines of the source.                            *)
  MaxBytes,     (* Bound: bytes of the chunk.                             *)
  MaxFallback   (* The most bytes that are taken back at once.            *)

LineAssumption == {MaxLine, MaxBytes, MaxFallback} \subseteq Nat \ {0}

VARIABLES
  ranges,       (* array->ranges up to array->index.                      *)
  source,       (* The line of each byte of the chunk, which has no table.*)
  line,         (* parser.previous.line                                   *)
  removed       (* The lines of bytes that were taken back, at the place  *)
                (* that is written next.                                  *)

vars == <<ranges, source, line, removed>>

Count == Len(source)    (* chunk->count *)

(* lineArray_write, at offset chunk->count. *)
LineArrayWrite(array, l, offset) ==
  IF array # <<>> /\ Last(array).line = l
    THEN [array EXCEPT ![Len(array)].offset = offset]
    ELSE Append(array, [line |-> l, offset |-> offset])

(* Mutant: the ranges of bytes that are gone stay. *)
LineArrayFallbackLast(array, target) ==
  IF target < Last(array).offset THEN [array EXCEPT ![Len(array)].offset = target]
  ELSE array

(* lineArray_fallback: the ranges from the first that reaches the target.  *)
LineArrayFallback(array, target) ==
  LET index == 1 + Cardinality({i \in 1 .. Len(array) - 1 : array[i].offset <= target})
  IN IF target < Last(array).offset
       THEN [SubSeq(array, 1, index) EXCEPT ![index].offset = target]
       ELSE array

(* getLine: a binary search; two ranges may end at one byte. *)
GetLine(array, offset) ==
  LET Search[bounds \in (1 .. Len(array)) \X (1 .. Len(array))] ==
        LET low == bounds[1]
            high == bounds[2]
            mid == low + (high - low) \div 2
        IN IF low >= high THEN array[low].line
           ELSE IF offset > array[mid].offset THEN Search[<<mid + 1, high>>]
           ELSE IF offset < array[mid].offset THEN Search[<<low, mid>>]
           ELSE array[mid].line
  IN Search[<<1, Len(array)>>]

-----------------------------------------------------------------------------
Init == ranges = <<>> /\ source = <<>> /\ line = 1 /\ removed = <<>>

(* chunk_write *)
ChunkWrite ==
  /\ Count < MaxBytes
  /\ \E l \in line .. MaxLine :
       /\ line' = l
       /\ ranges' = LineArrayWrite(ranges, l, Count)
       /\ source' = Append(source, l)
       /\ removed' = IF Count < Len(removed) THEN removed ELSE Append(removed, {})

(* chunk_fallback *)
ChunkFallback ==
  /\ \E n \in 1 .. MaxFallback :
       LET target == Count - n
       IN /\ target >= 0
          /\ ranges' = LineArrayFallback(ranges, target)
          /\ source' = SubSeq(source, 1, target)
          /\ removed' = Append(SubSeq(removed, 1, target),
                               (UNION {removed[i] : i \in target + 1 .. Len(removed)})
                                 \cup {source[i] : i \in target + 1 .. Count})
  /\ UNCHANGED line

Next == ChunkWrite \/ ChunkFallback

Spec == Init /\ [][Next]_vars

-----------------------------------------------------------------------------
(* Every byte has the line it was written for, whatever was taken back and *)
(* written again, but for one case: the first byte that is written after a *)
(* fallback may have the line of a byte that was taken back.               *)
LinesAreRight ==
  \A i \in 1 .. Count :
    GetLine(ranges, i - 1) \in {source[i]} \cup removed[i]

=============================================================================
