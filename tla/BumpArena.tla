------------------------------ MODULE BumpArena -----------------------------
(***************************************************************************)
(* The two reservations of address space whose pages are committed when    *)
(* they are first needed (arena_bump.c): the value stack, on which         *)
(* stack_push looks only at stackBoundary, and the strings, which are      *)
(* appended and never given back.  Units are values and 8-byte words.      *)
(***************************************************************************)
EXTENDS Integers

CONSTANTS
  Page,         (* arena->page                                            *)
  CommitChunk,  (* arena->commitChunkSize                                 *)
  StackSize,    (* STACK_ARENA_SIZE                                       *)
  StringSize,   (* STRING_ARENA_SIZE                                      *)
  Length        (* The sizes of strings.                                  *)

BumpAssumption ==
  /\ Page \in Nat \ {0} /\ Length \subseteq Nat \ {0}
  /\ CommitChunk \in Nat \ {0} /\ StackSize \in Nat /\ StringSize \in Nat
  /\ CommitChunk < StackSize

VARIABLES
  stackTop,     (* vm.stackTop - vm.stack                                 *)
  stackBoundary,        (* vm.stackBoundary - vm.stack                    *)
  stackCommit,  (* vm.stackArena.commitTop                                *)
  stackWritten, (* The slots that were ever written end here.             *)
  overflowed,   (* stack_push has reported an overflow: why.              *)
  stringCommit, (* vm.stringArena.commitTop                               *)
  stringTop,    (* vm.stringArena.liveTop                                 *)
  exited        (* A string was refused, and the program has ended.       *)

stackVars == <<stackTop, stackBoundary, stackCommit, stackWritten, overflowed>>
vars == <<stackTop, stackBoundary, stackCommit, stackWritten, overflowed,
          stringCommit, stringTop, exited>>

-----------------------------------------------------------------------------
AlignUp(x) == ((x + Page - 1) \div Page) * Page
AtMost(x, y) == IF x < y THEN x ELSE y
AtLeast(x, y) == IF x > y THEN x ELSE y

(* arenaBumpEnsure: where the committed pages end when it succeeds; at     *)
(* least a chunk is committed when anything is.                            *)
Committed(commitTop, capacity, end) ==
  IF AlignUp(end) <= commitTop THEN commitTop
  ELSE AtMost(AtLeast(commitTop + CommitChunk, AlignUp(end)), capacity)

(* vm_init *)
Init ==
  /\ stackTop = 0 /\ stackWritten = 0 /\ overflowed = "no"
  /\ stackCommit = Committed(0, StackSize, CommitChunk)
  /\ stackBoundary = stackCommit
  /\ stringCommit = 0 /\ stringTop = 0 /\ exited = FALSE

StackReset == stackTop' = 0

(* stack_push.  ok: the pages can be had.  *)
Written == stackWritten' = AtLeast(stackWritten, stackTop + 1)

PushInside ==
  /\ stackTop + 1 # stackBoundary
  /\ stackTop' = stackTop + 1 /\ Written
  /\ overflowed' = "no"
  /\ UNCHANGED <<stackBoundary, stackCommit>>

(* Mutant: the end of the committed pages is taken for the end of all.     *)
PushLastAnywhere ==
  /\ stackTop + 1 = stackBoundary
  /\ Written /\ StackReset
  /\ overflowed' = "full"
  /\ UNCHANGED <<stackBoundary, stackCommit>>

PushLast ==
  /\ stackTop + 1 = stackBoundary /\ stackBoundary >= StackSize
  /\ Written /\ StackReset
  /\ overflowed' = "full"
  /\ UNCHANGED <<stackBoundary, stackCommit>>

(* Mutant: the pages up to the top are asked for, which are there.         *)
PushCommitNone(ok) ==
  /\ stackTop + 1 = stackBoundary /\ stackBoundary < StackSize
  /\ Written
  /\ IF ok
       THEN /\ stackTop' = stackTop + 1
            /\ stackCommit' = Committed(stackCommit, StackSize, stackTop + 1)
            /\ stackBoundary' = stackCommit'
            /\ overflowed' = "no"
       ELSE /\ StackReset
            /\ overflowed' = "no memory"
            /\ UNCHANGED <<stackBoundary, stackCommit>>

PushCommit(ok) ==
  /\ stackTop + 1 = stackBoundary /\ stackBoundary < StackSize
  /\ Written
  /\ IF ok
       THEN /\ stackTop' = stackTop + 1
            /\ stackCommit' = Committed(stackCommit, StackSize,
                                AtMost(stackTop + 1 + CommitChunk, StackSize))
            /\ stackBoundary' = stackCommit'
            /\ overflowed' = "no"
       ELSE /\ StackReset
            /\ overflowed' = "no memory"
            /\ UNCHANGED <<stackBoundary, stackCommit>>

(* Instructions and returns lower the top, errors reset it. *)
Lower ==
  /\ \E n \in 0 .. stackTop - 1 : stackTop' = n
  /\ overflowed' = "no"
  /\ UNCHANGED <<stackBoundary, stackCommit, stackWritten>>

(* allocateObject for a string, arenaBump_alloc. *)
AllocString(length, ok) ==
  LET end == stringTop + length
      commit == Committed(stringCommit, StringSize, end)
  IN /\ ~exited
     /\ IF end <= StringSize /\ (commit = stringCommit \/ ok)
          THEN /\ stringTop' = end /\ stringCommit' = commit
               /\ UNCHANGED exited
          ELSE /\ exited' = TRUE
               /\ UNCHANGED <<stringTop, stringCommit>>
     /\ UNCHANGED stackVars

Next ==
  \/ /\ ~exited
     /\ PushInside \/ PushLast \/ (\E ok \in BOOLEAN : PushCommit(ok)) \/ Lower
     /\ UNCHANGED <<stringCommit, stringTop, exited>>
  \/ \E length \in Length, ok \in BOOLEAN : AllocString(length, ok)

Spec == Init /\ [][Next]_vars

-----------------------------------------------------------------------------
(* Whatever is written lies in committed pages: the next push, every slot  *)
(* that stack_reset clears or a push has written, and every string; and    *)
(* stack_reset clears every slot that was ever written.                    *)
WritesAreCommitted ==
  /\ stackTop < stackBoundary /\ stackBoundary <= stackCommit
  /\ stackWritten <= stackBoundary
  /\ stackCommit <= StackSize
  /\ stringTop <= stringCommit /\ stringCommit <= StringSize

(* A stack overflow is reported when the last slot of the reservation was  *)
(* pushed or the system has no memory, not when committed pages end.       *)
OverflowIsReal ==
  [][overflowed' = "full" /\ overflowed # "full" => stackTop = StackSize - 1]_vars

=============================================================================
