----------------------------- MODULE LifoStack -----------------------------
(***************************************************************************)
(* What LockFreeStack of src/lock-free-stack.h promises: a last-in         *)
(* first-out stack of items, each pushed once and popped at most once.     *)
(* The promise ends when a pop that does not protect its node has read a   *)
(* deleted one or put a stale next on head; then anything may happen.      *)
(***************************************************************************)
EXTENDS Integers, Sequences

CONSTANT Items

VARIABLES
  stack,    \* the items on the stack, the top first
  popped,   \* the items that were popped
  astray,   \* an unprotected node was gone, or its next stale
  gone      \* the stack was destroyed

vars == <<stack, popped, astray, gone>>

Init == stack = <<>> /\ popped = {} /\ astray = FALSE /\ gone = FALSE

Push(x) ==
  /\ x \notin popped /\ \A k \in DOMAIN stack : stack[k] # x
  /\ stack' = <<x>> \o stack
  /\ UNCHANGED <<popped, gone>>

Pop ==
  /\ stack # <<>>
  /\ stack' = Tail(stack)
  /\ popped' = popped \cup {Head(stack)}
  /\ UNCHANGED gone

Destroy ==
  /\ ~gone /\ gone' = TRUE
  /\ stack' = <<>>
  /\ UNCHANGED popped

Regular == ~astray' /\ (Destroy \/ Pop \/ \E x \in Items : Push(x))
GoAstray == astray'

Next == Regular \/ GoAstray

Spec == Init /\ [][Next]_vars
=============================================================================
