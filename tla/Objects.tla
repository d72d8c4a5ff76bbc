------------------------------ MODULE Objects ------------------------------
(***************************************************************************)
(* object.c: the reference-counted sessions, connections and calls, and    *)
(* the call stack of the single thread that works on them.                 *)
(*                                                                         *)
(* httperf is event driven: one handler calls another through              *)
(* event_signal or a destructor, and the caller goes on afterwards with    *)
(* pointers it read before.  So the C stack is state: `stack' holds the    *)
(* calls that are still to be made, innermost first, and a step replaces   *)
(* its own frame by the calls it makes.  An object is an index into the    *)
(* memory of its type; object_new takes the cell freed last, so that an    *)
(* index, like a C pointer, may come to name another object.               *)
(***************************************************************************)
EXTENDS Integers, Sequences, SequencesExt

VARIABLES stack,     \* frames <<function, argument, ...>>
          mem,       \* the cells of each object type, and its free list
          verdict    \* "none", or what has stopped the program

objectVars == <<stack, mem, verdict>>

Types == {"sess", "conn", "call"}

NULL == 0

ObjectsInit ==
  /\ mem = [sess |-> <<>>, conn |-> <<>>, call |-> <<>>,
            free |-> [t \in Types |-> <<>>]]
  /\ verdict = "none"

\* The call of the C function f that is on top of the stack.
Top(f) == verdict = "none" /\ stack # <<>> /\ stack[1][1] = f
Arg(i) == stack[1][i + 1]

\* The function on top returns after having made these calls.
Run(calls) == stack' = calls \o Tail(stack)
Return == Run(<<>>)

\* assert (ok)
Check(ok) == verdict' = IF ok THEN verdict ELSE "assert"

IsFree(t, x) == Contains(mem.free[t], x)

\* The cell the next object_new (t) returns, and the memory m after it: the cell
\* is zeroed and initialised, whatever it held before.
New(t) == IF mem.free[t] = <<>> THEN Len(mem[t]) + 1 ELSE Head(mem.free[t])

object_new(m, t, obj) ==
  IF m.free[t] = <<>>
  THEN [m EXCEPT ![t] = Append(@, obj)]
  ELSE [m EXCEPT ![t][Head(m.free[t])] = obj, !.free[t] = Tail(@)]

DecRef(t, x) == <<"object_dec_ref", t, x>>
DecRefAll(calls) == [i \in DOMAIN calls |-> DecRef("call", calls[i])]

\* Mutant of object_dec_ref: destroys an object that is still referenced once.
EagerDecRef ==
  /\ Top("object_dec_ref")
  /\ LET t == Arg(1)  x == Arg(2)  ref == mem[t][x].ref
     IN /\ Check(ref > 0 /\ ~IsFree(t, x))
        /\ mem' = [mem EXCEPT ![t][x].ref = @ - 1]
        /\ Run(IF ref = 2 THEN <<<<"object_destroy", t, x>>>> ELSE <<>>)

\* The reference count of a freed cell is overwritten by the link of the free
\* list: giving up a reference to it may pass the assertion or not, and is taken
\* here as its failure.
object_dec_ref ==
  /\ Top("object_dec_ref")
  /\ LET t == Arg(1)  x == Arg(2)  ref == mem[t][x].ref
     IN /\ Check(ref > 0 /\ ~IsFree(t, x))
        /\ mem' = [mem EXCEPT ![t][x].ref = @ - 1]
        /\ Run(IF ref = 1 THEN <<<<"object_destroy", t, x>>>> ELSE <<>>)

\* The end of object_destroy, after its EV_..._DESTROYED handlers.
free ==
  /\ Top("free")
  /\ mem' = [mem EXCEPT !.free[Arg(1)] = <<Arg(2)>> \o @]
  /\ Return
  /\ UNCHANGED verdict
=============================================================================
