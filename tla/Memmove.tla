------------------------------ MODULE Memmove -------------------------------
(***************************************************************************)
(* memmove, one byte a step.  The stack of an application is moved with it *)
(* while the two places may overlap, in either direction.                  *)
(*                                                                         *)
(* A definition X_Y is the definition X with the mistake Y in it; it is    *)
(* used by no specification, only to see that a property rejects it.       *)
(***************************************************************************)
EXTENDS Integers

CONSTANTS Addr,     \* the addresses of memory
          Byte      \* what a byte can hold

ASSUME AddrAssumption == Addr \subseteq Int

VARIABLES
    mem,
    way,               \* "idle", or in a call "forward", "backward" or "none"
    d, s, n,           \* the local variables
    mem0, d0, s0, n0   \* history: memory and arguments when it was called

moveVars == <<mem, way, d, s, n, mem0, d0, s0, n0>>

Region(a, len) == a .. a + len - 1

Direction_Forward(dest, src) == "forward"
Direction(dest, src) ==
    IF src > dest THEN "forward" ELSE IF src < dest THEN "backward" ELSE "none"

(* memmove(dest, src, len) is called. *)
Call(dest, src, len) ==
    /\ way' = Direction(dest, src)
    /\ d' = IF way' = "backward" THEN dest + len ELSE dest
    /\ s' = IF way' = "backward" THEN src + len ELSE src
    /\ n' = IF way' = "none" THEN 0 ELSE len
    /\ mem0' = mem /\ d0' = dest /\ s0' = src /\ n0' = len
    /\ UNCHANGED mem

CopyForward ==
    /\ way = "forward" /\ n > 0
    /\ mem' = [mem EXCEPT ![d] = mem[s]]
    /\ d' = d + 1 /\ s' = s + 1 /\ n' = n - 1
    /\ UNCHANGED <<way, mem0, d0, s0, n0>>

CopyBackward ==
    /\ way = "backward" /\ n > 0
    /\ mem' = [mem EXCEPT ![d - 1] = mem[s - 1]]
    /\ d' = d - 1 /\ s' = s - 1 /\ n' = n - 1
    /\ UNCHANGED <<way, mem0, d0, s0, n0>>

Moving == CopyForward \/ CopyBackward
Moved == n = 0

(* memmove by itself, called in any memory with any arguments inside it. *)
MoveInit ==
    /\ mem \in [Addr -> Byte] /\ mem0 = mem
    /\ n0 \in Nat /\ Region(d0, n0) \subseteq Addr /\ Region(s0, n0) \subseteq Addr
    /\ d0 \in Int /\ s0 \in Int
    /\ way = Direction(d0, s0)
    /\ d = IF way = "backward" THEN d0 + n0 ELSE d0
    /\ s = IF way = "backward" THEN s0 + n0 ELSE s0
    /\ n = IF way = "none" THEN 0 ELSE n0
MoveSpec == MoveInit /\ [][Moving]_moveVars
-----------------------------------------------------------------------------
(* Properties *)

(* What memory must hold when the bytes of the region done are moved. *)
MovedBytes(done) == [a \in Addr |-> IF a \in done THEN mem0[s0 + (a - d0)] ELSE mem0[a]]

(* When memmove returns, the destination holds what the source held before,
   although the two may overlap, and no other byte has changed. *)
MoveExact == (way # "idle" /\ Moved) => mem = MovedBytes(Region(d0, n0))

(* On the way there: what has been moved, and that what is still to be moved
   has not been overwritten. *)
MoveInv ==
    /\ mem0 \in [Addr -> Byte] /\ mem \in [Addr -> Byte]
    /\ d0 \in Int /\ s0 \in Int /\ n0 \in Nat /\ n \in 0 .. n0
    /\ Region(d0, n0) \subseteq Addr /\ Region(s0, n0) \subseteq Addr
    /\ way = Direction(d0, s0)
    /\ way = "forward" => /\ d = d0 + (n0 - n) /\ s = s0 + (n0 - n)
                          /\ mem = MovedBytes(Region(d0, n0 - n))
    /\ way = "backward" => /\ d = d0 + n /\ s = s0 + n
                           /\ mem = MovedBytes(Region(d0 + n, n0 - n))
    /\ way = "none" => mem = mem0 /\ n = 0
=============================================================================
