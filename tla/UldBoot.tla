------------------------------ MODULE UldBoot -------------------------------
(***************************************************************************)
(* The boot switch of uld_main: what the boot_action in the persistent     *)
(* store makes the linker move and execute, and with which arguments.      *)
(***************************************************************************)
EXTENDS Integers

CONSTANT MaxAction   \* bound: the boot actions tried

None == "none"
Uninitialized == "uninitialized"

VARIABLES action,    \* ULD_PSTORE->boot_action
          at,        \* the case label control is at, or 100 past the switch
          exec, move, argc, verbose, resetStack,
          trapped

vars == <<action, at, exec, move, argc, verbose, resetStack, trapped>>

Past == 100

Init ==
    /\ action \in 0 .. MaxAction
    /\ at = action
    /\ exec = Uninitialized /\ move = None /\ argc = 0 /\ verbose = 0 /\ resetStack = FALSE
    /\ trapped = FALSE

Case0 ==
    /\ at = 0
    /\ exec' = "hello_world_static" /\ at' = Past
    /\ UNCHANGED <<action, move, argc, verbose, resetStack, trapped>>

(* No break: control goes on at the next label. *)
Case1 ==
    /\ at = 1
    /\ verbose' = 1 /\ exec' = "hello_world" /\ argc' = 2 /\ at' = 2
    /\ UNCHANGED <<action, move, resetStack, trapped>>

Case2 ==
    /\ at = 2
    /\ exec' = "hello_world" /\ move' = exec' /\ argc' = 3 /\ at' = Past
    /\ UNCHANGED <<action, verbose, resetStack, trapped>>

Case3 ==
    /\ at = 3
    /\ exec' = "dyn_test" /\ argc' = 2 /\ at' = Past
    /\ UNCHANGED <<action, move, verbose, resetStack, trapped>>

Case4 ==
    /\ at = 4
    /\ verbose' = 2 /\ exec' = "dyn_test" /\ at' = Past
    /\ UNCHANGED <<action, move, argc, resetStack, trapped>>

Case5 ==
    /\ at = 5
    /\ verbose' = 1 /\ exec' = "dyn_test" /\ move' = "libexc.so" /\ argc' = 2 /\ at' = Past
    /\ UNCHANGED <<action, resetStack, trapped>>

Case6 ==
    /\ at = 6
    /\ resetStack' = TRUE /\ exec' = "dyn_test" /\ argc' = 2 /\ at' = Past
    /\ UNCHANGED <<action, move, verbose, trapped>>

(* A swbkpt(), after which the name to execute is read uninitialized. *)
Default ==
    /\ at > 6 /\ at # Past
    /\ trapped' = TRUE /\ at' = Past
    /\ UNCHANGED <<action, exec, move, argc, verbose, resetStack>>

Next == Case0 \/ Case1 \/ Case2 \/ Case3 \/ Case4 \/ Case5 \/ Case6 \/ Default

Spec == Init /\ [][Next]_vars
-----------------------------------------------------------------------------
Row(m, e, n, v, s) == [move |-> m, exec |-> e, argc |-> n, verbose |-> v, resetStack |-> s]

(* The table of examples in the README. *)
Example ==
    << Row(None, "hello_world_static", 0, 0, FALSE),
       Row(None, "hello_world", 2, 1, FALSE),
       Row("hello_world", "hello_world", 3, 0, FALSE),
       Row(None, "dyn_test", 2, 0, FALSE),
       Row(None, "dyn_test", 0, 2, FALSE),
       Row("libexc.so", "dyn_test", 2, 1, FALSE),
       Row(None, "dyn_test", 2, 0, TRUE) >>

(* Every example does what its row of the README's table says: which file it
   moves and executes, the argument count, the verbosity and the stack. *)
ExamplesAsDocumented ==
    (at = Past /\ action \in 0 .. 6) => Row(move, exec, argc, verbose, resetStack) = Example[action + 1]
=============================================================================
