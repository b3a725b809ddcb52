------------------------------ MODULE SwiWrite ------------------------------
(***************************************************************************)
(* swi_write, through which the linker and the applications print: a       *)
(* semihosting call to the host (QEMU), which refuses it when it comes too *)
(* soon, in which case the code is to wait and try again.  The host and    *)
(* its clock run beside the program.                                       *)
(*                                                                         *)
(* A definition X_Y is the definition X with the mistake Y in it; it is    *)
(* used by no specification, only to see that a property rejects it.       *)
(***************************************************************************)
EXTENDS Integers

CONSTANTS MaxCount,   \* bound: bytes of a write
          Wait,       \* clock ticks of the wait (20 centiseconds in the code)
          Retries     \* how often the call is made at most (5 in the code)

ASSUME BoundsAssumption == /\ MaxCount \in Nat \ {0} /\ Wait \in Nat \ {0}
                           /\ Retries \in Nat \ {0}

SWI_EOF == -1

VARIABLES
    fd, buf, count,    \* the arguments; buf is "null" or "data"
    pc, ret, retries,
    elapsed,           \* swi_clock() - centisec, as far as the wait looks
    written,           \* bytes the host has taken
    refused            \* the host's last answer was -1

writeVars == <<fd, buf, count, pc, ret, retries, elapsed, written, refused>>

WriteTypeOK ==
    /\ fd \in 0 .. 2 /\ buf \in {"null", "data"} /\ count \in 0 .. MaxCount
    /\ pc \in {"idle", "call", "host", "start", "wait", "test", "done"}
    /\ ret \in -1 .. MaxCount
    /\ retries \in 0 .. Retries
    /\ elapsed \in 0 .. Wait
    /\ written \in 0 .. Retries * MaxCount
    /\ refused \in BOOLEAN

NoWrite ==
    /\ fd = 0 /\ buf = "null" /\ count = 0
    /\ pc = "idle" /\ ret = 0 /\ retries = Retries
    /\ elapsed = 0 /\ written = 0 /\ refused = FALSE

(* swi_write(f, b, c) is called. *)
Begin(f, b, c) ==
    /\ fd' = f /\ buf' = b /\ count' = c
    /\ pc' = "call" /\ retries' = Retries
    /\ written' = 0 /\ refused' = FALSE
    /\ UNCHANGED <<ret, elapsed>>

Call ==
    /\ pc = "call"
    /\ \/ /\ fd \notin {1, 2} \/ buf = "null"
          /\ ret' = SWI_EOF /\ pc' = "done"
       \/ /\ fd \in {1, 2} /\ buf # "null" /\ count = 0
          /\ ret' = 0 /\ pc' = "done"
       \/ /\ fd \in {1, 2} /\ buf # "null" /\ count # 0
          /\ pc' = "host"
          /\ UNCHANGED ret
    /\ UNCHANGED <<fd, buf, count, retries, elapsed, written, refused>>

(* SYS_WRITE returns the number of bytes not written, or -1 and writes none. *)
HostWrites(left) ==
    /\ pc = "host"
    /\ left <= count
    /\ ret' = left
    /\ written' = written + count - left
    /\ refused' = FALSE
    /\ pc' = "test"
    /\ UNCHANGED <<fd, buf, count, retries, elapsed>>

HostRefuses ==
    /\ pc = "host"
    /\ ret' = -1
    /\ refused' = TRUE
    /\ pc' = "start"
    /\ UNCHANGED <<fd, buf, count, retries, elapsed, written>>

(* The wait begins: centisec = swi_clock(). *)
StartWait ==
    /\ pc = "start"
    /\ elapsed' = 0
    /\ pc' = "wait"
    /\ UNCHANGED <<fd, buf, count, ret, retries, written, refused>>

(* The busy loop of the wait computes with ret, and leaves 0 in it: the program
   counter divided by more than it can be. *)
Spin ==
    /\ pc = "wait"
    /\ elapsed < Wait
    /\ ret' = 0
    /\ UNCHANGED <<fd, buf, count, pc, retries, elapsed, written, refused>>

WaitOver ==
    /\ pc = "wait"
    /\ elapsed >= Wait
    /\ pc' = "test"
    /\ UNCHANGED <<fd, buf, count, ret, retries, elapsed, written, refused>>

(* while (--retries && ret == -1) *)
Left_Uncounted == retries
Left == retries - 1
Again_Always == Left > 0
Again == Left > 0 /\ ret = -1
Result_NotWritten == IF ret = -1 THEN SWI_EOF ELSE ret
Result == IF ret = -1 THEN SWI_EOF ELSE count - ret
LoopTest ==
    /\ pc = "test"
    /\ retries' = Left
    /\ \/ /\ Again
          /\ pc' = "host"
          /\ UNCHANGED ret
       \/ /\ ~Again
          /\ ret' = Result
          /\ pc' = "done"
    /\ UNCHANGED <<fd, buf, count, elapsed, written, refused>>

(* The host's clock. *)
Tick ==
    /\ elapsed < Wait
    /\ elapsed' = elapsed + 1
    /\ UNCHANGED <<fd, buf, count, pc, ret, retries, written, refused>>

(* What the program does by itself; the host answers with HostWrites or HostRefuses. *)
WriteStep == Call \/ StartWait \/ Spin \/ WaitOver \/ LoopTest
-----------------------------------------------------------------------------
(* Properties *)

(* A write whose last answer from the host was not a refusal reports exactly
   what it wrote, even a partial write, and whatever was refused before it; an
   argument error writes nothing. *)
CountReported ==
    (pc = "done" /\ ~refused) => ret = written \/ (ret = SWI_EOF /\ written = 0)

(* "QEMU will return -1 if SYS_WRITE is called too fast.  In that case wait and
   retry", says swi_write: a write that ends refused has been tried as often as
   the code allows, and the caller is told. *)
RefusalsRetried == (pc = "done" /\ refused) => retries = 0 /\ ret = SWI_EOF
=============================================================================
