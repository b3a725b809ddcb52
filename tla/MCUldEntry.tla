----------------------------- MODULE MCUldEntry -----------------------------
(***************************************************************************)
(* Instance of UldEntry.  The registers are saved at 136, so that the bases *)
(* of the stack below it move it down and those above it up.               *)
(***************************************************************************)
EXTENDS UldEntry

MCAddr == 0 .. 279
MCByte == {"any", "chr", "base", "ptr", "reg"} \X (0 .. 279) \X (0 .. 8)
=============================================================================
