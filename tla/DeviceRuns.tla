----------------------------- MODULE DeviceRuns -----------------------------
(***************************************************************************)
(* What a HostAcceleratorInterface promises about the device: it runs one  *)
(* kernel at a time, each with the parameters its own start was given.  A  *)
(* start is accepted when the run before is over; the device picks it up   *)
(* later, on a thread of its own.                                          *)
(***************************************************************************)
CONSTANTS
  Params,   (* what a run is started with: entry, arguments, page table    *)
  NoRun

VARIABLES
  asked,    (* the start that was accepted and has not begun, or NoRun     *)
  run       (* what the device executes, or NoRun                          *)

Init == asked = NoRun /\ run = NoRun

Request(p) ==
  /\ asked = NoRun /\ run = NoRun
  /\ asked' = p
  /\ UNCHANGED run

Begin ==
  /\ asked # NoRun
  /\ run' = asked /\ asked' = NoRun

End ==
  /\ run # NoRun
  /\ run' = NoRun
  /\ UNCHANGED asked

Next == (\E p \in Params : Request(p)) \/ Begin \/ End

Spec == Init /\ [][Next]_<<asked, run>>
=============================================================================
