---------------------------------- MODULE Page --------------------------------
(***************************************************************************)
(* The browser page of pickEcosystem/live (page.js): the tab boots a       *)
(* kernel, pauses it while the tab is hidden, shuts it down and boots the  *)
(* next.  A kernel lives as Lifecycle says; what the page sees of it is    *)
(* its phase and whether its traffic has a rate above 0.                   *)
(*                                                                         *)
(* start() awaits the boot, so keys, clicks and visibility events come     *)
(* between its two halves, which are steps of their own.  Keys and clicks  *)
(* come to a visible tab only.                                             *)
(***************************************************************************)
EXTENDS Integers

CONSTANT Boots      \* bounds the number of kernels booted

Kernels == 1 .. Boots
NONE == 0

VARIABLES
  k,           \* the kernel the page works on, NONE before the first is up
  phase,       \* of each kernel: "none", "booting", "serving", "draining", "halted"
  offering,    \* k.traffic.rate > 0
  awaited,     \* the kernels whose shutdown the page waits for
  saved,       \* savedRate > 0
  stopping,
  reboot,      \* the reboot button is shown and enabled
  hidden       \* document.hidden

kernelVars == <<phase, offering, awaited>>
vars == <<k, kernelVars, saved, stopping, reboot, hidden>>

Running(b) == phase[b] \in {"serving", "draining"}

------------------------------------------------------------------------------
(* start(), up to its await: the next kernel boots. *)
Starts(b) ==
  /\ phase[b] = "none" /\ \A c \in 1 .. b-1 : phase[c] # "none"
  /\ phase' = [phase EXCEPT ![b] = "booting"]
  /\ stopping' = FALSE

Init ==
  /\ k = NONE
  /\ phase = [b \in Kernels |-> IF b = 1 THEN "booting" ELSE "none"]
  /\ offering = [b \in Kernels |-> TRUE]
  /\ awaited = {}
  /\ saved = FALSE
  /\ stopping = FALSE
  /\ reboot = FALSE
  /\ hidden \in BOOLEAN

(* pause() and resume() on kernel b. *)
Pause(b) ==
  /\ saved' = (saved \/ offering[b])
  /\ offering' = [offering EXCEPT ![b] = FALSE]
Resume(b) ==
  /\ saved' = FALSE
  /\ offering' = [offering EXCEPT ![b] = @ \/ saved]

(* start(), after its await. *)
Booted(b) ==
  /\ phase[b] = "booting"
  /\ phase' = [phase EXCEPT ![b] = "serving"]
  /\ k' = b
  /\ reboot' = FALSE
  /\ IF hidden THEN Pause(b) ELSE UNCHANGED <<saved, offering>>
  /\ UNCHANGED <<awaited, stopping, hidden>>

------------------------------------------------------------------------------
(* The controls *)

(* setRate: the rate keys never set it to 0. *)
SetRate ==
  /\ ~hidden
  /\ k # NONE /\ ~stopping
  /\ offering' = [offering EXCEPT ![k] = TRUE]
  /\ UNCHANGED <<k, phase, awaited, saved, stopping, reboot, hidden>>

(* shutdown(): the page waits for the kernel it was called on. *)
Shutdown ==
  /\ ~hidden
  /\ k # NONE /\ ~stopping
  /\ stopping' = TRUE
  /\ phase' = [phase EXCEPT ![k] = IF @ = "serving" THEN "draining" ELSE @]
  /\ awaited' = awaited \cup {k}
  /\ UNCHANGED <<k, offering, saved, reboot, hidden>>

(* The shutdown's promise resolves; the kernel is halted unless disposing  *)
(* of its workers threw.                                                   *)
ShutDown(b) ==
  /\ b \in awaited
  /\ awaited' = awaited \ {b}
  /\ phase' \in {phase, [phase EXCEPT ![b] = "halted"]}
  /\ reboot' = (phase'[b] = "halted")
  /\ UNCHANGED <<k, offering, saved, stopping, hidden>>

Reboot ==
  /\ ~hidden
  /\ reboot
  /\ k # NONE /\ phase[k] = "halted"
  /\ reboot' = FALSE
  /\ \E b \in Kernels : Starts(b)
  /\ UNCHANGED <<k, offering, awaited, saved, hidden>>

------------------------------------------------------------------------------
(* visibilitychange *)
ChangeVisibility ==
  /\ hidden' = ~hidden
  /\ IF k = NONE \/ stopping THEN UNCHANGED <<saved, offering>>
     ELSE IF hidden' THEN Pause(k)
     ELSE Resume(k)
  /\ UNCHANGED <<k, phase, awaited, stopping, reboot>>

Next ==
  \/ \E b \in Kernels : Booted(b) \/ ShutDown(b)
  \/ SetRate \/ Shutdown \/ Reboot
  \/ ChangeVisibility

Spec == Init /\ [][Next]_vars

------------------------------------------------------------------------------
(* A hidden tab offers no traffic: no kernel that serves has a rate while  *)
(* the tab is hidden (page.js, the comment at pause).                      *)
NoTrafficWhileHidden ==
  hidden => \A b \in Kernels : phase[b] = "serving" => ~offering[b]
===============================================================================
