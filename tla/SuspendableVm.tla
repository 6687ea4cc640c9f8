---------------------------- MODULE SuspendableVm ----------------------------
(***************************************************************************)
(* What one machine promises to those who suspend, start and stop it,      *)
(* whatever units, state files, failures and reboots do to it.  A guest    *)
(* boots afresh or wakes from the image of its memory; it wakes only while *)
(* the image goes with its directory, so at most once, and never again     *)
(* when it has run since.  Nobody works on the machine's files while there *)
(* is a guest, and no guest comes up under one who does.                   *)
(*                                                                         *)
(* The one exception is a machine that has been tampered with since its    *)
(* image was saved: it may wake from what is left of it.                   *)
(***************************************************************************)
VARIABLES
  power,    \* "off", "running" or "paused"
  origin,   \* what the guest that is there came from
  image,    \* there is a complete image that goes with the directory as it is
  hands,    \* somebody works on the files of the machine
  tampered \* somebody has come between an image and its use

vars == <<power, origin, image, hands, tampered>>

Init ==
  /\ power = "off"
  /\ origin = "nothing"
  /\ image = FALSE
  /\ hands = FALSE
  /\ tampered = FALSE

\* From now on the directory changes under whatever image there was.
Runs == power' = "running" /\ image' = FALSE

ComesUp ==
  /\ power = "off" /\ ~hands
  /\ Runs
  /\ UNCHANGED <<hands, tampered>>

Boot == ComesUp /\ origin' = "scratch"

Wake == ComesUp /\ (image \/ tampered) /\ origin' = "image"

Pause ==
  /\ power = "running"
  /\ power' = "paused"
  /\ UNCHANGED <<origin, image, hands, tampered>>

\* Perhaps by one who should not.
Unpause ==
  /\ power = "paused"
  /\ Runs
  /\ tampered => tampered'
  /\ UNCHANGED <<origin, hands>>

\* The memory is written down, while it holds still.
Save ==
  /\ power = "paused"
  /\ image' = TRUE
  /\ tampered' = FALSE
  /\ UNCHANGED <<power, origin, hands>>

\* The image is given up, perhaps by one who then lets go of the files.
Discard ==
  /\ image' = FALSE
  /\ hands' => hands
  /\ UNCHANGED <<power, origin, tampered>>

\* The directory is replaced under an image that stays, or the machine is told
\* to come up before its image is given out.
Tamper ==
  /\ tampered' = TRUE
  /\ image' => image
  /\ UNCHANGED <<power, origin, hands>>

\* The guest ends or is ended; an image stays what it was.  So does it when
\* the host goes down, with those who work on it.
End ==
  /\ power' = "off"
  /\ origin' = "nothing"
  /\ hands' => hands
  /\ UNCHANGED <<image, tampered>>

Grab ==
  /\ power = "off"
  /\ hands' = TRUE
  /\ UNCHANGED <<power, origin, image, tampered>>

LetGo ==
  /\ hands' = FALSE
  /\ UNCHANGED <<power, origin, image, tampered>>

Next ==
  \/ Boot \/ Wake \/ Pause \/ Unpause \/ End
  \/ Save \/ Discard \/ Tamper
  \/ Grab \/ LetGo

Spec == Init /\ [][Next]_vars
=============================================================================
