------------------------------ MODULE LiveLink ------------------------------
(***************************************************************************)
(* What a reconnecting link promises its owner: while the owner wants it,  *)
(* a link that is down is tried until it is up, or until the other side    *)
(* refuses it.  The WebSocket of the plugin (Interlink) and the hooks of   *)
(* the console (SocketHook) are shown to implement it.                     *)
(***************************************************************************)
VARIABLE phase   \* "off", "trying", "up", or "stopped": refused for good

Init == phase = "off"

\* A link left over from the owner's last time may be up at once.
Want == phase = "off" /\ phase' \in {"trying", "up"}

Open == phase = "trying" /\ phase' = "up"

Lose == phase = "up" /\ phase' = "trying"

Refuse == phase = "trying" /\ phase' = "stopped"

Expel == phase = "up" /\ phase' = "stopped"

Leave == phase # "off" /\ phase' = "off"

Next == Want \/ Open \/ Lose \/ Refuse \/ Expel \/ Leave

Safety == Init /\ [][Next]_phase

Spec == Safety /\ WF_phase(Open \/ Refuse)
=============================================================================
