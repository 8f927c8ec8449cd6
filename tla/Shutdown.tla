------------------------------ MODULE Shutdown ------------------------------
(***************************************************************************)
(* What the HAL promises its client about the end of the event stream: a   *)
(* client that calls wifi_cleanup gets callbacks until the event loop has  *)
(* stopped, none after that, and the handle is torn down only then.        *)
(***************************************************************************)

VARIABLES phase,   \* "up", "closing", "stopped", "down"
          busy     \* an event callback is running

shutdownVars == <<phase, busy>>

Init == phase = "up" /\ busy = FALSE

\* Callbacks start only while the loop may still run.
CallbackBegins ==
    /\ phase \in {"up", "closing"}
    /\ ~busy
    /\ busy' = TRUE
    /\ UNCHANGED phase

CallbackEnds ==
    /\ busy
    /\ busy' = FALSE
    /\ UNCHANGED phase

\* wifi_cleanup is called.
Close == phase = "up" /\ phase' = "closing" /\ UNCHANGED busy

\* wifi_cleanup learns that the loop has stopped: no callback is running.
Stopped ==
    /\ phase = "closing"
    /\ ~busy
    /\ phase' = "stopped"
    /\ UNCHANGED busy

\* The handle is freed.
Down == phase = "stopped" /\ phase' = "down" /\ UNCHANGED busy

Next == CallbackBegins \/ CallbackEnds \/ Close \/ Stopped \/ Down

Spec == Init /\ [][Next]_shutdownVars
=============================================================================
