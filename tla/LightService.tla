---------------------------- MODULE LightService ----------------------------
(***************************************************************************)
(* What FarsUnoTest promises those who send it packages: it serves some of *)
(* them, each at most once and in the order they were sent, and the lights *)
(* are what the served packages make of them, and nothing else.            *)
(***************************************************************************)
EXTENDS FarsLightController

CONSTANT Message     \* packages, as they are sent

VARIABLES sent,      \* the messages, in order
          served,    \* those that were served, by their places in sent
          lights

serviceVars == <<sent, served, lights>>

Init ==
    /\ sent = << >>
    /\ served = {}
    /\ lights = [c \in Cup |-> Colour(0, 0, 255)]

Send(msg) ==
    /\ sent' = Append(sent, msg)
    /\ UNCHANGED <<served, lights>>

Serve(k) ==
    /\ \A j \in served : j < k
    /\ served' = served \cup {k}
    /\ lights' = LightsAfter(lights, sent[k].pkg)
    /\ UNCHANGED sent

Next ==
    \/ \E msg \in Message : Send(msg)
    \/ \E k \in 1 .. Len(sent) : Serve(k)

Spec == Init /\ [][Next]_serviceVars

=============================================================================
