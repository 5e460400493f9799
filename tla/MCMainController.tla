-------------------------- MODULE MCMainController --------------------------
(* Instances of the gateway for model checking. *)
EXTENDS MainController

CONSTANTS c1, c2, b1

Pkg(m, a) == [module |-> m, ip |-> a, body |-> b1]

\* One request.  Cut short over an empty buffer it is no package; over an
\* older request it is one again.
Requests == {Pkg("get", c1)}

\* No request at all: clients connect and send nothing that can be parsed.
Noise == {NoData}

\* An answer, a notification, and both: the header of one may come to lie
\* over the address and the body of the other.
Answers == {Pkg("get", c1)}
Notifications == {Pkg("notifyAll", c2)}
AnswersAndNotifications == Answers \cup Notifications

=============================================================================
