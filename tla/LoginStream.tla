----------------------------- MODULE LoginStream -----------------------------
(***************************************************************************)
(* What the client sees of one login: the packets the realm sent to that    *)
(* login, in the order it sent them, each of them once.  Some of them may   *)
(* never be seen; none is seen out of turn or under another login.          *)
(***************************************************************************)
EXTENDS Naturals, Sequences

CONSTANT Logins
VARIABLES sent,  \* by login: the packets the realm sent to it
          shown  \* by login: the packets written to the client's connection for it

streamVars == <<sent, shown>>

StreamInit ==
    /\ sent = [n \in Logins |-> <<>>]
    /\ shown = [n \in Logins |-> <<>>]

\* One packet of the realm may carry two movements.
Send(n) ==
    /\ \E k \in 1..2 :
          sent' = [sent EXCEPT ![n] = @ \o [i \in 1..k |-> <<n, Len(@) + i>>]]
    /\ UNCHANGED shown

\* A connection that becomes ready is shown everything that waited for it.
Show(n) ==
    /\ \E k \in Len(shown[n]) + 1..Len(sent[n]) :
          shown' = [shown EXCEPT ![n] = SubSeq(sent[n], 1, k)]
    /\ UNCHANGED sent

\* A packet may be shown in the step that sends it.
SendAndShow(n) ==
    /\ sent' = [sent EXCEPT ![n] = Append(@, <<n, Len(@) + 1>>)]
    /\ shown' = [shown EXCEPT ![n] = sent'[n]]

StreamNext == \E n \in Logins : Send(n) \/ Show(n) \/ SendAndShow(n)

StreamSpec == StreamInit /\ [][StreamNext]_streamVars
=============================================================================
