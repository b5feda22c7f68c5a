--------------------------- MODULE MCJ1939Transfer ---------------------------
(* Instances of J1939Transfer: the messages of the socket, the buses.       *)
EXTENDS J1939Transfer

Msg(type, total) == [type |-> type, total |-> total]
Bus(script, timely, loss, down, closes) ==
  [script |-> script, timely |-> timely, loss |-> loss, down |-> down, closes |-> closes]

Pairs == {<<Msg("tp", 3), Msg("tp", 2)>>, <<Msg("etp", 3), Msg("etp", 2)>>,
          <<Msg("bam", 2), Msg("tp", 2)>>, <<Msg("simple", 1), Msg("etp", 3)>>,
          <<Msg("tp", 2), Msg("simple", 1)>>, <<Msg("simple", 1), Msg("simple", 1)>>}

\* A frame is lost; users go away; the device goes down; and, for one message,
\* timers that expire at any time.
MCBuses ==
  {Bus(p, TRUE, 1, FALSE, FALSE) : p \in Pairs}
  \cup {Bus(p, TRUE, 0, FALSE, TRUE) : p \in Pairs}
  \cup {Bus(p, TRUE, 0, TRUE, FALSE) : p \in Pairs}
  \cup {Bus(<<m>>, FALSE, 0, FALSE, FALSE) : m \in {Msg("etp", 3), Msg("tp", 3), Msg("bam", 3)}}

MCDowns == {Bus(p, TRUE, 0, TRUE, FALSE) : p \in Pairs}
=============================================================================
