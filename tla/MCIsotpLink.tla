----------------------------- MODULE MCIsotpLink -----------------------------
(* Instances of IsotpLink: the options both ends share, the PDU sizes.      *)
EXTENDS IsotpLink

\* Options that let the ends understand each other: padding is checked only
\* where it is sent, an optimal length only where none is.
Matching(o) ==
  /\ ~o.listen
  /\ o.chk_len => o.rx_padding = o.tx_padding
  /\ o.chk_data => o.rx_padding \/ o.chk_len

MCOpts(lens, sizes) ==
  {o \in [ae : {0, 1}, ll_dl : lens, tx_padding : BOOLEAN, rx_padding : BOOLEAN,
          chk_len : BOOLEAN, chk_data : BOOLEAN, listen : {FALSE}, bs : sizes] :
     Matching(o)}

MCAllOpts == MCOpts(Dlcs, {0, 3})
MCSizes == 1..130
MCLongSizes == {4095, 4096, 4100, 4101}

MCPlain(lens, sizes) ==
  {o \in MCOpts(lens, sizes) : ~o.rx_padding /\ ~o.chk_len /\ ~o.chk_data}

MCLossOpts == {o \in MCPlain({8}, {0, 1, 2}) : o.ae = 0}
MCLossSizes == {3, 15, 20, 34}

\* A PDU of 4 kB takes up to 700 frames: it is sent under the shortest and the
\* longest data length only.
MCLongOpts == MCPlain({8, 64}, {0, 3})

\* Nothing but what the sender sends.
MCEnvs == [peer |-> [opts |-> MCAllOpts \cup MCLossOpts, frames |-> {}, regular |-> TRUE,
                     unregister |-> FALSE, faults |-> FALSE, closing |-> FALSE]]

\* Every layout: all options and data lengths, PDU sizes around the limits of
\* SF_DL; sizes around the limit of FF_DL and around max_pdu_size; and PDUs some
\* frames of which are lost.
MCPlans ==
  [formats |-> [opts |-> MCAllOpts, sizes |-> MCSizes, pdus |-> 1, cap |-> 1,
                loss |-> FALSE, echoFirst |-> TRUE],
   long    |-> [opts |-> MCLongOpts, sizes |-> MCLongSizes, pdus |-> 1, cap |-> 1,
                loss |-> FALSE, echoFirst |-> TRUE],
   losses  |-> [opts |-> MCLossOpts, sizes |-> MCLossSizes, pdus |-> 3, cap |-> 2,
                loss |-> TRUE, echoFirst |-> FALSE]]
=============================================================================
