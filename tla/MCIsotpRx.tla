------------------------------ MODULE MCIsotpRx ------------------------------
(* Instances of IsotpRx: the frames a peer may send, the options tried.     *)
EXTENDS IsotpRx

Content(len) == [len |-> len, pcilen |-> 1, pdu |-> 1, from |-> 0, num |-> len, pad |-> TRUE]

MCSingle(lens, dls) ==
  {Frame("SF", esc, dl, 0, Content(len)) : esc \in BOOLEAN, len \in lens, dl \in dls}

MCFirst(lens, dls) == {Frame("FF", FALSE, dl, 0, Content(len)) : len \in lens, dl \in dls}

MCConsecutive(lens) ==
  {Frame("CF", FALSE, 0, sn, Content(len)) : len \in lens, sn \in 0..(SnMod - 1)}

\* Any frame, well formed or not, of 8 or 12 bytes or shorter.
MCAnyFrames ==
  MCSingle({8, 12}, {9})
  \cup MCFirst({8, 10, 12}, {6, 14, 20, 21})
  \cup MCConsecutive({1, 8, 12})

\* Fewer of them, with every path of the handlers: PDUs too short for
\* their frame or too long for the static buffer, first and consecutive frames of every relation to LL_DL.
MCFewFrames ==
  MCSingle({8, 12}, {9}) \cup MCFirst({8, 10, 12}, {6, 20}) \cup MCConsecutive({1, 8, 12})

\* Frames of a peer that keeps to the protocol with LL_DL 8, in any order.
MCRegularFrames ==
  MCSingle({8}, {5}) \cup MCFirst({8}, {9, 20, 21}) \cup MCConsecutive({8})

MCOpt(ae, listen, bs) ==
  [ae |-> ae, ll_dl |-> 8, tx_padding |-> FALSE, rx_padding |-> FALSE,
   chk_len |-> FALSE, chk_data |-> FALSE, listen |-> listen, bs |-> bs]

MCActive == {MCOpt(ae, FALSE, bs) : ae \in {0, 1}, bs \in {0, 1, 2}}
MCBlocks == {MCOpt(1, FALSE, 2)}

MCEnv(opts, frames, regular, rough) ==
  [opts |-> opts, frames |-> frames, regular |-> regular,
   unregister |-> rough, faults |-> rough, closing |-> rough]

\* Any frame while allocations fail; fewer frames while the device and the
\* socket come and go as well; regular frames and nothing else.
MCEnvs == [any     |-> [MCEnv(MCBlocks, MCFewFrames, FALSE, FALSE) EXCEPT !.faults = TRUE],
           closing |-> MCEnv(MCBlocks, MCFirst({8, 12}, {20}) \cup MCConsecutive({8, 12})
                                       \cup MCSingle({8}, {5}), FALSE, TRUE),
           regular |-> MCEnv(MCActive, MCRegularFrames, TRUE, FALSE)]

\* Frames of any length and nothing else.
MCIrregular == [irregular |-> MCEnv(MCActive, MCAnyFrames, FALSE, FALSE)]
=============================================================================
