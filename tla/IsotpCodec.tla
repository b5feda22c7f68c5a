------------------------------ MODULE IsotpCodec ------------------------------
(***************************************************************************)
(* The frame layout of net/can/isotp.c: where isotp_sendmsg(),             *)
(* isotp_fill_dataframe() and isotp_create_fframe() put the bytes of a PDU *)
(* and what isotp_rcv() and its handlers read back.                        *)
(*                                                                         *)
(* A frame is a record; its payload is the run of `num' PDU bytes that     *)
(* starts at PDU offset `from', placed behind `pcilen' bytes of address    *)
(* and PCI.  `pdu' names the PDU; `pad' says that the bytes behind the     *)
(* payload have the padding content the receiver is configured for.        *)
(* An option record `o' holds what setsockopt() set: ae (1 for extended    *)
(* addressing), ll_dl, padding and the checks of it, listen mode, bs.      *)
(***************************************************************************)
EXTENDS Integers, FiniteSetsExt

\* Definitions whose name ends in "_bug" are mutants: plausible errors in the
\* definition that follows them, used to see the properties fail.

CAN_MAX_DLEN == 8

MAX_12BIT_PDU_SIZE == 4095

\* The data lengths of CAN and CAN FD frames from 8 bytes on.
Dlcs == {8, 12, 16, 20, 24, 32, 48, 64}

padlen(n) == Min({d \in Dlcs : d >= n} \cup {64})

-----------------------------------------------------------------------------
(* Sender. *)

\* Room for the SF_DL escape of frames beyond 8 bytes.
EscOff(ll_dl) == IF ll_dl > CAN_MAX_DLEN THEN 1 ELSE 0

isotp_fill_dataframe(o, pdu, len, idx, off) ==
  LET pcilen == 1 + o.ae + off
      space  == o.ll_dl - pcilen
      num    == Min({len - idx, space})
      raw    == num + pcilen
      padded == num < space /\ (o.tx_padding \/ raw > CAN_MAX_DLEN)
  IN [len |-> IF padded THEN padlen(raw) ELSE raw, pcilen |-> pcilen,
      pdu |-> pdu, from |-> idx, num |-> num, pad |-> TRUE]

FitsSingle(o, size) == size <= o.ll_dl - 1 - o.ae - EscOff(o.ll_dl)

\* No escape when the PDU fits into an 8 byte frame.
SingleOff(o, size) == IF size <= CAN_MAX_DLEN - 1 - o.ae THEN 0 ELSE EscOff(o.ll_dl)

Frame(type, esc, dl, sn, body) ==
  [type |-> type, esc |-> esc, dl |-> dl, sn |-> sn, len |-> body.len,
   pcilen |-> body.pcilen, pdu |-> body.pdu, from |-> body.from, num |-> body.num,
   pad |-> body.pad]

SingleFrame(o, pdu, size) ==
  LET off == SingleOff(o, size)
  IN Frame("SF", off = 1, size, 0, isotp_fill_dataframe(o, pdu, size, 0, off))

isotp_create_fframe(o, pdu, size) ==
  LET esc    == size > MAX_12BIT_PDU_SIZE
      pcilen == o.ae + (IF esc THEN 6 ELSE 2)
  IN Frame("FF", esc, IF esc THEN size ELSE size % 4096, 0,
           [len |-> o.ll_dl, pcilen |-> pcilen, pdu |-> pdu, from |-> 0,
            num |-> o.ll_dl - pcilen, pad |-> TRUE])

ConsecutiveFrame(o, pdu, size, idx, sn) ==
  Frame("CF", FALSE, 0, sn, isotp_fill_dataframe(o, pdu, size, idx, 0))

-----------------------------------------------------------------------------
(* Receiver.  Both checks are TRUE when they fail, as in the code. *)

check_optimized(cf, start) ==
  IF cf.len <= CAN_MAX_DLEN THEN cf.len # start ELSE cf.len # padlen(start)

check_pad(o, cf, start) ==
  IF ~o.rx_padding
  THEN IF o.chk_len THEN check_optimized(cf, start) ELSE TRUE
  ELSE \/ o.chk_len /\ cf.len # padlen(cf.len)
       \/ o.chk_data /\ start < cf.len /\ ~cf.pad

PaddingBad(o, cf, start) == (o.chk_len \/ o.chk_data) /\ check_pad(o, cf, start)

\* A frame of more than 8 bytes carries its SF_DL behind the escape.
SfTaken(cf) == cf.len > CAN_MAX_DLEN => cf.esc

\* Where the SF_DL is read decides how an escape is understood.
SfDl(cf) == IF cf.len <= CAN_MAX_DLEN /\ cf.esc THEN 0 ELSE cf.dl

SfPcilen_bug(o, cf) == 1 + o.ae

SfPcilen(o, cf) == 1 + o.ae + (IF cf.len > CAN_MAX_DLEN THEN 1 ELSE 0)

FfPcilen(o, cf) == o.ae + (IF cf.esc THEN 6 ELSE 2)

\* The first frame fills a frame of a valid length and does not hold it all.
FfMalformed(o, cf) ==
  \/ cf.len # padlen(cf.len)
  \/ cf.dl + EscOff(cf.len) + FfPcilen(o, cf) < cf.len

\* Frame bytes start..start+k-1 continue the PDU of which idx bytes are known.
Continues(cf, start, k, pdu, idx) ==
  /\ cf.pdu = pdu /\ start >= cf.pcilen
  /\ cf.from + (start - cf.pcilen) = idx
  /\ start + k <= cf.pcilen + cf.num
=============================================================================
