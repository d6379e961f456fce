---------------------------- MODULE EarlyRingbuf ----------------------------
(***************************************************************************)
(* pisces_ringbuf.c: a ring buffer of bytes.  Every operation runs under   *)
(* the ring's lock from its first to its last access, so it is one step.   *)
(* The indices run from 0 to size, not to size - 1: an index that reaches  *)
(* the end stays there until the next operation wraps it.                  *)
(***************************************************************************)
EXTENDS Integers, Sequences

CONSTANTS EarlySize,     \* EARLY_RINGBUF_SIZE
          Bytes,
          MaxLen         \* bound: longest write or read that is tried

ASSUME EarlyAssumption == EarlySize \in Nat \ {0} /\ MaxLen \in Nat

VARIABLES e_read_idx, e_write_idx, e_cur_len, e_buf, e_data

evars == <<e_read_idx, e_write_idx, e_cur_len, e_buf, e_data>>

NoByte == 0

EInit ==
    /\ e_read_idx = 0 /\ e_write_idx = 0 /\ e_cur_len = 0
    /\ e_buf = [i \in 0 .. EarlySize - 1 |-> NoByte]
    /\ e_data = <<>>

is_read_loop(len) ==
    /\ e_read_idx >= e_write_idx
    /\ e_cur_len > 0
    /\ EarlySize - e_read_idx < len

is_write_loop(len) ==
    /\ e_write_idx >= e_read_idx
    /\ e_cur_len < EarlySize
    /\ EarlySize - e_write_idx < len

\* memcpy of data to buf + at; a byte outside the buffer is lost.
CopyIn(b, at, data) ==
    [i \in DOMAIN b |-> IF i \in at .. at + Len(data) - 1 THEN data[i - at + 1] ELSE b[i]]

CopyOut(at, len) ==
    [i \in 1 .. len |-> IF at + i - 1 < EarlySize THEN e_buf[at + i - 1] ELSE NoByte]

pisces_early_ringbuf_write(data) ==
    LET section == EarlySize - e_write_idx
        len     == Len(data)
    IN  /\ len <= EarlySize - e_cur_len
        /\ IF is_write_loop(len)
           THEN /\ e_buf' = CopyIn(CopyIn(e_buf, e_write_idx, SubSeq(data, 1, section)),
                                   0, SubSeq(data, section + 1, len))
                /\ e_write_idx' = len - section
           ELSE /\ e_buf' = CopyIn(e_buf, e_write_idx, data)
                /\ e_write_idx' = e_write_idx + len
        /\ e_cur_len' = e_cur_len + len
        /\ UNCHANGED <<e_read_idx, e_data>>

\* The second copy takes up where the first one began.
RingReadSlip(len) ==
    LET section == EarlySize - e_read_idx IN
    /\ len <= e_cur_len
    /\ IF is_read_loop(len)
       THEN /\ e_data' = CopyOut(e_read_idx, section) \o CopyOut(0, len - section)
            /\ e_read_idx' = len
       ELSE /\ e_data' = CopyOut(e_read_idx, len)
            /\ e_read_idx' = e_read_idx + len
    /\ e_cur_len' = e_cur_len - len
    /\ UNCHANGED <<e_write_idx, e_buf>>

pisces_early_ringbuf_read(len) ==
    LET section == EarlySize - e_read_idx IN
    /\ len <= e_cur_len
    /\ IF is_read_loop(len)
       THEN /\ e_data' = CopyOut(e_read_idx, section) \o CopyOut(0, len - section)
            /\ e_read_idx' = len - section
       ELSE /\ e_data' = CopyOut(e_read_idx, len)
            /\ e_read_idx' = e_read_idx + len
    /\ e_cur_len' = e_cur_len - len
    /\ UNCHANGED <<e_write_idx, e_buf>>

ENext ==
    \/ \E n \in 0 .. MaxLen : \E data \in [1 .. n -> Bytes] : pisces_early_ringbuf_write(data)
    \/ \E n \in 0 .. MaxLen : pisces_early_ringbuf_read(n)

ESpec == EInit /\ [][ENext]_evars
-----------------------------------------------------------------------------
(* Properties.                                                             *)

\* The bytes from read_idx on.
Stored == [i \in 1 .. e_cur_len |-> e_buf[(e_read_idx + i - 1) % EarlySize]]

EFifo == INSTANCE Fifo WITH Bound <- EarlySize, fifo <- Stored, got <- e_data

(* Reads return what writes stored, byte for byte and in order.            *)
RingbufIsFifo == EFifo!FifoSpec
=============================================================================
