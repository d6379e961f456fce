------------------------------ MODULE Console ------------------------------
(***************************************************************************)
(* The enclave's console: a ring of characters in the boot memory, written *)
(* by the enclave and read by host processes through an anonymous file,    *)
(* under a spin lock that both kernels take (enclave_cons.c,               *)
(* pisces_lock.c).  A character is the number it has in the stream the     *)
(* enclave wrote since it was launched.                                    *)
(***************************************************************************)
EXTENDS Integers, Sequences, FiniteSets

CONSTANTS Readers,      \* host threads that read the console
          Files,        \* console cons_fds that can be open at a time
          RingSize,     \* sizeof(ringbuf->buf)
          Lengths,      \* lengths user space asks for
          MaxChars,     \* bound: characters written in one life of the enclave
          Rude          \* does somebody LAUNCH or RESET under an open console?
                        \* The code does not look.

ASSUME ConsoleAssumption ==
    /\ RingSize \in Nat \ {0}
    /\ Lengths \subseteq Nat
    /\ MaxChars \in Nat
    /\ Rude \in BOOLEAN

VARIABLES
    raw_lock,    \* the byte the two kernels exchange
    read_idx, write_idx, cur_len, buf,  \* struct pisces_cons_ringbuf
    connected,   \* cons->connected
    cons_fds,    \* open console files
    rd,          \* the read(2) each thread is in
    writer,      \* is the enclave inside the lock?
    up,          \* is the enclave running?
    written,     \* history: characters written in this life
    taken        \* history: sum of the files' offsets in this life

ring  == <<read_idx, write_idx, cur_len, buf>>
cvars == <<raw_lock, ring, connected, cons_fds, rd, writer, up, written, taken>>

Stale == 0   \* what a user buffer holds where nothing was copied
Idle  == [pc |-> "idle", length |-> 0, left |-> 0, ubuf |-> <<>>, start |-> 0, parts |-> 0]

CTypeOK ==
    /\ raw_lock \in {0, 1}
    /\ read_idx \in 0 .. RingSize - 1
    /\ write_idx \in 0 .. RingSize - 1
    /\ cur_len \in 0 .. RingSize
    /\ buf \in [0 .. RingSize - 1 -> Nat]
    /\ connected \in {0, 1}
    /\ cons_fds \subseteq Files
    /\ rd \in [Readers -> [pc : {"idle", "lock", "first", "second", "unlock", "ret"},
                           length : Nat, left : Nat, ubuf : Seq(Nat),
                           start : Nat, parts : 0 .. 2]]
    /\ writer \in BOOLEAN
    /\ up \in BOOLEAN
    /\ written \in Nat
    /\ taken \in Nat

\* The first LAUNCH has just laid out the ring.  Before it cons_ringbuf is
\* NULL and there is nothing to read.
CInit ==
    /\ raw_lock = 0
    /\ read_idx = 0 /\ write_idx = 0 /\ cur_len = 0
    /\ buf = [i \in 0 .. RingSize - 1 |-> Stale]
    /\ connected = 0
    /\ cons_fds = {}
    /\ rd = [t \in Readers |-> Idle]
    /\ writer = FALSE
    /\ up = TRUE
    /\ written = 0
    /\ taken = 0
-----------------------------------------------------------------------------
(* The lock.  xchg returns the old value: only the one who finds 0 enters. *)
(* The others look again as long as they find 1.                           *)

pisces_spin_lock == raw_lock = 0 /\ raw_lock' = 1

pisces_spin_unlock == raw_lock' = 0

pisces_lock_init == raw_lock' = 0
-----------------------------------------------------------------------------
(* Reading.                                                                *)

\* The n characters from read_idx on; they do not go past the end of buf.
FromRing(n) == [i \in 1 .. n |-> buf[read_idx + i - 1]]

\* copy_to_user(buffer, ...): every copy goes to the start of the buffer.
CopyToUser(ubuf, chars) ==
    [i \in 1 .. IF Len(chars) > Len(ubuf) THEN Len(chars) ELSE Len(ubuf) |->
        IF i <= Len(chars) THEN chars[i] ELSE ubuf[i]]

\* The length is not taken down.
TakeSlip(t, n, next) ==
    /\ rd' = [rd EXCEPT ![t].pc = next, ![t].left = @ - n, ![t].parts = @ + 1,
                        ![t].ubuf = CopyToUser(@, FromRing(n))]
    /\ read_idx' = (read_idx + n) % RingSize
    /\ taken' = taken + n
    /\ UNCHANGED <<raw_lock, write_idx, cur_len, buf>>

\* The part of length n is copied and taken out of the ring.
Take(t, n, next) ==
    /\ rd' = [rd EXCEPT ![t].pc = next, ![t].left = @ - n, ![t].parts = @ + 1,
                        ![t].ubuf = CopyToUser(@, FromRing(n))]
    /\ read_idx' = (read_idx + n) % RingSize
    /\ cur_len' = cur_len - n
    /\ taken' = taken + n
    /\ UNCHANGED <<raw_lock, write_idx, buf>>

\* copy_to_user failed: unlock and return -EFAULT.  What an earlier part took
\* stays taken.
ReadFault(t) ==
    /\ pisces_spin_unlock
    /\ rd' = [rd EXCEPT ![t] = Idle]
    /\ UNCHANGED <<ring, taken>>

ReadBegin(t, f, length) ==
    /\ f \in cons_fds
    /\ rd[t].pc = "idle"
    /\ rd' = [rd EXCEPT ![t] = [Idle EXCEPT !.pc = "lock", !.length = length]]
    /\ UNCHANGED <<raw_lock, ring, connected, cons_fds, writer, up, written, taken>>

ReadLock(t) ==
    LET n == IF rd[t].length > cur_len THEN cur_len ELSE rd[t].length IN
    /\ rd[t].pc = "lock"
    /\ pisces_spin_lock
    /\ rd' = [rd EXCEPT ![t].pc = "first", ![t].length = n, ![t].left = n,
                        ![t].start = taken]
    /\ UNCHANGED <<ring, connected, cons_fds, writer, up, written, taken>>

\* From read_idx to the end of buf, when the unread part goes round the end.
ReadFirst(t) ==
    LET toEnd == RingSize - read_idx
        n     == IF toEnd > rd[t].left THEN rd[t].left ELSE toEnd
    IN  /\ rd[t].pc = "first"
        /\ IF rd[t].left > 0 /\ read_idx >= write_idx
           THEN Take(t, n, "second") \/ ReadFault(t)
           ELSE /\ rd' = [rd EXCEPT ![t].pc = "second"]
                /\ UNCHANGED <<raw_lock, ring, taken>>
        /\ UNCHANGED <<connected, cons_fds, writer, up, written>>

\* From read_idx to write_idx.  The difference is unsigned.
ReadSecond(t) ==
    LET toWrite == write_idx - read_idx
        n       == IF toWrite < 0 \/ toWrite > rd[t].left THEN rd[t].left ELSE toWrite
    IN  /\ rd[t].pc = "second"
        /\ IF rd[t].left > 0
           THEN Take(t, n, "unlock") \/ ReadFault(t)
           ELSE /\ rd' = [rd EXCEPT ![t].pc = "unlock"]
                /\ UNCHANGED <<raw_lock, ring, taken>>
        /\ UNCHANGED <<connected, cons_fds, writer, up, written>>

ReadUnlock(t) ==
    /\ rd[t].pc = "unlock"
    /\ pisces_spin_unlock
    /\ rd' = [rd EXCEPT ![t].pc = "ret"]
    /\ UNCHANGED <<ring, connected, cons_fds, writer, up, written, taken>>

ReadReturn(t) ==
    /\ rd[t].pc = "ret"
    /\ rd' = [rd EXCEPT ![t] = Idle]
    /\ UNCHANGED <<raw_lock, ring, connected, cons_fds, writer, up, written, taken>>
-----------------------------------------------------------------------------
(* Connecting, under cons->lock, whether the enclave runs or not;          *)
(* releasing, when the last user of the file is gone.  A connect whose     *)
(* file cannot be made does not give `connected` back.                     *)

pisces_cons_connect(f) ==
    /\ f \notin cons_fds
    /\ connected = 0
    /\ connected' = 1
    /\ cons_fds' = cons_fds \cup {f} \/ cons_fds' = cons_fds
    /\ UNCHANGED <<raw_lock, ring, rd, writer, up, written, taken>>

console_release(f) ==
    /\ f \in cons_fds
    /\ \A t \in Readers : rd[t].pc = "idle"
    /\ cons_fds' = cons_fds \ {f}
    /\ connected' = 0
    /\ UNCHANGED <<raw_lock, ring, rd, writer, up, written, taken>>
-----------------------------------------------------------------------------
(* The enclave, external: it takes the same lock, appends a character if   *)
(* there is room, and lets the lock go.                                    *)

WriteLock ==
    /\ up
    /\ ~writer
    /\ written < MaxChars
    /\ pisces_spin_lock
    /\ writer' = TRUE
    /\ UNCHANGED <<ring, connected, cons_fds, rd, up, written, taken>>

WritePut ==
    /\ writer
    /\ pisces_spin_unlock
    /\ writer' = FALSE
    /\ IF cur_len < RingSize
       THEN /\ buf' = [buf EXCEPT ![write_idx] = written + 1]
            /\ write_idx' = (write_idx + 1) % RingSize
            /\ cur_len' = cur_len + 1
            /\ written' = written + 1
            /\ UNCHANGED read_idx
       ELSE UNCHANGED <<ring, written>>
    /\ UNCHANGED <<connected, cons_fds, rd, up, taken>>

\* stop_enclave: INIT stops the enclave wherever it is, inside the lock too.
Stop ==
    /\ up
    /\ up' = FALSE
    /\ writer' = FALSE
    /\ UNCHANGED <<raw_lock, ring, connected, cons_fds, rd, written, taken>>

\* The console is handed on as the last life left it: neither the memset of
\* the boot memory nor the initialisation of the lock.
LaunchSlip ==
    /\ ~up
    /\ Rude \/ cons_fds = {}
    /\ connected' = 0
    /\ up' = TRUE
    /\ UNCHANGED <<raw_lock, ring, cons_fds, rd, writer, written, taken>>

\* setup_boot_params, in LAUNCH and in RESET, clears the boot memory and calls
\* pisces_cons_init, which says that nobody is connected; then the enclave is
\* started.
pisces_cons_init ==
    /\ ~up
    /\ Rude \/ cons_fds = {}
    /\ pisces_lock_init
    /\ read_idx' = 0 /\ write_idx' = 0 /\ cur_len' = 0
    /\ buf' = [i \in 0 .. RingSize - 1 |-> Stale]
    /\ connected' = 0
    /\ up' = TRUE
    /\ written' = 0
    /\ taken' = 0
    /\ UNCHANGED <<cons_fds, rd, writer>>
-----------------------------------------------------------------------------
ReadStep(t) ==
    \/ ReadLock(t) \/ ReadFirst(t) \/ ReadSecond(t) \/ ReadUnlock(t) \/ ReadReturn(t)

CNext ==
    \/ \E t \in Readers, f \in Files, n \in Lengths : ReadBegin(t, f, n)
    \/ \E t \in Readers : ReadStep(t)
    \/ \E f \in Files : pisces_cons_connect(f) \/ console_release(f)
    \/ WriteLock \/ WritePut
    \/ Stop \/ pisces_cons_init

CSpec == CInit /\ [][CNext]_cvars
-----------------------------------------------------------------------------
(* Properties.                                                             *)

InLock(t) == rd[t].pc \in {"first", "second", "unlock"}

(* The two kernels and the readers never use the ring at the same time, and
   raw_lock is up while somebody does (pisces_spin_lock / pisces_spin_unlock
   on every path of console_read, its two EFAULT returns included).        *)
RingExclusive ==
    /\ \A s, t \in Readers : InLock(s) /\ InLock(t) => s = t
    /\ \A t \in Readers : InLock(t) => ~writer /\ raw_lock = 1
    /\ writer => raw_lock = 1

(* Once the enclave runs, the lock is held only by somebody who will let it
   go: an enclave stopped inside the lock does not lock the console of its
   next life.                                                              *)
LockHasOwner == up /\ raw_lock = 1 => writer \/ \E t \in Readers : InLock(t)

(* What the ring holds from read_idx on is exactly the unread end of the
   stream, whichever way reads that wrap, are cut short or fail have moved
   the indices.                                                            *)
UnreadIntact ==
    /\ taken + cur_len = written
    /\ write_idx = (read_idx + cur_len) % RingSize
    /\ \A i \in 0 .. cur_len - 1 : buf[(read_idx + i) % RingSize] = taken + i + 1

(* "Console already connected": one console file at a time.  It is violated
   when Rude is TRUE: a RESET says that nobody is connected while a file is
   open, and pisces_cons_connect lets the next one in.                     *)
SingleConsole == Cardinality(cons_fds) <= 1

(* One console file at a time, and nobody else can connect while it is open
   (cons->connected), as long as nobody launches or resets under it.       *)
OneConsole == SingleConsole /\ (cons_fds # {} => connected = 1)

(* Every read takes as many characters as it returns.  One that copied in a
   single part has got the next characters of the stream, in order.  Nothing
   is said of what a read in two parts has got: see ReadInOrder.           *)
ReadExact ==
    \A t \in Readers :
        rd[t].pc = "ret" =>
            /\ rd[t].left = 0
            /\ rd[t].parts <= 1 =>
                  rd[t].ubuf = [i \in 1 .. rd[t].length |-> rd[t].start + i]

(* Every read gets the next characters of the stream, in one part or in two:
   "first we need to read from read_idx to end of buf", then "read from
   read_idx to write_idx".  It is violated: the second copy_to_user goes to
   the start of the buffer again, over the first part.                     *)
ReadInOrder ==
    \A t \in Readers :
        rd[t].pc = "ret" =>
            rd[t].ubuf = [i \in 1 .. rd[t].length |-> rd[t].start + i]

(* The invariant of the shared ring's lock and of the connection, as long as
   nobody launches or resets under an open console: types, exclusive use, an
   owner who lets go, one console file (console_read, pisces_cons_init,
   pisces_cons_connect).                                                   *)
ConsoleInv == CTypeOK /\ RingExclusive /\ LockHasOwner /\ OneConsole

(* The ring never loses, repeats or moves an unread character, and a read that
   does not go round its end returns exactly what it took (console_read).  A
   read that does go round loses its first part on the way to user space,
   which is ReadInOrder's subject and not this property's.                 *)
StreamIntact == UnreadIntact /\ ReadExact
=============================================================================
