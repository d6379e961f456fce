----------------------------- MODULE EnclaveFs -----------------------------
(***************************************************************************)
(* Files of the host, opened and used by the enclave through long calls    *)
(* (enclave_fs.c, file_io.c).  The long-call thread serves one call at a   *)
(* time; a handle is the address of the struct file.  FREE closes what is  *)
(* left.  Addresses are numbers, 0 is NULL.                                *)
(***************************************************************************)
EXTENDS Integers, Sequences, FiniteSets, SequencesExt

CONSTANTS MaxPtr,       \* addresses a struct file can have
          DescLists,    \* descriptor lists of a read or write, as their sizes
          IoLengths,    \* lengths of a read or write
          MaxListed     \* bound: entries of the open file list

ASSUME FsAssumption ==
    /\ MaxPtr \in Nat /\ MaxListed \in Nat
    /\ DescLists \subseteq Seq(Nat)
    /\ IoLengths \subseteq Nat

Ptrs == 0 .. MaxPtr

VARIABLES
    files,             \* struct files that are open
    open_file_table,   \* the hash table, as the bag it implements
    open_file_list,
    num_files,
    call,              \* the read or write that is being served
    fs,                \* "up", "closing" and "freed" by FREE, "oops"
    lost               \* history: open files whose list node had no memory

fsvars == <<files, open_file_table, open_file_list, num_files, call, fs, lost>>

Tab == INSTANCE HashMap WITH Keys <- Ptrs, Word <- MaxPtr + 1,
                             pairs <- open_file_table, answer <- 0

NoIo == [pc |-> "idle", file |-> 0, length |-> 0, descs |-> <<>>, i |-> 0, left |-> 0,
         ret |-> 0, total |-> 0, done |-> <<>>, bad |-> FALSE]

FsTypeOK ==
    /\ files \subseteq Ptrs \ {0}
    /\ open_file_table \in [Tab!Pairs -> Nat]
    /\ open_file_list \in Seq(Ptrs)
    /\ num_files \in Nat
    /\ call.pc \in {"idle", "desc", "io", "answer"}
    /\ fs \in {"up", "closing", "freed", "oops"}
    /\ lost \subseteq Ptrs

FsInit ==
    /\ files = {} /\ open_file_table = Tab!Empty /\ open_file_list = <<>>
    /\ num_files = 0
    /\ call = NoIo
    /\ fs = "up"
    /\ lost = {}

\* htable_search: the value of the key, NULL if there is none.  A handle is
\* known if the search does not return NULL.
htable_found(p) == p # 0 /\ Tab!Values(open_file_table, p) # {}

Idle0 == fs = "up" /\ call.pc = "idle"
-----------------------------------------------------------------------------
\* file_open returns NULL, not an error pointer, when filp_open fails; the
\* caller only looks for error pointers.
file_open(p) == p = 0 \/ p \notin files

\* htable_insert and the kmalloc of the list node may each fail; the handle is
\* returned all the same.
enclave_vfs_open_lcall(p) ==
    /\ Idle0
    /\ file_open(p)
    /\ Len(open_file_list) < MaxListed /\ num_files < MaxListed
    /\ files' = files \cup ({p} \ {0})
    /\ IF htable_found(p)
       THEN UNCHANGED <<open_file_table, open_file_list, lost>>
       ELSE /\ open_file_table' \in {Tab!With(open_file_table, p, p), open_file_table}
            /\ \/ /\ open_file_list' = Append(open_file_list, p)
                  /\ UNCHANGED lost
               \/ /\ lost' = lost \cup ({p} \ {0})
                  /\ UNCHANGED open_file_list
    /\ num_files' = num_files + 1
    /\ UNCHANGED <<call, fs>>

\* The list keeps the closed file.
CloseSlip(p) ==
    /\ Idle0
    /\ htable_found(p)
    /\ open_file_table' = Tab!Without(open_file_table, p, p)
    /\ num_files' = num_files - 1
    /\ files' = files \ {p}
    /\ lost' = lost \ {p}
    /\ UNCHANGED <<open_file_list, call, fs>>

\* An unknown handle is answered -1.
enclave_vfs_close_lcall(p) ==
    /\ Idle0
    /\ htable_found(p)
    /\ open_file_table' = Tab!Without(open_file_table, p, p)
    /\ open_file_list' = RemoveFirst(open_file_list, p)
    /\ num_files' = num_files - 1
    /\ files' = files \ {p}
    /\ lost' = lost \ {p}
    /\ UNCHANGED <<call, fs>>
-----------------------------------------------------------------------------
(* A read or a write, which have the same loops: descriptor by descriptor, *)
(* and within one until it is full or the file operation returns nothing.  *)

IoBegin(p, descs, length) ==
    /\ Idle0
    /\ htable_found(p)
    /\ call' = [NoIo EXCEPT !.pc = "desc", !.file = p, !.length = length, !.descs = descs,
                            !.i = 1, !.done = [d \in DOMAIN descs |-> 0]]
    /\ UNCHANGED <<files, open_file_table, open_file_list, num_files, fs, lost>>

IoDesc ==
    /\ call.pc = "desc"
    /\ call' = IF call.i > Len(call.descs) \/ call.total >= call.length
               THEN [call EXCEPT !.pc = "answer"]
               ELSE [call EXCEPT !.pc = "io", !.left = call.descs[call.i], !.ret = 0]
    /\ UNCHANGED <<files, open_file_table, open_file_list, num_files, fs, lost>>

\* vfs_read or vfs_write moves ret bytes, none, or fails.
IoRoundSlip(ret) ==
    /\ call.pc = "io"
    /\ call.left > 0
    /\ ret \in -1 .. call.left
    /\ call' = IF ret > 0
               THEN [call EXCEPT !.left = @ - ret, !.ret = ret, !.total = @ + ret,
                                 !.done[call.i] = @ + ret]
               ELSE [call EXCEPT !.pc = "desc", !.i = @ + 1, !.bad = ret < 0]
    /\ UNCHANGED <<files, open_file_table, open_file_list, num_files, fs, lost>>

file_io(ret) ==
    /\ call.pc = "io"
    /\ call.left > 0
    /\ ret \in -1 .. call.left
    /\ call' = CASE ret > 0 -> [call EXCEPT !.left = @ - ret, !.ret = ret, !.total = @ + ret,
                                            !.done[call.i] = @ + ret]
                 [] ret = 0 -> [call EXCEPT !.pc = "answer", !.ret = 0]
                 [] ret < 0 -> [call EXCEPT !.pc = "desc", !.i = @ + 1, !.ret = ret,
                                            !.bad = TRUE]
    /\ UNCHANGED <<files, open_file_table, open_file_list, num_files, fs, lost>>

\* The descriptor is full; one that was empty from the start leaves ret at 0
\* and ends the call.
IoFull ==
    /\ call.pc = "io"
    /\ call.left = 0
    /\ call' = IF call.ret = 0 THEN [call EXCEPT !.pc = "answer"]
               ELSE [call EXCEPT !.pc = "desc", !.i = @ + 1]
    /\ UNCHANGED <<files, open_file_table, open_file_list, num_files, fs, lost>>

IoAnswer ==
    /\ call.pc = "answer"
    /\ call' = NoIo
    /\ UNCHANGED <<files, open_file_table, open_file_list, num_files, fs, lost>>
-----------------------------------------------------------------------------
(* FREE closes every listed file, then frees the table; closing NULL is an *)
(* oops.  The thread that serves calls is stopped only afterwards, so a    *)
(* read or write may be in progress.  The enclave is taken to begin no     *)
(* other call by then; the code does not see to it.                        *)

DeinitBegin ==
    /\ fs = "up"
    /\ fs' = "closing"
    /\ UNCHANGED <<files, open_file_table, open_file_list, num_files, call, lost>>

DeinitClose ==
    /\ fs = "closing"
    /\ open_file_list # <<>>
    /\ IF Head(open_file_list) = 0
       THEN fs' = "oops" /\ UNCHANGED <<files, open_file_list>>
       ELSE /\ files' = files \ {Head(open_file_list)}
            /\ open_file_list' = Tail(open_file_list)
            /\ UNCHANGED fs
    /\ UNCHANGED <<open_file_table, num_files, call, lost>>

DeinitTable ==
    /\ fs = "closing"
    /\ open_file_list = <<>>
    /\ open_file_table' = Tab!Empty
    /\ fs' = "freed"
    /\ UNCHANGED <<files, open_file_list, num_files, call, lost>>

\* A new enclave; the last one's thread has been stopped, between two calls,
\* and a file it lost stays open.
init_enclave_fs ==
    /\ fs = "freed"
    /\ call.pc = "idle"
    /\ fs' = "up"
    /\ num_files' = 0
    /\ UNCHANGED <<files, open_file_table, open_file_list, call, lost>>
-----------------------------------------------------------------------------
FsNext ==
    \/ \E p \in Ptrs : enclave_vfs_open_lcall(p) \/ enclave_vfs_close_lcall(p)
    \/ \E p \in Ptrs, descs \in DescLists, length \in IoLengths : IoBegin(p, descs, length)
    \/ IoDesc \/ IoFull \/ IoAnswer
    \/ \E ret \in -1 .. call.left : file_io(ret)
    \/ DeinitBegin \/ DeinitClose \/ DeinitTable \/ init_enclave_fs

FsSpec == FsInit /\ [][FsNext]_fsvars
-----------------------------------------------------------------------------
(* Properties.                                                             *)

Listed == {open_file_list[i] : i \in DOMAIN open_file_list} \ {0}

(* A handle the table knows is an open file, and so is every address on the
   list, which is there once: no call uses a file that was closed and FREE
   closes none twice, although opens fail half-way and addresses are used
   again.                                                                  *)
KnownIsOpen ==
    /\ fs \in {"up", "freed"} => \A p \in Ptrs : htable_found(p) => p \in files
    /\ Listed \subseteq files
    /\ \A i, j \in DOMAIN open_file_list :
        open_file_list[i] = open_file_list[j] /\ open_file_list[i] # 0 => i = j

(* No open file is forgotten: it is on the list that FREE walks, or there was
   no memory for its node.                                                 *)
NoFileForgotten == files = Listed \cup lost

Total(s) == FoldLeft(+, 0, s)

(* The status of a read or write is the number of bytes that were moved, no
   descriptor gets more than its size, and no descriptor is begun once the
   length that was asked for has been moved.                               *)
TransferExact ==
    call.pc # "idle" =>
        /\ call.total = Total(call.done)
        /\ \A d \in DOMAIN call.descs : call.done[d] <= call.descs[d]
        /\ \A d \in DOMAIN call.descs :
            call.done[d] > 0 => Total(SubSeq(call.done, 1, d - 1)) < call.length

(* Unless a file operation returned an error, the bytes are contiguous in the
   enclave's buffers: a descriptor has data only if those before it are full. *)
NoHole ==
    call.pc # "idle" /\ ~call.bad =>
        \A c, d \in DOMAIN call.descs :
            c < d /\ call.done[d] > 0 => call.done[c] = call.descs[c]

(* "Iterate through open files and close each one.": FREE gets through.  It is
   violated: an open that failed has left a NULL on the list, and file_close
   follows it.                                                             *)
DeinitCloses == fs # "oops"

(* The invariant of the open files: types, known handles are open files, and
   every open file is on the list that FREE walks or was lost when its node had
   no memory (enclave_vfs_open_lcall, enclave_vfs_close_lcall,
   deinit_enclave_fs).  That FREE gets to the end of the list is DeinitCloses,
   which does not hold.                                                    *)
FilesInv == FsTypeOK /\ KnownIsOpen /\ NoFileForgotten

(* A read or write moves what it says, and without a hole unless a file
   operation returned an error on the way (enclave_vfs_read_lcall,
   enclave_vfs_write_lcall).                                               *)
TransferInv == TransferExact /\ NoHole
=============================================================================
