----------------------------- MODULE BootParams -----------------------------
(***************************************************************************)
(* pisces_boot_params.c: what setup_boot_params puts where in the boot     *)
(* memory, area after area, and the loops that read the kernel and the     *)
(* initrd into it.  RESET runs it again over the same memory.  Addresses   *)
(* are offsets in the boot memory, which is taken to be large enough: the  *)
(* code does not compare.                                                  *)
(***************************************************************************)
EXTENDS Integers, Sequences

CONSTANTS Page4KB, Page2MB,    \* PAGE_SIZE_4KB, PAGE_SIZE_2MB
          BssPages,            \* 2MB pages left free after the kernel
          HeaderSizes,         \* sizes struct pisces_boot_params may have
          ConsSize,            \* sizeof(struct pisces_cons_ringbuf)
          ImageLens,           \* lengths of the image files
          Stubborn             \* LAUNCH or RESET again after an unreadable image?

ASSUME BootParamsAssumption ==
    /\ Page4KB \in Nat \ {0} /\ Page2MB \in Nat \ {0} /\ Page2MB % Page4KB = 0
    /\ BssPages \in Nat /\ ConsSize \in Nat \ {0}
    /\ HeaderSizes \subseteq Nat \ {0} /\ ImageLens \subseteq Nat
    /\ Stubborn \in BOOLEAN

Areas  == <<"header", "console", "control", "longcall", "xpmem", "kernel", "initrd">>
Images == {"kernel", "initrd"}

VARIABLES
    b_step,      \* the area that is set up next; 0 before LAUNCH, 8 when done
    b_offset,    \* offset
    b_area,      \* address and size of each area, as boot_params records them
    b_read,      \* bytes_read of the image that is being loaded
    b_mem,       \* what each address holds: an area and a position in it
    b_open,      \* image files that were not closed
    b_len,       \* length of the files, and of the header
    b_fail       \* how the last setup failed: "no", "setup", or "read"

bvars == <<b_step, b_offset, b_area, b_read, b_mem, b_open, b_len, b_fail>>

ALIGN(x, a) == ((x + a - 1) \div a) * a

Nowhere == [at |-> 0, size |-> 0]
Zeroes  == [a \in {} |-> <<"zero", 0>>]

BInit ==
    /\ b_step = 0 /\ b_offset = 0 /\ b_read = 0
    /\ b_area = [n \in 1 .. 7 |-> Nowhere]
    /\ b_mem = Zeroes
    /\ b_open = Images
    /\ b_len \in [kernel : ImageLens, initrd : ImageLens, header : HeaderSizes]
    /\ b_fail = "no"

\* Writing area n from position pos on.
Write(m, n, at, pos, len) ==
    [a \in DOMAIN m \cup at + pos .. at + pos + len - 1 |->
        IF a \in at + pos .. at + pos + len - 1 THEN <<Areas[n], a - at>> ELSE m[a]]

\* LAUNCH or RESET: the boot memory is cleared, and the launch code and the
\* basic parameters are stored.
BootBegin ==
    /\ b_step \in {0, 8}
    /\ Stubborn \/ b_fail # "read"
    /\ b_area' = [n \in 1 .. 7 |-> IF n = 1 THEN [at |-> 0, size |-> b_len.header] ELSE Nowhere]
    /\ b_mem' = Write(Zeroes, 1, 0, 0, b_len.header)
    /\ b_offset' = b_len.header
    /\ b_step' = 2
    /\ b_fail' = "no"
    /\ UNCHANGED <<b_read, b_open, b_len>>

\* The channels' buffers are cleared memory; what is recorded is their place.
SetupArea(n, at, size) ==
    /\ b_area' = [b_area EXCEPT ![n] = [at |-> at, size |-> size]]
    /\ b_mem' = Write(b_mem, n, at, 0, size)
    /\ b_offset' = at + size
    /\ b_step' = n + 1
    /\ UNCHANGED <<b_read, b_open, b_len, b_fail>>

SetupConsole == b_step = 2 /\ SetupArea(2, ALIGN(b_offset, Page4KB), ConsSize)

\* The control, long-call and XPMEM buffers, one page each.
SetupChannel == b_step \in 3 .. 5 /\ SetupArea(b_step, ALIGN(b_offset, Page4KB), Page4KB)

\* The long-call or the XPMEM channel cannot be initialised, LOAD got no file for
\* the image, or the kernel would not be at the 2MB offset.  pisces_cons_init and
\* pisces_ctrl_init return 0 whatever happens, so the areas 2 and 3 do not fail.
SetupFails ==
    /\ b_step \in 4 .. 7
    /\ b_area[b_step] = Nowhere
    /\ b_step' = 8
    /\ b_fail' = "setup"
    /\ UNCHANGED <<b_offset, b_area, b_read, b_mem, b_open, b_len>>

Image == Areas[b_step]

\* The place and the size of the image; the size is what file_size says, which
\* may be the -1 of a failed stat (a number larger than any file).
LoadBegin ==
    /\ b_step \in {6, 7}
    /\ b_area[b_step] = Nowhere
    /\ b_step = 6 => ALIGN(b_offset, Page2MB) = Page2MB
    /\ \E size \in {b_len[Image], b_len[Image] + Page2MB} :
        b_area' = [b_area EXCEPT ![b_step] = [at |-> ALIGN(b_offset, Page2MB), size |-> size]]
    /\ UNCHANGED <<b_step, b_offset, b_read, b_mem, b_open, b_len, b_fail>>

\* Every round reads to the start of the target.
LoadReadSlip(ret) ==
    /\ b_step \in {6, 7} /\ b_area[b_step] # Nowhere
    /\ ret \in 1 .. b_len[Image] - b_read
    /\ b_read + ret <= b_area[b_step].size
    /\ b_mem' = [a \in DOMAIN b_mem \cup b_area[b_step].at .. b_area[b_step].at + ret - 1 |->
                   IF a \in b_area[b_step].at .. b_area[b_step].at + ret - 1
                   THEN <<Image, b_read + a - b_area[b_step].at>> ELSE b_mem[a]]
    /\ b_read' = b_read + ret
    /\ UNCHANGED <<b_step, b_offset, b_area, b_open, b_len, b_fail>>

\* One round of the loop: file_read returns ret bytes, as few as it likes.
LoadRead(ret) ==
    /\ b_step \in {6, 7} /\ b_area[b_step] # Nowhere
    /\ ret \in 1 .. b_len[Image] - b_read
    /\ b_read + ret <= b_area[b_step].size
    /\ b_mem' = Write(b_mem, b_step, b_area[b_step].at, b_read, ret)
    /\ b_read' = b_read + ret
    /\ UNCHANGED <<b_step, b_offset, b_area, b_open, b_len, b_fail>>

\* The loop is left with an error or the end of the file: the image is closed.
LoadFails ==
    /\ b_step \in {6, 7} /\ b_area[b_step] # Nowhere
    /\ b_read < b_area[b_step].size
    /\ b_open' = b_open \ {Image}
    /\ b_read' = 0
    /\ b_step' = 8
    /\ b_fail' = "read"
    /\ UNCHANGED <<b_offset, b_area, b_mem, b_len>>

\* After the kernel some space is left for its BSS.
LoadDone ==
    /\ b_step \in {6, 7} /\ b_area[b_step] # Nowhere
    /\ b_read = b_area[b_step].size
    /\ b_offset' = b_area[b_step].at + b_read
                     + (IF b_step = 6 THEN BssPages * Page2MB ELSE 0)
    /\ b_read' = 0
    /\ b_step' = b_step + 1
    /\ UNCHANGED <<b_area, b_mem, b_open, b_len, b_fail>>

BNext ==
    \/ BootBegin \/ SetupConsole \/ SetupChannel \/ SetupFails
    \/ LoadBegin \/ LoadFails \/ LoadDone
    \/ \E ret \in 1 .. Page2MB : LoadRead(ret)

BSpec == BInit /\ [][BNext]_bvars
-----------------------------------------------------------------------------
(* Properties.                                                             *)

\* A setup that was not given up and has come past area n.
Past(n) == b_step > n /\ b_fail = "no"

(* Every area holds its own bytes, each at its own position, when the later
   ones have been set up too: no two overlap, an image read in many rounds is
   whole, and nothing of an earlier, failed launch is left.                *)
AreasIntact ==
    \A n \in 1 .. 7 : Past(n) =>
        \A i \in 0 .. b_area[n].size - 1 : b_mem[b_area[n].at + i] = <<Areas[n], i>>

(* The layout pisces_boot_params.h gives the enclave's kernel: areas on 4KB
   boundaries, the kernel at 2MB, the initrd on a 2MB boundary with room for
   the BSS before it, and memory the loader did not fill is zero.          *)
LayoutKept ==
    /\ \A n \in 1 .. 7 : Past(n) => b_area[n].at % Page4KB = 0
    /\ Past(6) => b_area[6].at = Page2MB
    /\ Past(7) => /\ b_area[7].at % Page2MB = 0
                  /\ b_area[7].at >= b_area[6].at + b_area[6].size + BssPages * Page2MB
    /\ Past(7) => \A a \in DOMAIN b_mem :
            \E n \in 1 .. 7 : a \in b_area[n].at .. b_area[n].at + b_area[n].size - 1

(* An image that is being read is open, in every launch: RESET loads both again
   from the files LOAD got.                                                *)
ImageOpen == b_step \in {6, 7} /\ b_area[b_step] # Nowhere => Image \in b_open

(* The boot memory of every launch that comes through: whole areas, in the
   layout the enclave expects, from images that were open
   (setup_boot_params, load_kernel, load_initrd).                          *)
BootInv == AreasIntact /\ LayoutKept /\ ImageOpen
=============================================================================
