------------------------------- MODULE MCBoot -------------------------------
(* The boot page table with the numbers of the code, in blocks; a block has *)
(* 16 bytes, a page 8, described by 3.                                      *)
EXTENDS Boot

\* The first blocks of both halves and those around each boundary, in every GB
\* that shares an index with one that is mapped.
Bases == {0, 512, 1024, 512 * 512, KERNEL_VADDR, KERNEL_VADDR + 512,
          KERNEL_VADDR + 1024, KERNEL_VADDR + 512 * 512, KERNEL_VADDR - 512}

MCAddresses ==
  {b + i : b \in Bases,
           i \in {0, 1, 2, 3, 255, 256, 487, 488, 503, 504, 505, 510, 511}}

\* Room for all of memory, for no page, for part of one; an image that ends within a
\* page; the remainders of a page with its struct page.
MCImgEnds == {0, MemEnd - 1, MemEnd - 32, MemEnd - 56, MemEnd - 85}

\* The code and the UART, low and high.
MCProbes == [tag : {0}, va : {0, 505}] \cup [tag : {1}, va : {KERNEL_VADDR, KERNEL_VADDR + 505}]
=============================================================================
