---------------------------- MODULE MCSegConfig ----------------------------
(***************************************************************************)
(* The environments SegConfig is checked in.                               *)
(***************************************************************************)
EXTENDS SegConfig

\* Everything that can fail, in an address space so small that pages are used
\* again; all sizes asked for are the same number of pages.
Reuse ==
  [events: {{"exec", "kill_remove"},
            {"mmap_fail", "munmap_fail", "write_fail", "kill_init"}},
   lastPage: {7}, sizes: {{0, 4}}]

\* The size of the data segment changes, and the kernel leaves a page free on
\* both sides of every mapping; with and without lost system calls.
Resize ==
  [events: {{"spaced"}, {"spaced", "step_signal"}},
   lastPage: {17}, sizes: {{0, 5}}]

\* The size changes, and mappings may be adjacent.
Grow == [events: {{}}, lastPage: {6}, sizes: {{0, 5}}]

ReuseAndResize == Reuse \cup Resize
=============================================================================
