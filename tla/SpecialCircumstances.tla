------------------------ MODULE SpecialCircumstances ------------------------
(***************************************************************************)
(* The two atomic words of class SpecialCircumstances (m_flags and         *)
(* m_map_flags), as sets of bits, and what each member function does to    *)
(* one of them in one atomic step.  An OR is a union, an AND with a mask   *)
(* an intersection; m_map_flags = 3 is the set {1, 2}.                     *)
(***************************************************************************)
EXTENDS Naturals

extent_changed_bit        == "extent_changed"
must_close_bit            == "must_close"
have_no_swapchain_bit     == "have_no_swapchain"
have_synchronous_task_bit == "have_synchronous_task"
minimized_bit             == "minimized"
map_changed_bit           == "map_changed"

Bits == {extent_changed_bit, must_close_bit, have_no_swapchain_bit,
         have_synchronous_task_bit, minimized_bit, map_changed_bit}

\* The bits that decide can_render; only the render loop ever changes them.
CantRenderBits == {have_no_swapchain_bit, minimized_bit}

can_render(flags) == flags \cap CantRenderBits = {}

-----------------------------------------------------------------------------
\* m_map_flags: the states A, B, C and D of the diagram in the header.
MapBits == {1, 2}
MAPPED_bit == 2

handled_UNMAPPED   == {1}        \* A
unhandled_UNMAPPED == {}         \* B
handled_MAPPED     == {2}        \* C
unhandled_MAPPED   == {1, 2}     \* D

is_mapped(map_flags) == MAPPED_bit \in map_flags
unhandled(map_flags) == map_flags \in {unhandled_UNMAPPED, unhandled_MAPPED}

\* The X server thread: fetch_or / fetch_and of set_mapped and set_unmapped.
OR_UNMAPPED_to_MAPPED(map_flags)  == map_flags \cup {1, 2}
AND_MAPPED_to_UNMAPPED(map_flags) == map_flags \cap {}

\* The render loop, given the value it loaded when it began to handle the
\* change: fetch_and(2) when that was mapped, fetch_or(1) when it was not.
handle_map(loaded, map_flags) ==
  IF is_mapped(loaded) THEN map_flags \cap {2} ELSE map_flags \cup {1}

=============================================================================
