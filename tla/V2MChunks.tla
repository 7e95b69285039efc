------------------------------ MODULE V2MChunks ------------------------------
(***************************************************************************)
(* The v2m table builder of the KVM shm-snapshot engine                    *)
(* (driver/kvm/kvm.c): the chunk-coalescing helpers                        *)
(* insert_v2p_page_pair_to_m2p_chunk_list and                              *)
(* insert_v2p_page_pair_to_v2m_chunk_list, the per-chunk mapping loop of   *)
(* setup_v2m_table (probe_v2m_medial_addr, mmap_m2p_chunks,                *)
(* delete_m2p_chunks) as pure operators, lookup_v2m_table, and           *)
(* walkthrough_shm_snapshot_pagetable with setup_v2m_table as the code     *)
(* writes them: the walk's list never reaches the mapping loop.            *)
(*                                                                         *)
(* Addresses are counted in 4 KiB frames: a page of Sizes 1 is a 4K page,  *)
(* 2 a large page.  A mapping of host (medial) memory is a function from   *)
(* the offset inside a v2m chunk's reserved region to the offset in the    *)
(* snapshot file, i.e. the guest physical frame it shows.                  *)
(***************************************************************************)
EXTENDS Integers, Sequences, SequencesExt, Bitwise

CONSTANTS
    VFrames,    \* guest virtual frames the page list may use
    PFrames,    \* guest physical frames the page list may use
    Sizes,      \* page sizes, in frames (powers of two)
    MemSize,    \* vmi->size, the snapshot file size, in frames
    MaxPages    \* longest page list vmi_get_va_pages returns in the model

ASSUME /\ MemSize \in Nat \ {0}
       /\ \A s \in Sizes : \E k \in 0..4 : s = 2^k

VARIABLES
    pages,   \* the list vmi_get_va_pages(vmi, dtb) returned
    pending, \* the list nodes the walk's loop cursor has still to visit
    chunks,  \* the walk's local v2m chunk list (its v2m_chunk_list copy)
    frees,   \* frees[i]: how often the walk has freed the i-th page_info_t
    phase,   \* "walk", "done"
    status   \* result of setup_v2m_table: "none", "success", "failure"

vars == <<pages, pending, chunks, frees, phase, status>>

(***************************************************************************)
(* Pages as vmi_get_va_pages yields them: aligned, sorted by vaddr and not *)
(* overlapping (the depth-first pagetable traversal).                      *)
(***************************************************************************)
Page == [vaddr : VFrames, paddr : PFrames, size : Sizes]

Aligned(p) == p.vaddr % p.size = 0 /\ p.paddr % p.size = 0

PageLists ==
    { s \in BoundedSeq({p \in Page : Aligned(p)}, MaxPages) :
        \A i \in 1..Len(s) - 1 : s[i].vaddr + s[i].size <= s[i+1].vaddr }

(* end_vaddr = start_vaddr | (page->size-1), likewise for paddr *)
EndOf(a, size) == a | (size - 1)

InRam(p) == p.paddr < MemSize

(***************************************************************************)
(* insert_v2p_page_pair_to_m2p_chunk_list: the list head is its last       *)
(* element; a pair physically contiguous with it extends it, any other     *)
(* pair starts a new m2p chunk.                                            *)
(***************************************************************************)
NewM2P(sv, ev, sp, ep) ==
    [vaddr_begin |-> sv, vaddr_end |-> ev, paddr_begin |-> sp, paddr_end |-> ep]

(* Defective variant (mutation runs): extends the head chunk without      *)
(* checking physical contiguity.                                           *)
insert_m2p_any(list, sv, ev, sp, ep) ==
    IF list = <<>> THEN <<NewM2P(sv, ev, sp, ep)>>
    ELSE [list EXCEPT ![Len(list)].vaddr_end = ev, ![Len(list)].paddr_end = ep]

insert_m2p(list, sv, ev, sp, ep) ==
    IF list = <<>> THEN <<NewM2P(sv, ev, sp, ep)>>
    ELSE IF sp = Last(list).paddr_end + 1
         THEN [list EXCEPT ![Len(list)].vaddr_end = ev,
                           ![Len(list)].paddr_end = ep]
         ELSE Append(list, NewM2P(sv, ev, sp, ep))

(***************************************************************************)
(* insert_v2p_page_pair_to_v2m_chunk_list: a pair virtually contiguous     *)
(* with the head v2m chunk extends it (and goes into its m2p list), any    *)
(* other pair starts a new v2m chunk with a fresh m2p list.                *)
(***************************************************************************)
NewV2M(sv, ev, sp, ep) ==
    [vaddr_begin |-> sv, vaddr_end |-> ev,
     m2p_chunks |-> insert_m2p(<<>>, sv, ev, sp, ep), medial |-> <<>>]

insert_v2m(list, sv, ev, sp, ep) ==
    IF list = <<>> THEN <<NewV2M(sv, ev, sp, ep)>>
    ELSE IF sv = Last(list).vaddr_end + 1
         THEN [list EXCEPT
                 ![Len(list)].m2p_chunks = insert_m2p(@, sv, ev, sp, ep),
                 ![Len(list)].vaddr_end = ev]
         ELSE Append(list, NewV2M(sv, ev, sp, ep))

InsertPage(list, p) ==
    insert_v2m(list, p.vaddr, EndOf(p.vaddr, p.size),
                     p.paddr, EndOf(p.paddr, p.size))

(***************************************************************************)
(* mmap_m2p_chunks: each m2p chunk is mapped MAP_FIXED at                  *)
(* medial + map_offset from file offset paddr_begin, and map_offset grows  *)
(* by the chunk's size; a later mapping replaces an earlier one where they *)
(* overlap.                                                                *)
(***************************************************************************)
(* Defective variant (mutation runs): map_offset never advances.          *)
RECURSIVE MapFrom_fixed(_, _, _)
MapFrom_fixed(list, map_offset, medial) ==
    IF list = <<>> THEN medial
    ELSE LET c == Head(list)
         IN  MapFrom_fixed(Tail(list), map_offset,
                [o \in map_offset..map_offset + c.vaddr_end - c.vaddr_begin |->
                     c.paddr_begin + (o - map_offset)] @@ medial)

RECURSIVE MapFrom(_, _, _)
MapFrom(list, map_offset, medial) ==
    IF list = <<>> THEN medial
    ELSE LET c    == Head(list)
             size == c.vaddr_end - c.vaddr_begin + 1
         IN  MapFrom(Tail(list), map_offset + size,
                     [o \in map_offset..map_offset + size - 1 |->
                          c.paddr_begin + (o - map_offset)] @@ medial)

mmap_m2p_chunks(list) == MapFrom(list, 0, <<>>)

(***************************************************************************)
(* lookup_v2m_table: the first chunk containing vaddr gives the medial     *)
(* address medial + (vaddr - vaddr_begin) and the length to the chunk end; *)
(* a medial address no MAP_FIXED overlay covers shows no frame.           *)
(***************************************************************************)
Unmapped == -1

lookup_v2m_table(list, v) ==
    LET hits == {i \in 1..Len(list) :
                    list[i].vaddr_begin <= v /\ v <= list[i].vaddr_end}
    IN  IF hits = {} THEN [size |-> 0]
        ELSE LET c   == list[Min(hits)]
                 off == v - c.vaddr_begin
             IN  [size |-> c.vaddr_end - v + 1,
                  frame |-> IF off \in DOMAIN c.medial THEN c.medial[off]
                                                     ELSE Unmapped]

(***************************************************************************)
(* walkthrough_shm_snapshot_pagetable as written: it builds the chunk list *)
(* in local copies of the two list pointers and never stores them back     *)
(* through v2m_chunk_list_ptr, so the caller's list stays NULL whatever    *)
(* the loop inserted (the loop itself reads pages->data, the first page,   *)
(* on every iteration).  It fails only when the page list is empty.        *)
(***************************************************************************)
walkthrough_result(list) == <<>>

walkthrough_status(list) == IF list = <<>> THEN "failure" ELSE "success"

(***************************************************************************)
(* The chunk builder and the mapping loop as pure operators: the table the *)
(* insert helpers build when handed the in-RAM pages of a list in order,   *)
(* and that table as setup_v2m_table's loop maps a list it is handed (it  *)
(* is handed none: see SetupTable).                                        *)
(***************************************************************************)
BuildChunks(list) == FoldLeft(InsertPage, <<>>, SelectSeq(list, InRam))

MapChunks(list) ==
    [i \in DOMAIN list |-> [list[i] EXCEPT
                              !.medial = mmap_m2p_chunks(list[i].m2p_chunks),
                              !.m2p_chunks = <<>>]]

-----------------------------------------------------------------------------

(* The walk starts on the list vmi_get_va_pages returned for the dtb. *)
InitBuild ==
    /\ pages \in PageLists
    /\ pending = pages
    /\ chunks = <<>>
    /\ frees = [i \in 1..Len(pages) |-> 0]
    /\ phase = "walk"
    /\ status = "none"

(* Defective variant (mutation runs): the loop cursor is never advanced.  *)
InsertPagePair_no_advance ==
    /\ phase = "walk"
    /\ pending # <<>>
    /\ LET p == Head(pages) IN
         chunks' = IF InRam(p) THEN InsertPage(chunks, p) ELSE chunks
    /\ frees' = [frees EXCEPT ![1] = @ + 1]
    /\ UNCHANGED <<pages, pending, phase, status>>

(***************************************************************************)
(* One iteration of walkthrough_shm_snapshot_pagetable's loop: the cursor  *)
(* advances, but the page is read from pages->data, the head of the list,  *)
(* on every iteration; it goes to the builder when its start frame is      *)
(* inside the snapshot, and then free(page) frees that head page again.    *)
(***************************************************************************)
InsertPagePair ==
    /\ phase = "walk"
    /\ pending # <<>>
    /\ LET p == Head(pages) IN
         chunks' = IF InRam(p) THEN InsertPage(chunks, p) ELSE chunks
    /\ frees' = [frees EXCEPT ![1] = @ + 1]
    /\ pending' = Tail(pending)
    /\ UNCHANGED <<pages, phase, status>>

(***************************************************************************)
(* The walk returns VMI_SUCCESS for a non-empty page list, and             *)
(* setup_v2m_table goes on with its own v2m_chunk_list, which the walk     *)
(* never wrote: the mapping loop runs over NULL and insert_v2m_table adds  *)
(* a table whose v2m_chunks is walkthrough_result, the empty list.         *)
(***************************************************************************)
SetupTable ==
    /\ phase = "walk"
    /\ pending = <<>>
    /\ walkthrough_status(pages) = "success"
    /\ phase' = "done"
    /\ status' = "success"
    /\ UNCHANGED <<pages, pending, chunks, frees>>

(* An empty page list: the walk, and so setup_v2m_table, return failure. *)
SetupTableFails ==
    /\ phase = "walk"
    /\ pending = <<>>
    /\ walkthrough_status(pages) = "failure"
    /\ phase' = "done"
    /\ status' = "failure"
    /\ UNCHANGED <<pages, pending, chunks, frees>>

Next ==
    \/ InsertPagePair
    \/ SetupTable
    \/ SetupTableFails

BuildSpec == InitBuild /\ [][Next]_vars

-----------------------------------------------------------------------------

TypeOK ==
    /\ pages \in PageLists
    /\ \E k \in 0..Len(pages) : pending = SubSeq(pages, k + 1, Len(pages))
    /\ \A i \in DOMAIN chunks :
          /\ chunks[i].vaddr_begin \in Nat
          /\ chunks[i].vaddr_end \in Nat
          /\ chunks[i].m2p_chunks \in Seq([vaddr_begin : Nat, vaddr_end : Nat,
                                            paddr_begin : Nat, paddr_end : Nat])
    /\ frees \in [1..Len(pages) -> 0..MaxPages]
    /\ phase \in {"walk", "done"}
    /\ status \in {"none", "success", "failure"}

(* The pages of the list whose start frame lies inside the snapshot, as    *)
(* (virtual frame, physical frame) pairs, large pages split into frames.   *)
FramePairs(list) ==
    UNION { { <<list[i].vaddr + k, list[i].paddr + k>> : k \in 0..list[i].size - 1 }
            : i \in {j \in 1..Len(list) : InRam(list[j])} }

(***************************************************************************)
(* Reference definition of the table: maximal runs of virtually contiguous *)
(* in-RAM pages, each split into maximal physically contiguous runs.       *)
(***************************************************************************)
VJoin(p, q) == EndOf(p.vaddr, p.size) + 1 = q.vaddr
PJoin(p, q) == EndOf(p.paddr, p.size) + 1 = q.paddr

(* the list cut into maximal runs; kind "v" joins virtually contiguous    *)
(* pages, kind "p" physically contiguous ones                             *)
RECURSIVE RunsOf(_, _)
RunsOf(list, kind) ==
    IF list = <<>> THEN <<>>
    ELSE LET rest  == RunsOf(Tail(list), kind)
             joins == IF kind = "v" THEN VJoin(Head(list), Head(Head(rest)))
                                    ELSE PJoin(Head(list), Head(Head(rest)))
         IN  IF rest # <<>> /\ joins
             THEN <<<<Head(list)>> \o Head(rest)>> \o Tail(rest)
             ELSE <<<<Head(list)>>>> \o rest

RefTable(list) ==
    LET inRam == SelectSeq(list, InRam)
    IN  [r \in DOMAIN RunsOf(inRam, "v") |->
           LET run == RunsOf(inRam, "v")[r] IN
           [vaddr_begin |-> run[1].vaddr,
            vaddr_end   |-> EndOf(Last(run).vaddr, Last(run).size),
            m2p_chunks  |-> [k \in DOMAIN RunsOf(run, "p") |->
                              LET m == RunsOf(run, "p")[k] IN
                              NewM2P(m[1].vaddr, EndOf(Last(m).vaddr, Last(m).size),
                                     m[1].paddr, EndOf(Last(m).paddr, Last(m).size))]]]

Shape(list) ==
    [i \in DOMAIN list |-> [vaddr_begin |-> list[i].vaddr_begin,
                            vaddr_end   |-> list[i].vaddr_end,
                            m2p_chunks  |-> list[i].m2p_chunks]]

(***************************************************************************)
(* The insert helpers coalesce correctly: handed the in-RAM pages of any   *)
(* sorted page list in order, insert_v2p_page_pair_to_v2m_chunk_list and   *)
(* insert_v2p_page_pair_to_m2p_chunk_list build the reference table, with  *)
(* no two chunks that should be one and no chunk joining pages that are    *)
(* not contiguous.                                                         *)
(***************************************************************************)
BuilderMatchesReference == Shape(BuildChunks(pages)) = RefTable(pages)

(***************************************************************************)
(* Once the walk has visited every page, its chunk list is the reference   *)
(* table of the page list (spec 4.G: all mapped pages are enumerated and   *)
(* coalesced); walkthrough_shm_snapshot_pagetable reads pages->data on     *)
(* every iteration.                                                        *)
(***************************************************************************)
ChunksMatchReference ==
    pending = <<>> => Shape(chunks) = RefTable(pages)

(***************************************************************************)
(* Over the table the helpers build and the mapping loop maps, every       *)
(* in-RAM guest frame of the list is found by lookup_v2m_table, the medial *)
(* address it returns shows exactly that guest physical frame of the       *)
(* snapshot, and the length runs to the end of the containing chunk        *)
(* (mmap_m2p_chunks' map_offset arithmetic, MAP_FIXED overlays).           *)
(***************************************************************************)
LookupCorrect ==
    LET table == MapChunks(BuildChunks(pages)) IN
    \A vp \in FramePairs(pages) :
        LET r == lookup_v2m_table(table, vp[1]) IN
        /\ r.size > 0
        /\ r.frame = vp[2]
        /\ \E i \in 1..Len(table) :
              /\ table[i].vaddr_begin <= vp[1]
              /\ r.size = table[i].vaddr_end - vp[1] + 1

(***************************************************************************)
(* The walk releases every page_info_t of the list exactly once: no page   *)
(* is freed twice while the loop runs, and none is left allocated once     *)
(* setup_v2m_table has returned (free(page) in                             *)
(* walkthrough_shm_snapshot_pagetable, g_slist_free frees only the nodes). *)
(***************************************************************************)
PagesFreedOnce ==
    /\ \A i \in DOMAIN frees : frees[i] <= 1
    /\ phase = "done" => \A i \in DOMAIN frees : frees[i] = 1

=============================================================================
