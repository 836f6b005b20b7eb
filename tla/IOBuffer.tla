------------------------------- MODULE IOBuffer -------------------------------
(***************************************************************************)
(* The byte buffer of src/common/io_buffer.cpp as operators on values.      *)
(*                                                                         *)
(* Bytes live in blocks shared by every buffer; a buffer is a vector of     *)
(* slices of blocks.  The memory a thread works on is a record              *)
(*   heap   the written part of each block, heap[b] being block b: its      *)
(*          length is the block's "size", its room BlockSize minus that     *)
(*   chain  the thread's own s_tls_block_chain, as block numbers.           *)
(* Blocks no slice refers to are never read again, so they stay in the      *)
(* heap; only the ones append_from_file_descriptor frees unused are taken   *)
(* back, for else an idle reader would make the heap grow.                  *)
(***************************************************************************)
EXTENDS Naturals, Sequences, SequencesExt

CONSTANT BlockSize            \* the capacity of a block, in bytes
ASSUME BlockAssumption == BlockSize \in Nat \ {0}

IO_BUFFER_DEFAULT_SLICE_REF_SIZE == 4

EmptyBuffer == [_ref |-> <<>>, _ref_offset |-> 0]

Slice(block, offset, length) == [block |-> block, offset |-> offset, length |-> length]

freeSpace(m, b) == BlockSize - Len(m.heap[b])

createBlock(m) == [m EXCEPT !.heap = Append(@, <<>>)]

\* The chain without the full blocks at its head.
WithoutFullHeads(m) ==
    LET room == {i \in DOMAIN m.chain : freeSpace(m, m.chain[i]) > 0}
    IN  [m EXCEPT !.chain = IF room = {} THEN <<>>
                            ELSE SubSeq(@, Min(room), Len(@))]

\* The shared block is the head of the chain this returns.
shareBlockFromTLSChain(m) ==
    LET n == WithoutFullHeads(m)
    IN  IF n.chain # <<>> THEN n
        ELSE [createBlock(n) EXCEPT !.chain = <<Len(n.heap) + 1>>]

acquireBlockFromTLSChain(m) ==
    LET n == WithoutFullHeads(m)
    IN  IF n.chain # <<>>
        THEN [mem |-> [n EXCEPT !.chain = Tail(@)], block |-> Head(n.chain)]
        ELSE [mem |-> createBlock(n), block |-> Len(n.heap) + 1]

releaseBlockToTLSChain(m, b) ==
    IF freeSpace(m, b) = 0 THEN m ELSE [m EXCEPT !.chain = <<b>> \o @]

\* The slices of a buffer that are still to be read, and the bytes they hold.
Live(buf) == SubSeq(buf._ref, buf._ref_offset + 1, Len(buf._ref))
slice(heap, s) == SubSeq(heap[s.block], s.offset + 1, s.offset + s.length)

to_string(heap, buf) == FlattenSeq([i \in DOMAIN Live(buf) |-> slice(heap, Live(buf)[i])])
length(buf) == MapThenSumSet(LAMBDA i : buf._ref[i].length,
                             (buf._ref_offset + 1)..Len(buf._ref))

\* append(data, count): the bytes go to the thread's shared block, and prolong
\* the last slice when they follow it in the same block.  fillShared is a round of
\* the loop, with the shared block at the head of n's chain.
RECURSIVE append(_, _, _)
RECURSIVE fillShared(_, _, _)
append(m, buf, data) ==
    IF data = <<>> THEN [mem |-> m, buf |-> buf]
    ELSE fillShared(shareBlockFromTLSChain(m), buf, data)
fillShared(n, buf, data) ==
    LET b    == Head(n.chain)
        size == Len(n.heap[b])
        push_size == Min({Len(data), freeSpace(n, b)})
        back == buf._ref[Len(buf._ref)]
        follows == /\ Len(buf._ref) > buf._ref_offset
                   /\ back.block = b
                   /\ back.offset + back.length = size
    IN  append([n EXCEPT !.heap[b] = @ \o SubSeq(data, 1, push_size)],
               [buf EXCEPT !._ref =
                   IF follows THEN [@ EXCEPT ![Len(@)].length = @ + push_size]
                              ELSE Append(@, Slice(b, size, push_size))],
               SubSeq(data, push_size + 1, Len(data)))

\* What a protobuf message written through IOBufferZeroCopyOutputStream leaves:
\* Next hands out all the room of the shared block as a slice of its own, and
\* BackUp gives back what the last slice did not need.
RECURSIVE appendZeroCopy(_, _, _)
RECURSIVE OutputStreamNext(_, _, _)
appendZeroCopy(m, buf, data) ==
    IF data = <<>> THEN [mem |-> m, buf |-> buf]
    ELSE OutputStreamNext(shareBlockFromTLSChain(m), buf, data)
OutputStreamNext(n, buf, data) ==
    LET b    == Head(n.chain)
        used == Min({Len(data), freeSpace(n, b)})
    IN  appendZeroCopy([n EXCEPT !.heap[b] = @ \o SubSeq(data, 1, used)],
                       [buf EXCEPT !._ref = Append(@, Slice(b, Len(n.heap[b]), used))],
                       SubSeq(data, used + 1, Len(data)))

\* append(IOBuffer&&): every slice of the other buffer, the popped ones too.
appendBuffer(buf, other) == [buf EXCEPT !._ref = @ \o other._ref]

\* The blocks append_from_file_descriptor hands to readv, in order.
RECURSIVE acquireBlocks(_, _, _)
acquireBlocks(m, blocks, max_size) ==
    LET a == acquireBlockFromTLSChain(m)
        room == freeSpace(a.mem, a.block)
    IN  IF room >= max_size THEN [mem |-> a.mem, blocks |-> Append(blocks, a.block)]
        ELSE acquireBlocks(a.mem, Append(blocks, a.block), max_size - room)

RECURSIVE fillBlocks(_, _, _, _)
fillBlocks(m, buf, blocks, data) ==
    LET len  == Min({Len(data), freeSpace(m, Head(blocks))})
        b    == Head(blocks)
        n    == [m EXCEPT !.heap[b] = @ \o SubSeq(data, 1, len)]
        more == [buf EXCEPT !._ref = Append(@, Slice(b, Len(m.heap[b]), len))]
        left == IF freeSpace(n, b) = 0 THEN Tail(blocks) ELSE blocks
    IN  IF len = Len(data) THEN [mem |-> n, buf |-> more, blocks |-> left]
        ELSE fillBlocks(n, more, left, SubSeq(data, len + 1, Len(data)))

\* readv delivers data, empty when it reports an end of file or an error.
fillAcquired(a, buf, data) ==
    IF data = <<>> THEN [mem |-> a.mem, buf |-> buf, blocks |-> a.blocks]
    ELSE fillBlocks(a.mem, buf, a.blocks, data)

\* The first block with room goes back to the chain; releasing it overwrites its
\* link to the blocks acquired after it, which are freed with their last
\* reference: they are the newest ones of the heap.
releaseBlocks(f) ==
    IF f.blocks = <<>> THEN [mem |-> f.mem, buf |-> f.buf]
    ELSE [mem |-> [releaseBlockToTLSChain(f.mem, Head(f.blocks)) EXCEPT
                      !.heap = SubSeq(@, 1, Len(@) - (Len(f.blocks) - 1))],
          buf |-> f.buf]

append_from_file_descriptor(m, buf, max_size, data) ==
    releaseBlocks(fillAcquired(acquireBlocks(m, <<>>, max_size), buf, data))

\* Popped slices are dropped once more than four of them have gathered.
tryReleaseBlock(buf) ==
    IF buf._ref_offset > IO_BUFFER_DEFAULT_SLICE_REF_SIZE
    THEN [_ref |-> Live(buf), _ref_offset |-> 0]
    ELSE buf

\* A slice that has been popped: it keeps its place until tryReleaseBlock drops
\* it, and is never read.
Popped == Slice(0, 0, 0)

\* The slices over the first n bytes of a list of slices, and those over the rest.
RECURSIVE Split(_, _)
Split(refs, n) ==
    IF n = 0 \/ refs = <<>> THEN [front |-> <<>>, gone |-> 0, rest |-> refs]
    ELSE LET s == Head(refs)
             t == Split(Tail(refs), n - s.length)
         IN  IF n < s.length
             THEN [front |-> <<[s EXCEPT !.length = n]>>, gone |-> 0,
                   rest  |-> <<Slice(s.block, s.offset + n, s.length - n)>> \o Tail(refs)]
             ELSE [front |-> <<s>> \o t.front, gone |-> t.gone + 1, rest |-> t.rest]

\* The slices that are popped whole are skipped, the last one is shortened.
pop_front(buf, n) ==
    LET s == Split(Live(buf), n)
        offset == buf._ref_offset + s.gone
    IN  tryReleaseBlock([_ref |-> [i \in 1..offset |-> Popped] \o s.rest,
                         _ref_offset |-> offset])

\* cut(IOBuffer* out, n): the slices move to out, the bytes are not copied.
cutInto(out, buf, n) == [out EXCEPT !._ref = @ \o Split(Live(buf), n).front]

\* copy_to(void* out, n): the first n bytes, or all there are.
copy_to(heap, buf, n) ==
    LET bytes == to_string(heap, buf) IN SubSeq(bytes, 1, Min({n, Len(bytes)}))
\* cut(void* out, n) copies the bytes and pops them.
cut(heap, buf, n) == [bytes |-> copy_to(heap, buf, n), buf |-> pop_front(buf, n)]

\* IOBufferZeroCopyInputStream, over a buffer that stays as it is: Next hands out
\* the slices one after the other.
InputStream(buf) == [_ref_index |-> buf._ref_offset, _byte_count |-> 0]
InputStreamNext(buf, s) ==
    [_ref_index |-> s._ref_index + 1,
     _byte_count |-> s._byte_count + buf._ref[s._ref_index + 1].length]
===============================================================================
