------------------------------ MODULE FileView -------------------------------
(***************************************************************************)
(* The individual file pointer of one process and the bytes it reaches     *)
(* through the file view (ad_seek.c, get_fp_posn.c, eof_offset.c,          *)
(* ad_set_view.c, Calc_my_off_len, the strided and the contiguous          *)
(* accesses).                                                              *)
(*                                                                         *)
(* fp_ind is an absolute byte; the application counts in etypes of the     *)
(* view.  Every kind of access has its own walk through the flattened      *)
(* filetype, each with its own way to find where to start and where to     *)
(* leave the pointer, and a program may mix them.  bpos is where the       *)
(* pointer should be, in visible bytes.                                    *)
(***************************************************************************)
EXTENDS Integers, Sequences, FiniteSetsExt, SequencesExt

CONSTANTS
    Views,      \* bound: views, with flattened filetypes
    Buffers,    \* bound: flattened buffer types
    Counts,     \* bound: buffer types per access
    Offsets,    \* bound: offsets of seeks and explicit accesses, in etypes
    MaxByte,    \* bound: bytes of the view the pointer may pass
    FileSizes,  \* lengths of the file at the start
    Drivers,    \* "gen": no cache; "cached": generic driver, cache open;
                \*   "beegfs": the BeeGFS driver's own WriteContig
    Mixed       \* naive accesses and others are used on views with empty blocks

SizeOf(bs) == FoldLeft(LAMBDA n, b : n + b.len, 0, bs)

ASSUME FileViewAssumption ==
    /\ \A v \in Views :
          /\ SizeOf(v.blocks) > 0 /\ SizeOf(v.blocks) % v.esize = 0
          /\ v.contig => v.blocks = <<[idx |-> 0, len |-> v.extent]>>
    /\ \A b \in Buffers :
          b.contig => b.blocks = <<[idx |-> 0, len |-> b.extent]>>

VARIABLES
    driver,
    sieving,   \* hints->ds_read ("r") and ds_write ("w") are not disabled
    view,      \* fd->disp, etype_size, filetype
    fp_ind,    \* fd->fp_ind
    cache_fp,  \* fd->cache_fd->fp_ind
    fsize,     \* length of the file
    bpos,      \* history: visible bytes before the pointer
    wrong,     \* history: the bytes the last access misplaced, by number
    spare      \* history: entries allocated for its offset list and not used

vars == <<driver, sieving, view, fp_ind, cache_fp, fsize, bpos, wrong, spare>>

(***************************************************************************)
(* The flattened filetype, repeated: blocks are numbered from 0 on         *)
(***************************************************************************)
Cnt(v) == Len(v.blocks)
Size(v) == SizeOf(v.blocks)
Block(v, t) == v.blocks[(t % Cnt(v)) + 1]
BlockOff(v, t) == v.disp + Block(v, t).idx + (t \div Cnt(v)) * v.extent
BlockEnd(v, t) == BlockOff(v, t) + Block(v, t).len
Before(v, i) == SizeOf(SubSeq(v.blocks, 1, i))

\* The next block of the filetype, and the next one that is not empty.
NextBlock(v, t) == t + 1
NextFilled(v, t) ==
    LET f[s \in Nat] == IF Block(v, s).len > 0 THEN s ELSE f[s + 1]
    IN f[t + 1]

\* Where "offset" etypes into the view are: the block, the byte and the rest of
\* the block.
ExplicitStart(v, o) ==
    LET n_etypes == Size(v) \div v.esize
        size_in == (o % n_etypes) * v.esize
        i == Min({j \in 1 .. Cnt(v) : Before(v, j) > size_in})
        t == (o \div n_etypes) * Cnt(v) + i - 1
    IN [found |-> TRUE, t |-> t, off |-> BlockOff(v, t) + size_in - Before(v, i - 1),
        rest |-> Before(v, i) - size_in]

\* ADIOI_Get_byte_offset, also the target of ADIOI_GEN_SeekIndividual.
ByteOffset(v, o) ==
    IF v.contig THEN v.disp + v.esize * o ELSE ExplicitStart(v, o).off

\* The first block that does not end before byte b.
BlockAt(v, b) ==
    LET f[t \in Nat] == IF BlockEnd(v, t) >= b THEN t ELSE f[t + 1]
    IN f[0]

\* Mutant: the rest of the block is counted as passed.
PositionOfBlock(v, fp) ==
    IF v.contig THEN (fp - v.disp) \div v.esize
    ELSE LET t == BlockAt(v, fp)
         IN ((t \div Cnt(v)) * Size(v) + Before(v, (t % Cnt(v)) + 1)) \div v.esize

\* ADIOI_Get_position.
Position(v, fp) ==
    IF v.contig THEN (fp - v.disp) \div v.esize
    ELSE LET t == BlockAt(v, fp)
             sum == Before(v, (t % Cnt(v)) + 1) - (BlockEnd(v, t) - fp)
         IN ((t \div Cnt(v)) * Size(v) + sum) \div v.esize

\* Division as in C, towards zero.
Quot(a, b) == IF a >= 0 THEN a \div b ELSE -((-a) \div b)

\* Mutant: an etype that is partly in the file is not skipped.
NoCeiling(v, n) == Quot(n, v.esize)

\* ADIOI_Get_eof_offset.
Ceiling(v, n) == Quot(n + v.esize - 1, v.esize)
EofOffset(v, fs) ==
    IF v.contig THEN Ceiling(v, fs - v.disp)
    ELSE LET t == BlockAt(v, fs)
             i == t % Cnt(v)
             sum == IF BlockOff(v, t) >= fs THEN Before(v, i)
                    ELSE Before(v, i + 1) - (BlockEnd(v, t) - fs)
         IN Ceiling(v, (t \div Cnt(v)) * Size(v) + sum)

\* The start of an access at the individual pointer, in the strided accesses
\* with data sieving and in ADIOI_Calc_my_off_len; found is FALSE when the search
\* runs past the last block of the filetype.
IndividualStart(v, fp) ==
    LET n == Quot(fp - v.disp - v.blocks[1].idx, v.extent)
        o == fp - v.disp - n * v.extent
        dist(j) == v.blocks[j].idx + v.blocks[j].len - o
        i == Min({Cnt(v) + 1} \cup
                 {j \in 1 .. Cnt(v) : v.blocks[j].len > 0 /\ dist(j) >= 0})
        j == IF i <= Cnt(v) /\ dist(i) = 0 THEN i + 1 ELSE i
        t == n * Cnt(v) + j - 1
    IN [found |-> j <= Cnt(v), t |-> t,
        off |-> IF j = i THEN fp ELSE BlockOff(v, t),
        rest |-> IF j = i THEN dist(i) ELSE Block(v, t).len]

\* The start in the naive accesses.
NaiveStart(v, fp) ==
    LET t == BlockAt(v, fp)
    IN [found |-> TRUE, t |-> t, off |-> fp, rest |-> BlockEnd(v, t) - fp]

(***************************************************************************)
(* The walks through the file view                                         *)
(***************************************************************************)
FileAt(v, t) == [t |-> t, off |-> BlockOff(v, t), rest |-> Block(v, t).len]

\* Mutant: every buffer type is taken for the first one.
MemAtFirst(b, k) ==
    LET m == b.blocks[(k % Len(b.blocks)) + 1]
    IN [k |-> k, off |-> m.idx, rest |-> m.len]

\* Block k of the buffer types, repeated.
MemAt(b, k) ==
    LET m == b.blocks[(k % Len(b.blocks)) + 1]
    IN [k |-> k, off |-> b.extent * (k \div Len(b.blocks)) + m.idx, rest |-> m.len]

\* n bytes that are contiguous in memory.
Flat(n) == [contig |-> TRUE, extent |-> n, blocks |-> <<[idx |-> 0, len |-> n]>>]

Piece(f, m, n) == IF n = 0 THEN << >> ELSE <<[off |-> f.off, mem |-> m.off, len |-> n]>>
Skip(p, n) == [p EXCEPT !.off = @ + n, !.rest = @ - n]

\* The naive accesses step to the next block, the others skip empty ones.
Advance(v, t, naive) == IF naive THEN NextBlock(v, t) ELSE NextFilled(v, t)

\* n bytes from place f of the file and m of the buffer on: the contiguous pieces,
\* and the byte of the file after the last one.
RECURSIVE Walk(_, _, _, _, _, _)
Walk(v, b, naive, f, m, n) ==
    IF n = 0 THEN [pieces |-> << >>, fp |-> f.off]
    ELSE LET size == Min({f.rest, m.rest, n})
             f1 == IF size = f.rest THEN FileAt(v, Advance(v, f.t, naive))
                   ELSE Skip(f, size)
             m1 == IF size = m.rest THEN MemAt(b, m.k + 1) ELSE Skip(m, size)
             w == Walk(v, b, naive, f1, m1, n - size)
         IN [pieces |-> Piece(f, m, size) \o w.pieces, fp |-> w.fp]

\* The walk from where the search for the starting block ended.  Past the last block
\* the code reads beyond its list: nothing is known of the access, which counts as
\* one that transfers nothing it should.
WalkFrom(v, b, naive, start, n) ==
    IF start.found THEN Walk(v, b, naive, start, MemAt(b, 0), n)
    ELSE [pieces |-> << >>, fp |-> start.off]

\* The same when the file is contiguous: the blocks of the buffer one by one.
ContigWalk(b, off, n) ==
    LET ms == [k \in 1 .. (n \div SizeOf(b.blocks)) * Len(b.blocks) |-> MemAt(b, k - 1)]
    IN FoldLeft(LAMBDA w, m : [pieces |-> w.pieces \o Piece([off |-> w.fp], m, m.rest),
                               fp |-> w.fp + m.rest],
                [pieces |-> << >>, fp |-> off], ms)

\* The first pass of ADIOI_Calc_my_off_len, which sizes the offset list: it ends
\* when n bytes are counted, wherever the block is.
RECURSIVE CountPieces(_, _, _, _)
CountPieces(v, t, rest, n) ==
    IF n = 0 THEN 0
    ELSE LET size == Min({rest, n})
         IN Min({size, 1}) + CountPieces(v, t + 1, Block(v, t + 1).len, n - size)

Bytes(pieces) ==
    FlattenSeq([i \in DOMAIN pieces |->
        [j \in 1 .. pieces[i].len |-> <<pieces[i].off + j - 1, pieces[i].mem + j - 1>>]])

(***************************************************************************)
(* The reference: the view shows the bytes of its blocks in file order     *)
(***************************************************************************)
VisibleUpTo(v, t) ==
    UNION {BlockOff(v, s) .. BlockEnd(v, s) - 1 : s \in 0 .. t}

\* Byte k of the view, counted from 0.
Visible(v, k) ==
    LET S == VisibleUpTo(v, Cnt(v) * (k \div Size(v) + 1) - 1)
    IN CHOOSE x \in S : Cardinality({y \in S : y < x}) = k

\* Byte k of the buffer.
InBuffer(b, k) ==
    LET bytes == FlattenSeq([i \in DOMAIN b.blocks |->
                     [j \in 1 .. b.blocks[i].len |-> b.blocks[i].idx + j - 1]])
    IN (k \div Len(bytes)) * b.extent + bytes[(k % Len(bytes)) + 1]

\* The etypes of the view that begin before the end of the file.
EtypesInFile(v, fs) ==
    LET S == VisibleUpTo(v, Cnt(v) * (fs \div v.extent + 1))
        n == Cardinality({y \in S : y < fs})
    IN (n + v.esize - 1) \div v.esize

\* What an access of n bytes from byte k of the view on should match.
Match(v, b, k, n) == [j \in 1 .. n |-> <<Visible(v, k + j - 1), InBuffer(b, j - 1)>>]

Misplaced(got, want) ==
    {j \in DOMAIN got \cup DOMAIN want :
        j \notin DOMAIN got \/ j \notin DOMAIN want \/ got[j] # want[j]}

(***************************************************************************)
(* The operations                                                          *)
(***************************************************************************)
TypeOK ==
    /\ driver \in Drivers
    /\ sieving \in [{"r", "w"} -> BOOLEAN]
    /\ view \in Views
    /\ fp_ind \in Nat /\ cache_fp \in Nat /\ fsize \in Nat /\ bpos \in Nat
    /\ wrong \subseteq Nat /\ spare \in Int

\* ADIO_Set_view puts the pointer on the first byte the view shows.
FirstByte(v) ==
    IF v.contig THEN v.disp ELSE BlockOff(v, NextFilled(v, -1))

Init ==
    /\ driver \in Drivers /\ sieving \in [{"r", "w"} -> BOOLEAN]
    /\ view \in {v \in Views : v.contig /\ v.disp = 0 /\ v.esize = 1}
    /\ fp_ind = 0 /\ cache_fp = 0 /\ bpos = 0
    /\ fsize \in FileSizes
    /\ wrong = {} /\ spare = 0

SetView(v) ==
    /\ view' = v /\ fp_ind' = FirstByte(v) /\ bpos' = 0
    /\ wrong' = {} /\ spare' = 0
    /\ UNCHANGED <<driver, sieving, cache_fp, fsize>>

\* The etype a seek asks for, as the code and as the application count it.
SeekBase(whence) ==
    CASE whence = "SET" -> 0
      [] whence = "CUR" -> Position(view, fp_ind)
      [] whence = "END" -> EofOffset(view, fsize)
Expected(whence) ==
    CASE whence = "SET" -> 0
      [] whence = "CUR" -> bpos \div view.esize
      [] whence = "END" -> EtypesInFile(view, fsize)

\* MPI_File_seek; a negative target is refused and moves nothing.
Refused(target) == target < 0
Seek(whence, o) ==
    \E target \in {SeekBase(whence) + o} :
        /\ ~Refused(target) /\ (Expected(whence) + o) * view.esize <= MaxByte
        /\ fp_ind' = ByteOffset(view, target)
        /\ bpos' = (Expected(whence) + o) * view.esize
        /\ wrong' = {} /\ spare' = 0
        /\ UNCHANGED <<driver, sieving, view, cache_fp, fsize>>

Stretch(fs, pieces) == Max({fs} \cup {r.off + r.len : r \in Range(pieces)})

\* Every access: w the walk, k the first byte of the view, moved the bytes the
\* pointer passes when it is the individual one.
Accessed(dir, b, n, w, k, individual, moved) ==
    /\ wrong' = Misplaced(Bytes(w.pieces), Match(view, b, k, n))
    /\ fsize' = IF dir = "w" THEN Stretch(fsize, w.pieces) ELSE fsize
    /\ fp_ind' = IF individual THEN w.fp ELSE fp_ind
    /\ bpos' = IF individual THEN bpos + moved ELSE bpos
    /\ UNCHANGED <<driver, sieving, view>>

\* The accesses MPI_File_read and write let through: whole etypes, in bounds.
Fits(k, n) == n > 0 /\ n % view.esize = 0 /\ k + n <= MaxByte

NoEmpty(v) == \A i \in DOMAIN v.blocks : v.blocks[i].len > 0
Allowed(naive) ==
    Mixed \/ NoEmpty(view) \/ \A d \in {"r", "w"} : sieving[d] = ~naive

\* ADIOI_GEN_WriteContig and ReadContig: buffer and file contiguous.  A read ends
\* at the end of the file.
ContigRead(n, individual, o) ==
    \E off \in {IF individual THEN fp_ind ELSE ByteOffset(view, o)} :
    \E k \in {IF individual THEN bpos ELSE o * view.esize} :
    \E len \in {Max({0, Min({n, fsize - off})})} :
        /\ view.contig /\ Fits(k, n)
        /\ Accessed("r", Flat(n), len, ContigWalk(Flat(Max({len, 1})), off, len), k,
                    individual, len)
        /\ spare' = 0 /\ UNCHANGED cache_fp

\* With an open cache the handle, and the pointer, are those of the cache file.
WritePointer == IF driver = "cached" THEN cache_fp ELSE fp_ind

ContigWrite(n, individual, o) ==
    \E off \in {IF individual THEN WritePointer ELSE ByteOffset(view, o)} :
    \E k \in {IF individual THEN bpos ELSE o * view.esize} :
    \E w \in {ContigWalk(Flat(n), off, n)} :
        /\ view.contig /\ Fits(k, n)
        /\ Accessed("w", Flat(n), n,
                    [w EXCEPT !.fp = IF driver = "cached" THEN fp_ind
                                     ELSE IF driver = "beegfs" THEN @ + n ELSE @],
                    k, individual, n)
        /\ cache_fp' = IF driver = "cached" /\ individual THEN w.fp ELSE cache_fp
        /\ spare' = 0

\* ADIOI_GEN_WriteStrided and ReadStrided, or their naive forms when data sieving
\* is disabled for the direction: c buffer types.  A request inside one block
\* goes out at once; it leaves the pointer where the walk does.
Strided(dir, b, c, individual, o) ==
    LET n == c * SizeOf(b.blocks)
        naive == ~sieving[dir]
        start == IF ~individual THEN ExplicitStart(view, o)
                 ELSE IF naive THEN NaiveStart(view, fp_ind)
                 ELSE IndividualStart(view, fp_ind)
    IN /\ ~(b.contig /\ view.contig) /\ Allowed(naive)
       /\ \E k \in {IF individual THEN bpos ELSE o * view.esize} :
          \E w \in {IF view.contig
                     THEN ContigWalk(b, IF individual THEN fp_ind
                                        ELSE ByteOffset(view, o), n)
                     ELSE WalkFrom(view, b, naive, start, n)} :
             Fits(k, n) /\ Accessed(dir, b, n, w, k, individual, n)
       /\ spare' = 0 /\ UNCHANGED cache_fp

\* The offset list of a collective access (ADIOI_Calc_my_off_len).
Collective(dir, n, individual, o) ==
    LET start == IF individual THEN IndividualStart(view, fp_ind)
                 ELSE ExplicitStart(view, o)
    IN /\ Allowed(FALSE)
       /\ \E k \in {IF individual THEN bpos ELSE o * view.esize} :
          \E w \in {IF view.contig
                     THEN ContigWalk(Flat(n), IF individual THEN fp_ind
                                              ELSE ByteOffset(view, o), n)
                     ELSE WalkFrom(view, Flat(n), FALSE, start, n)} :
             /\ Fits(k, n) /\ Accessed(dir, Flat(n), n, w, k, individual, n)
             /\ spare' = (IF view.contig THEN 1
                          ELSE CountPieces(view, start.t, start.rest, n))
                         - Len(w.pieces)
       /\ UNCHANGED cache_fp

ContigSizes == {c * SizeOf(b.blocks) : c \in Counts, b \in Buffers}

Next ==
    \/ \E v \in Views : SetView(v)
    \/ \E whence \in {"SET", "CUR", "END"}, o \in Offsets : Seek(whence, o)
    \/ \E individual \in BOOLEAN, o \in Offsets \cap Nat :
          \/ \E n \in ContigSizes : ContigRead(n, individual, o)
          \/ \E n \in ContigSizes : ContigWrite(n, individual, o)
          \/ \E dir \in {"r", "w"}, b \in Buffers, c \in Counts :
                Strided(dir, b, c, individual, o)
          \/ \E dir \in {"r", "w"}, n \in ContigSizes :
                Collective(dir, n, individual, o)

Spec == Init /\ [][Next]_vars

(***************************************************************************)
(* Properties                                                              *)
(***************************************************************************)

\* Every access, by whatever path and from whatever pointer, matches byte k of
\* the buffer with byte k of the view after its starting point, holes and
\* markers skipped (ad_write_str.c, ad_read_str.c, their naive forms,
\* Calc_my_off_len).
AccessRight == wrong = {}

\* MPI_File_get_position reports the etypes passed since the view was set,
\* whatever mix of seeks and accesses moved the pointer (get_fp_posn.c).
PositionKept == Position(view, fp_ind) = bpos \div view.esize

\* Where no naive access moved it, the pointer is on a byte the view shows
\* (comments at ad_set_view.c:60 and ad_write_str.c:296), so that the search for
\* the starting block finds one in the filetype (the loop at ad_read_coll.c:376
\* has no check).
StartFound ==
    (\A d \in {"r", "w"} : sieving[d]) /\ ~view.contig
        => /\ fp_ind = Visible(view, bpos)
           /\ IndividualStart(view, fp_ind).found

\* The offset list has as many entries as the first pass allocated
\* (ad_read_coll.c:419 counts, ad_read_coll.c:443 fills).
ListFits == spare = 0

\* MPI_SEEK_END starts from the first etype that is not wholly in the file
\* (eof_offset.c:30).  A contiguous view must begin inside the file.
EofRight ==
    (view.contig => view.disp <= fsize)
        => EofOffset(view, fsize) = EtypesInFile(view, fsize)
=============================================================================
