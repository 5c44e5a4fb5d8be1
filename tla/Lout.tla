-------------------------------- MODULE Lout --------------------------------
(***************************************************************************)
(* Placing a program in memory (uexec.c): lout_layout, which gives every   *)
(* group of sections its segments, and the argument frame that run_exec    *)
(* builds in segment 0.  A header is a record: flag (0 to 3: LF_SHR is 1,  *)
(* LF_SEP is 2), the entry, and the sizes si pi bi sd pd bd.               *)
(***************************************************************************)
EXTENDS Integers, Sequences, SequencesExt

CONSTANTS
  SegSize,     \* bytes of a segment: 2^16
  LastSeg,     \* 0x7F
  ArgDesc, PoolBase, PoolLimit    \* the argument frame of segment 0

ASSUME LoutAssumption ==
  /\ SegSize \in Nat \ {0} /\ LastSeg \in Nat
  /\ ArgDesc \in Nat /\ PoolBase \in Nat /\ PoolLimit \in Nat
  /\ ArgDesc < PoolBase /\ PoolBase < PoolLimit

(* A piece of a group: file offset, offset in the group, length.  An empty *)
(* piece is not kept.                                                      *)
Piece(fo, mo, ln) == [foff |-> fo, moff |-> mo, len |-> ln]
NoPiece == Piece(0, 0, 0)
Listed(x) == IF x.len > 0 THEN <<x>> ELSE <<>>

(* A group of one or two pieces, with bss behind it.                       *)
Group(x, y, bss) == [p |-> Listed(x) \o Listed(y), bss |-> bss,
                     span |-> Max({x.moff + x.len, y.moff + y.len})]

(* A group with nothing in it gets no segment.                             *)
NonEmpty(g) == IF g.span > 0 \/ g.bss > 0 THEN <<g>> ELSE <<>>

(* The file has si, pi, sd, pd after the header, in this order.            *)
FilePi(h) == h.si
FileSd(h) == h.si + h.pi
FilePd(h) == h.si + h.pi + h.sd

(* Mutant: the private pieces of LF_SHR taken as adjacent in the file.     *)
Groups_shared_adjacent(h) ==
  NonEmpty(Group(Piece(0, 0, h.si), Piece(FileSd(h), h.si, h.sd), 0))
    \o NonEmpty(Group(Piece(FilePi(h), 0, h.pi + h.pd), NoPiece, h.bi + h.bd))

(* The groups of the link mode, the empty ones left out.                   *)
Groups(h) ==
  CASE h.flag = 0 ->
         NonEmpty(Group(Piece(0, 0, h.si + h.pi + h.sd + h.pd), NoPiece, h.bi + h.bd))
    [] h.flag = 1 ->
         NonEmpty(Group(Piece(0, 0, h.si), Piece(FileSd(h), h.si, h.sd), 0))
           \o NonEmpty(Group(Piece(FilePi(h), 0, h.pi), Piece(FilePd(h), h.pi, h.pd),
                             h.bi + h.bd))
    [] h.flag = 2 ->
         NonEmpty(Group(Piece(0, 0, h.si + h.pi), NoPiece, h.bi))
           \o NonEmpty(Group(Piece(FileSd(h), 0, h.sd + h.pd), NoPiece, h.bd))
    [] h.flag = 3 ->
         NonEmpty(Group(Piece(0, 0, h.si), NoPiece, 0))
           \o NonEmpty(Group(Piece(FilePi(h), 0, h.pi), NoPiece, h.bi))
           \o NonEmpty(Group(Piece(FileSd(h), 0, h.sd), NoPiece, 0))
           \o NonEmpty(Group(Piece(FilePd(h), 0, h.pd), NoPiece, h.bd))

(* Where group i of gs starts in its first segment.                        *)
Base(h, i) == IF i = 1 THEN h.entry_off ELSE 0

Total(h, gs, i) == Base(h, i) + gs[i].span + gs[i].bss

(* The segments group i needs.                                             *)
Needed(h, gs, i) == Max({1, (Total(h, gs, i) + SegSize - 1) \div SegSize})

(* The first segment of each group, and the one after the last.            *)
Segments(h, gs) ==
  LET from[i \in 1 .. Len(gs) + 1] ==
        IF i = 1 THEN h.entry_seg ELSE from[i - 1] + Needed(h, gs, i - 1)
  IN  from

Refused == [groups |-> <<>>, seg |-> <<>>, base |-> <<>>, last_seg |-> -1]

lout_layout(h) ==
  LET gs == Groups(h) from == Segments(h, gs)
  IN  IF gs = <<>> \/ \E i \in 1 .. Len(gs) : from[i + 1] - 1 > LastSeg THEN Refused
      ELSE [groups |-> gs, seg |-> [i \in 1 .. Len(gs) |-> from[i]],
            base |-> [i \in 1 .. Len(gs) |-> Base(h, i)],
            last_seg |-> from[Len(gs) + 1] - 1]

(* Loading: byte j of a piece of group i, as segment and offset.           *)
Placed(L, i, at) == LET a == L.base[i] + at
                    IN  <<L.seg[i] + a \div SegSize, a % SegSize>>

-----------------------------------------------------------------------------
(* The argument frame: the argv pointers, the envp pointers, the strings.  *)
(* 4 bytes to a pointer, and a null pointer ends each array.               *)

argv_arr == ArgDesc
envp_arr(nprog) == argv_arr + (nprog + 1) * 4

(* Mutant: the pool starts at its fixed place.                             *)
PoolStart_fixed(nprog, nenv) == PoolBase

PoolStart(nprog, nenv) == Max({PoolBase, envp_arr(nprog) + (nenv + 1) * 4})

(* The addresses put_str gives to strings of these lengths; <<>> stands    *)
(* for the run that is stopped because they do not fit.                    *)
Strings(nprog, nenv, lengths) ==
  LET at[i \in 1 .. Len(lengths) + 1] ==
        IF i = 1 THEN PoolStart(nprog, nenv) ELSE at[i - 1] + lengths[i - 1] + 1
  IN  IF \E i \in 1 .. Len(lengths) + 1 : at[i] > PoolLimit THEN <<>>
      ELSE [i \in 1 .. Len(lengths) |-> at[i]]
=============================================================================
