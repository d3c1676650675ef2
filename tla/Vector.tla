------------------------------- MODULE Vector -------------------------------
(***************************************************************************)
(* The pointer vector, src/Noriko/dstruct/vector.c, as far as the engine   *)
(* uses it: its elements (the first m_elemCount slots of the buffer; no    *)
(* assertion lets an index behind them through) and its capacity.  Indices *)
(* count from 0.  Wild is a pointer read from memory that no element was   *)
(* stored in.                                                              *)
(***************************************************************************)
EXTENDS Integers, Sequences, FiniteSetsExt

CONSTANTS
  SizeRange,  (* 2^64: the values of NkSize                                *)
  InitCap,    (* m_initialCap                                              *)
  MaxCap,     (* m_maxCap                                                  *)
  HeapCap,    (* the longest buffer NkGPRealloc can provide                *)
  Wild

SizeMax == SizeRange - 1

NkVectorCreate == [elems |-> <<>>, cap |-> InitCap]

NkVectorGetElementCount(v) == Len(v.elems)

(* The assertion of NkVectorAt.                                            *)
InRange(v, index) == index < Len(v.elems)

NkVectorAt(v, index) == v.elems[index + 1]

Elements(v) == {v.elems[i] : i \in 1 .. Len(v.elems)}

(* The capacity asked for when reqSize elements do not fit: the growth     *)
(* factor is 3/2, and the limit m_maxCap is applied with NK_MAX.           *)
NewCap(v, reqSize) == Max({MaxCap, reqSize, (3 * v.cap + 1) \div 2})

(* NkVectorInsertMulti of n elements succeeds: no wrap-around, and the     *)
(* buffer is large enough or can be enlarged.                              *)
Fits(v, n) ==
  LET reqSize == (Len(v.elems) + n) % SizeRange
  IN  reqSize > Len(v.elems) /\ (reqSize <= v.cap \/ NewCap(v, reqSize) <= HeapCap)

(* The n elements that are to move right to make room for elems: memmove   *)
(* reads elemArray, and what lies behind it, instead of the buffer.        *)
ShiftedTail(elems, n) == [k \in 1 .. n |-> IF k <= Len(elems) THEN elems[k] ELSE Wild]

(* NkVectorInsertMulti, for an index of at most the element count.         *)
NkVectorInsertMulti(v, index, elems) ==
  LET count == Len(v.elems)
      reqSize == count + Len(elems)
  IN  [elems |-> SubSeq(v.elems, 1, index) \o elems \o ShiftedTail(elems, count - index),
       cap |-> IF reqSize <= v.cap THEN v.cap ELSE NewCap(v, reqSize)]

NkVectorInsert(v, elem, index) == NkVectorInsertMulti(v, index, <<elem>>)

(* NkVectorEraseMulti without an element destructor, for an index below    *)
(* the element count.                                                      *)
NkVectorEraseMulti(v, sInd, maxN) ==
  LET n == Min({maxN, Len(v.elems) - sInd})
  IN  [v EXCEPT !.elems = SubSeq(@, 1, sInd) \o SubSeq(@, sInd + n + 1, Len(@))]

NkVectorErase(v, index) == NkVectorEraseMulti(v, index, 1)
=============================================================================
